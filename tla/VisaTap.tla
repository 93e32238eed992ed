------------------------------ MODULE VisaTap ------------------------------
(***************************************************************************)
(* Visa Trusted Agent Protocol requests (visatap.ts): an HTTP request under  *)
(* an RFC 9421 signature, with the agent's disclosure in a header.           *)
(*                                                                           *)
(* A header is a record of what it carries; "components" are the parts of    *)
(* the request the signature says it covers.  The disclosure and the         *)
(* Signature-Agent header ride along unsigned.                               *)
(***************************************************************************)
EXTENDS Attestation

TapCoveredComponents == <<"@authority", "@path">>

(* material: authority, path, keyId, nonce, created, expires, tag, label. *)
SignatureParams(material) ==
  [components |-> TapCoveredComponents, created |-> material.created,
   expires |-> material.expires, keyId |-> material.keyId, alg |-> "ed25519",
   nonce |-> material.nonce, tag |-> material.tag]

TapSignatureBase(material) ==
  [authority |-> material.authority, path |-> material.path,
   params |-> SignatureParams(material)]

TapSignatureInput(material) ==
  [label |-> material.label, params |-> SignatureParams(material)]

SignTapRequest(signed, signatureAgent, material, key, embedDisclosure) ==
  [signatureAgent |-> signatureAgent,
   signatureInput |-> TapSignatureInput(material),
   tapSignature   |-> [label |-> material.label,
                       value |-> SignMessage(TapSignatureBase(material), key)],
   adpDisclosure  |-> IF embedDisclosure THEN {signed} ELSE {}]

---------------------------------------------------------------------------
(* An empty or missing parameter leaves the header unparsed ({}). *)
ParseTapSignatureInput(header) ==
  IF {"created", "expires", "keyId", "alg", "nonce", "tag"} \subseteq DOMAIN header.params
  THEN {header} ELSE {}

(* The value of a Signature header under another label is not read. *)
ParseTapSignatureValue(tapSignature, label) ==
  IF tapSignature.label = label THEN {tapSignature.value} ELSE {}

(* A key id that has the form of a key stands for that key. *)
DefaultTapKeyResolver(keyId, keys) == {keyId} \cap keys

(* Both ends are inclusive. *)
InTapWindow(params, now) == params.created <= now /\ now <= params.expires

(* All of verifyTapRequest that runs before the key is resolved; allowedTags is *)
(* {} when any tag will do, now {} when the caller gives no clock.              *)
TapOpens(req, allowedTags, now) ==
  \E header \in ParseTapSignatureInput(req.signatureInput) :
    /\ header.params.alg = "ed25519"
    /\ allowedTags # {} => header.params.tag \in allowedTags
    /\ \A t \in now : InTapWindow(header.params, t)
    /\ ParseTapSignatureValue(req.tapSignature, header.label) # {}

ExtractTapDisclosure(req) == req.adpDisclosure

BoundToDisclosure(req, signerKey) ==
  \E signed \in ExtractTapDisclosure(req) : signed.disclosure.agentId = signerKey

(* The base is rebuilt from the verifier's own authority and path. *)
TapMaterial(header, authority, path) ==
  [authority |-> authority, path |-> path, keyId |-> header.params.keyId,
   nonce |-> header.params.nonce, created |-> header.params.created,
   expires |-> header.params.expires, tag |-> header.params.tag, label |-> header.label]

(* A slip: the header is taken as it came, its covered components included. *)
TapAnyCoverage(req, authority, path, signerKey) ==
  LET header == req.signatureInput
      value == CHOOSE v \in ParseTapSignatureValue(req.tapSignature, header.label) : TRUE
      over == value.over
  IN  value.by = signerKey /\ header.params.keyId = over.params.keyId

(* The rest, with the key the resolver gave. *)
TapSignatureHolds(req, authority, path, signerKey) ==
  LET header == req.signatureInput
      material == TapMaterial(header, authority, path)
  IN  /\ header = TapSignatureInput(material)
      /\ \E value \in ParseTapSignatureValue(req.tapSignature, header.label) :
           VerifyMessage(TapSignatureBase(material), signerKey, value)

VerifyTapRequest(req, authority, path, signerKey, requireBinding) ==
  /\ TapSignatureHolds(req, authority, path, signerKey)
  /\ ExtractTapDisclosure(req) # {} /\ requireBinding => BoundToDisclosure(req, signerKey)
=============================================================================
