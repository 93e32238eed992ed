------------------------------ MODULE SdJwtVc ------------------------------
(***************************************************************************)
(* The disclosure as a selectively disclosable credential (sdjwtvc.ts).      *)
(*                                                                           *)
(* A Disclosure is the triple of its salt, its field's name and its value,   *)
(* and stands for its own digest, the hash being collision-free; a salt is   *)
(* named by the credential it was drawn for.  A presentation is the issuer's *)
(* JWT, the sequence of its Disclosures and the key-binding JWT, {} if none; *)
(* "terminated" tells whether it ends in a tilde.                            *)
(***************************************************************************)
EXTENDS Attestation, Selection, SequencesExt

CONSTANT RedactableField   \* REDACTABLE_FIELDS of redaction.ts

AdpVct == "AgentDisclosure"

Jws(typ, payload, key) ==
  [typ |-> typ, payload |-> payload,
   signature |-> SignMessage([typ |-> typ, payload |-> payload], key)]

JwsVerify(jws, key) ==
  VerifyMessage([typ |-> jws.typ, payload |-> jws.payload], key, jws.signature)

(* One Disclosure for each field the document has; decoys have names of no field. *)
Disclosures(disclosure, salt) ==
  {[salt |-> salt, name |-> f, value |-> disclosure[f]] :
     f \in DOMAIN disclosure \cap RedactableField}

Decoys(salt, count) == {[salt |-> salt, name |-> "decoy", value |-> i] : i \in 1..count}

(* The issuer is named by the agentId, whichever key signs. *)
ToSdJwtVc(disclosure, key, holderKey, vct, salt, decoys) ==
  LET payload == [iss |-> AgentIdToDidKey(disclosure.agentId), vct |-> vct,
                  exp |-> disclosure.validUntil, cnf |-> holderKey,
                  disclosureId |-> disclosure.disclosureId,
                  sd |-> Disclosures(disclosure, salt) \cup Decoys(salt, decoys)]
  IN  [jwt |-> Jws("dc+sd-jwt", payload, key),
       disclosures |-> SetToSeq(Disclosures(disclosure, salt)),
       kb |-> {}, terminated |-> TRUE]

(* What the key-binding JWT's sd_hash is taken over. *)
Presented(jwt, disclosures) == [jwt |-> jwt, disclosures |-> disclosures]

(* A key-binding JWT the credential already carries is dropped. *)
PresentSdJwtVc(issued, reveal, holderKey, aud, nonce) ==
  LET kept == Selected(issued.disclosures, {d \in ToSet(issued.disclosures) : d.name \in reveal})
      kb == [aud |-> aud, nonce |-> nonce, sdHash |-> Presented(issued.jwt, kept)]
  IN  [jwt |-> issued.jwt, disclosures |-> kept, kb |-> {Jws("kb+jwt", kb, holderKey)},
       terminated |-> FALSE]

---------------------------------------------------------------------------
(* The issuer's half; opts.vct, opts.now, opts.aud and opts.nonce are {} when   *)
(* the caller does not ask for them.                                            *)
IssuerJwtHolds(jwt, opts) ==
  /\ \E key \in {jwt.signature.by} :
       jwt.payload.iss = AgentIdToDidKey(key) /\ JwsVerify(jwt, key)
  /\ \A vct \in opts.vct : jwt.payload.vct = vct
  /\ \A now \in opts.now : jwt.payload.exp >= now

(* Every Disclosure is referenced, and none twice. *)
DisclosuresHold(p) ==
  /\ ToSet(p.disclosures) \subseteq p.jwt.payload.sd
  /\ IsInjective(p.disclosures)

(* A slip: the key binding is not tied to the Disclosures presented with it. *)
KeyBindingOfCredential(p, kb, opts) ==
  /\ kb.typ = "kb+jwt" /\ JwsVerify(kb, p.jwt.payload.cnf)
  /\ \A aud \in opts.aud : kb.payload.aud = aud
  /\ \A nonce \in opts.nonce : kb.payload.nonce = nonce
  /\ kb.payload.sdHash.jwt = p.jwt

KeyBindingHolds(p, kb, opts) ==
  /\ kb.typ = "kb+jwt" /\ JwsVerify(kb, p.jwt.payload.cnf)
  /\ \A aud \in opts.aud : kb.payload.aud = aud
  /\ \A nonce \in opts.nonce : kb.payload.nonce = nonce
  /\ kb.payload.sdHash = Presented(p.jwt, p.disclosures)

KbRequired(opts) == opts.aud # {} \/ opts.nonce # {}

VerifySdJwtVc(p, opts) ==
  /\ IssuerJwtHolds(p.jwt, opts)
  /\ DisclosuresHold(p)
  /\ \A kb \in p.kb : KeyBindingHolds(p, kb, opts)
  /\ p.kb = {} => ~KbRequired(opts) /\ p.terminated

RevealedFields(p) == {p.disclosures[i].name : i \in DOMAIN p.disclosures}

(* The @sd-jwt/sd-jwt-vc instance, with the verifiers buildSdJwtVerifierCallbacks *)
(* wires into it: it looks at the key binding only when one is required.         *)
SdJwtLibraryAccepts(p, requireKb) ==
  /\ IssuerJwtHolds(p.jwt, [vct |-> {}, now |-> {}])
  /\ DisclosuresHold(p)
  /\ requireKb => /\ p.kb # {}
                  /\ \A kb \in p.kb : /\ JwsVerify(kb, p.jwt.payload.cnf)
                                      /\ kb.payload.sdHash = Presented(p.jwt, p.disclosures)

(* Audience and nonce are the caller's policy: compared after the library. *)
VerifySdJwtVcWithLib(p, opts) ==
  /\ SdJwtLibraryAccepts(p, KbRequired(opts))
  /\ IssuerJwtHolds(p.jwt, opts)
  /\ KbRequired(opts) =>
       \A kb \in p.kb : /\ \A aud \in opts.aud : kb.payload.aud = aud
                        /\ \A nonce \in opts.nonce : kb.payload.nonce = nonce
=============================================================================
