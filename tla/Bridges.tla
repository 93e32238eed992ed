------------------------------ MODULE Bridges ------------------------------
(***************************************************************************)
(* A disclosure built (builder.ts), signed, and carried in other wrappings:  *)
(* a verifiable credential (vc.ts) and a JWS given to a stock JOSE library   *)
(* (joseEnvelope.ts); and a claim about its model signed beside it           *)
(* (modelAttestation.ts).                                                    *)
(*                                                                           *)
(* The JOSE library is not in src/: its flattenedVerify checks the signature *)
(* of the protected header and the payload.  Every JWS here has the header   *)
(* signDisclosureJws writes: header parameters it never writes, which the    *)
(* library may refuse and ADP's own check ignores (crit, b64), are left out. *)
(***************************************************************************)
EXTENDS Attestation

CONSTANTS
  Agent,        \* keys of the agents
  NextKey,      \* a key an agent may rotate to
  Model,        \* model digests
  MaxIssued     \* bound of the model on what is signed or wrapped, half of it envelopes

ASSUME BridgesAssumption == MaxIssued \in Nat

VARIABLES
  issued,       \* envelopes signed
  credentials,  \* verifiable credentials in circulation
  claims,       \* model attestations in circulation
  checked       \* {} or the verdicts on the envelope, credential or claim just presented

bridges == <<issued, credentials, claims, checked>>

(* The document of a key at a moment, valid for as long as the builder says. *)
Build(key, now, validFor, nonce) ==
  [disclosureId |-> <<key, nonce, now>>, agentId |-> key, issuedAt |-> now,
   validUntil |-> now + validFor, nonce |-> nonce]

(* The proof carries the signature; the key it is checked with is the agentId. *)
ToVerifiableCredential(signed, validUntil) ==
  [issuer |-> AgentIdToDidKey(signed.disclosure.agentId),
   validFrom |-> signed.disclosure.issuedAt, validUntil |-> validUntil,
   subjectId |-> AgentIdToDidKey(signed.disclosure.agentId),
   subject |-> signed.disclosure, proofValue |-> signed.signature]

FromVerifiableCredential(vc) ==
  [form |-> "v1", disclosure |-> vc.subject, publicKey |-> vc.subject.agentId,
   signature |-> vc.proofValue, rotationChain |-> <<>>]

VerifyVerifiableCredential(vc) ==
  /\ vc.subjectId = AgentIdToDidKey(vc.subject.agentId)
  /\ VerifyAnyDisclosureSignature(FromVerifiableCredential(vc))

(* A slip: the chain is left to the library, which does not know it. *)
VerifyWithJoseUnchained(signed) ==
  /\ signed.form = "jws"
  /\ signed.signature = SignMessage(SigningInput("jws", signed.disclosure), signed.publicKey)
  /\ VerifyKeyBinding(signed.disclosure.agentId, signed.publicKey, <<>>)

VerifyDisclosureJwsWithJose(signed) ==
  /\ signed.form = "jws"
  /\ signed.signature = SignMessage(SigningInput("jws", signed.disclosure), signed.publicKey)
  /\ VerifyKeyBinding(signed.disclosure.agentId, signed.publicKey, signed.rotationChain)

ModelClaim(agentId, model, at) == [agentId |-> agentId, model |-> model, attestedAt |-> at]

AttestModel(key, model, now) ==
  [agentId |-> key, model |-> model, attestedAt |-> now,
   signature |-> SignMessage(ModelClaim(key, model, now), key)]

VerifyModelAttestation(a) ==
  VerifyMessage(ModelClaim(a.agentId, a.model, a.attestedAt), a.agentId, a.signature)

---------------------------------------------------------------------------
Made == Cardinality(issued) + Cardinality(credentials) + Cardinality(claims)

BridgesInit == issued = {} /\ credentials = {} /\ claims = {} /\ checked = {}

(* The builder mints for its key; a rotated agent keeps its first id and signs     *)
(* with the next key, the rotation beside it or not.                               *)
BuildAndSign ==
  /\ Made < MaxIssued /\ 2 * Cardinality(issued) < MaxIssued
  /\ \E key \in Agent, form \in EnvelopeForm :
       LET d == Build(key, 0, 1, Cardinality(issued)) IN
       \/ issued' = issued \cup {SignDisclosure(form, d, key, <<>>)}
       \/ \E chain \in {<<>>, <<RotateKey(key, NextKey, 0)>>} :
            issued' = issued \cup {SignDisclosure(form, d, NextKey, chain)}
  /\ checked' = {}
  /\ UNCHANGED <<credentials, claims>>

WrapAsCredential ==
  /\ Made < MaxIssued
  /\ \E s \in issued, until \in {1, 2} :
       s.form = "v1" /\ credentials' = credentials \cup {ToVerifiableCredential(s, until)}
  /\ checked' = {}
  /\ UNCHANGED <<issued, claims>>

ClaimModel ==
  /\ Made < MaxIssued
  /\ \E key \in Agent, model \in Model : claims' = claims \cup {AttestModel(key, model, 0)}
  /\ checked' = {}
  /\ UNCHANGED <<issued, credentials>>

(* What is presented may be put together from several of them. *)
PresentEnvelope ==
  /\ checked = {}
  /\ \E s, t \in issued :
       LET got == [form |-> s.form, disclosure |-> s.disclosure, signature |-> s.signature,
                   publicKey |-> t.publicKey, rotationChain |-> t.rotationChain] IN
       checked' = {[kind |-> "envelope", got |-> got, ok |-> VerifyAnyDisclosureSignature(got),
                    jose |-> VerifyDisclosureJwsWithJose(got)]}
  /\ UNCHANGED <<issued, credentials, claims>>

PresentCredential ==
  /\ checked = {}
  /\ \E vc, other \in credentials :
       \E got \in {vc, [vc EXCEPT !.subject = other.subject], [vc EXCEPT !.subjectId = other.subjectId],
                   [vc EXCEPT !.proofValue = other.proofValue]} :
         checked' = {[kind |-> "credential", got |-> got, ok |-> VerifyVerifiableCredential(got)]}
  /\ UNCHANGED <<issued, credentials, claims>>

PresentClaim ==
  /\ checked = {}
  /\ \E a, other \in claims :
       \E got \in {a, [a EXCEPT !.model = other.model], [a EXCEPT !.agentId = other.agentId]} :
         checked' = {[kind |-> "model", got |-> got, ok |-> VerifyModelAttestation(got)]}
  /\ UNCHANGED <<issued, credentials, claims>>

BridgesNext ==
  \/ BuildAndSign \/ WrapAsCredential \/ ClaimModel
  \/ PresentEnvelope \/ PresentCredential \/ PresentClaim

---------------------------------------------------------------------------
(* The wrapping changes no verdict: a credential verifies exactly when it says of  *)
(* one subject what an envelope of that subject's own key says (a rotated agent's   *)
(* does not: the chain is lost in the wrapping); the JOSE library accepts a JWS     *)
(* with the header this code writes exactly when the envelope's own check does; a    *)
(* model claim verifies only as its agent made it (vc.ts:133-152,                     *)
(* joseEnvelope.ts:52-104, modelAttestation.ts:56-65).                                *)
WrappingKeepsTheVerdict ==
  \A x \in checked :
    CASE x.kind = "envelope" -> x.got.form = "jws" => (x.jose <=> x.ok)
      [] x.kind = "credential" ->
           x.ok <=> /\ x.got.subjectId = AgentIdToDidKey(x.got.subject.agentId)
                    /\ \E s \in issued :
                         /\ s.form = "v1" /\ s.disclosure = x.got.subject
                         /\ s.publicKey = x.got.subject.agentId
                         /\ s.signature = x.got.proofValue
      [] x.kind = "model" -> x.ok => x.got \in claims
=============================================================================
