----------------------------- MODULE Handshake -----------------------------
(***************************************************************************)
(* The live challenge-response handshake (handshake.ts).  The signature    *)
(* base is the record of what it covers; Signature-Input carries all of it *)
(* but the values of the covered components other than the key id.         *)
(***************************************************************************)
EXTENDS Attestation

CONSTANT MaxAge             \* maxAgeMs, 60 s by default

ASSUME MaxAgeAssumption == MaxAge \in Nat

CreateChallenge(now, nonce, verifierId) ==
  [nonce |-> nonce, issuedAt |-> now, verifierId |-> verifierId]

SigMaterial(agentId, auditHead, signedAt, challenge, version) ==
  [agentId |-> agentId, auditHead |-> auditHead, signedAt |-> signedAt,
   nonce |-> challenge.nonce, verifierId |-> challenge.verifierId,
   disclosureVersion |-> version]

SignatureInputValue(m) ==
  [covers |-> m.disclosureVersion # {}, created |-> m.signedAt, keyid |-> m.agentId,
   nonce |-> m.nonce, tag |-> m.verifierId]

(* The agent presents itself under the hex of the key it signs with. *)
RespondToChallenge(challenge, key, auditHead, now, version) ==
  LET m == SigMaterial(key, auditHead, now, challenge, version)
  IN  [nonce |-> challenge.nonce, agentId |-> key, auditHead |-> auditHead,
       signedAt |-> now, disclosureVersion |-> version,
       signatureInput |-> SignatureInputValue(m), signature |-> SignMessage(m, key)]

(* What the verifier rebuilds: its own nonce and verifier id, the response's claims. *)
RebuiltMaterial(response, challenge) ==
  SigMaterial(response.agentId, response.auditHead, response.signedAt, challenge,
              response.disclosureVersion)

AnswersChallenge(response, challenge) ==
  LET m == RebuiltMaterial(response, challenge)
  IN  /\ response.nonce = challenge.nonce
      /\ response.signatureInput = SignatureInputValue(m)
      /\ VerifyMessage(m, response.agentId, response.signature)

Supported(response, supportedVersions) ==
  \A versions \in supportedVersions : response.disclosureVersion \subseteq versions

(* signedAt is a date: one that is none would not be compared at all. *)
Timely(response, now) == now - response.signedAt \in 0..MaxAge

(* Slips: the signature is checked over whatever was signed, not over this     *)
(* challenge; the response's timestamp is not looked at.                       *)
VerifyAnyNonce(response, challenge, expectedAgentId, now, supportedVersions) ==
  /\ response.agentId = expectedAgentId
  /\ VerifyMessage(response.signature.over, response.agentId, response.signature)
  /\ Timely(response, now)

VerifyUntimed(response, challenge, expectedAgentId, now, supportedVersions) ==
  AnswersChallenge(response, challenge) /\ response.agentId = expectedAgentId

(* The audit head is bound by the signature and then compared to no effect:  *)
(* both outcomes of the last test of the code accept.                        *)
VerifyChallengeResponse(response, challenge, expectedAgentId, now, supportedVersions) ==
  /\ response.agentId = expectedAgentId
  /\ AnswersChallenge(response, challenge)
  /\ Supported(response, supportedVersions)
  /\ Timely(response, now)
=============================================================================
