---------------------------- MODULE Attestation ----------------------------
(***************************************************************************)
(* Keys, signatures, the binding of an agentId to the key that signed, and *)
(* freshness (attestation.ts, keys.ts, the envelopes of schema.ts).        *)
(*                                                                         *)
(* A key pair is named by its public key.  A signature is ideal: the pair  *)
(* of the signing key and the message, which nobody but a SignMessage of   *)
(* that key makes.  canonicalize is injective on the documents that are    *)
(* signed, so the document stands for its canonical bytes.  An ISO-8601    *)
(* timestamp is a natural number.                                          *)
(***************************************************************************)
EXTENDS Integers, Sequences, FiniteSets

CONSTANT MaxRotationChain   \* MAX_ROTATION_CHAIN, 32 in the code

ASSUME MaxRotationChainAssumption == MaxRotationChain \in Nat

SignMessage(message, key) == [by |-> key, over |-> message]

VerifyMessage(message, key, signature) == signature = SignMessage(message, key)

(* The did:key form of a public key: another name of the same key. *)
AgentIdToDidKey(key) == [did |-> key]

---------------------------------------------------------------------------
(* Key rotation: the old key signs the move to the new one. *)

RotationStatementBody(from, to, at) ==
  [type |-> "rotation", from |-> from, to |-> to, rotatedAt |-> at]

RotateKey(oldKey, newKey, at) ==
  [from |-> oldKey, to |-> newKey, rotatedAt |-> at,
   signature |-> SignMessage(RotationStatementBody(oldKey, newKey, at), oldKey)]

VerifyRotation(s) ==
  VerifyMessage(RotationStatementBody(s.from, s.to, s.rotatedAt), s.from, s.signature)

(* The keys the verifier's cursor has stood on before hop i, agentId first. *)
SeenBefore(agentId, chain, i) == {agentId} \cup {chain[j].to : j \in 1..(i - 1)}

VerifyRotationChain(agentId, signingKey, chain) ==
  /\ Len(chain) \in 1..MaxRotationChain
  /\ \A i \in 1..Len(chain) :
       /\ chain[i].from = IF i = 1 THEN agentId ELSE chain[i - 1].to
       /\ VerifyRotation(chain[i])
       /\ chain[i].to \notin SeenBefore(agentId, chain, i)
  /\ chain[Len(chain)].to = signingKey

VerifyKeyBinding(agentId, signingKey, chain) ==
  \/ agentId = signingKey
  \/ agentId = AgentIdToDidKey(signingKey)
  \/ chain # <<>> /\ VerifyRotationChain(agentId, signingKey, chain)

---------------------------------------------------------------------------
(* The two envelopes.  The flattened JWS signs its header with the payload; *)
(* the rotation chain rides along unsigned in both.                         *)

EnvelopeForm == {"v1", "jws"}

SigningInput(form, disclosure) ==
  IF form = "jws" THEN [alg |-> "EdDSA", payload |-> disclosure] ELSE disclosure

SignDisclosure(form, disclosure, key, chain) ==
  [form |-> form, disclosure |-> disclosure, publicKey |-> key,
   signature |-> SignMessage(SigningInput(form, disclosure), key),
   rotationChain |-> chain]

VerifyAnyDisclosureSignature(signed) ==
  /\ VerifyMessage(SigningInput(signed.form, signed.disclosure),
                   signed.publicKey, signed.signature)
  /\ VerifyKeyBinding(signed.disclosure.agentId, signed.publicKey, signed.rotationChain)

IsFresh(disclosure, now) ==
  disclosure.issuedAt <= now /\ now <= disclosure.validUntil
============================================================================
