--------------------------- MODULE OperatorLevels ---------------------------
(***************************************************************************)
(* The humanity and operator attestations (worldid.ts, self.ts,              *)
(* humanpassport.ts, worldagent.ts), their verifications over the provider   *)
(* the caller injects (referenceVerifiers.ts) and the level each one earns   *)
(* in a disclosure's operator.attestation.                                   *)
(*                                                                           *)
(* A provider is what its answer says: the attestations its portal, backend  *)
(* or contract confirms now, and the score it gives an address now.  An      *)
(* optional number is a set of at most one.                                  *)
(***************************************************************************)
EXTENDS Integers, FiniteSets

CONSTANTS
  LevelCall,       \* verifications in flight
  Credential,      \* the attestations presented
  LiveScore,       \* what the scorer may answer: [score, passing, threshold]
  HumanThreshold,  \* HUMAN_THRESHOLD
  MaxProviderWrites \* bound of the model on the providers' changes

ASSUME LevelsAssumption ==
  /\ HumanThreshold \in Nat /\ \A s \in LiveScore : s.score \in Nat
  /\ \A att \in Credential : att.scheme \in {"WorldID", "Self", "HumanPassport", "WorldAgent"}

VARIABLES
  registered,  \* credentials their provider confirms now
  score,       \* the scorer's answer now
  changed,     \* changes at the providers so far
  asked,       \* asked[c]: {} or [att, injected]: the call and whether it has a provider
  earned,      \* earned[c]: {} or the level its result was mapped to
  stood        \* history: what the provider said of the credential while c ran

levels == <<registered, score, changed, asked, earned, stood>>

ReachesThreshold(s, threshold) == \E x \in s : x >= threshold

ThresholdOf(att) == IF att.threshold = {} THEN HumanThreshold ELSE CHOOSE x \in att.threshold : TRUE

(* The answer of an injected provider: the portal, the backend (or, of a reference *)
(* to the chain, the contract that is read), the book, the scorer.  What it makes    *)
(* of sanctions is its own affair.                                                   *)
WorldIdPortal(att) == att \in registered

SelfBackend(att) == att \in registered

AgentBook(att) == att \in registered

PassportScorer(att, live) ==
  IF live.passing # {} THEN TRUE \in live.passing
  ELSE live.score >= (IF live.threshold # {} THEN CHOOSE x \in live.threshold : TRUE
                      ELSE ThresholdOf(att))

---------------------------------------------------------------------------
(* Whether the attestation verifies; whatever is not well formed does not. *)
VerifyWorldId(att, injected) == injected /\ WorldIdPortal(att)

(* A proof result is checked by its own claims, sanctions included, a reference to *)
(* the chain only by a verifier: it carries no claim.                               *)
VerifySelfAttestation(att, injected) ==
  /\ IF att.onchain THEN injected ELSE att.claimsValid /\ ~att.sanctioned
  /\ injected => SelfBackend(att)

VerifyPassportAttestation(att, injected) ==
  IF injected THEN PassportScorer(att, score)
  ELSE IF att.passing # {} THEN TRUE \in att.passing
  ELSE ReachesThreshold(att.score, ThresholdOf(att))

(* A slip: the book's word makes up for the signature. *)
VerifyWorldAgentByBook(att, injected) ==
  [valid |-> att.signer = att.address \/ (injected /\ AgentBook(att)),
   humanBacked |-> injected /\ AgentBook(att)]

(* The signature first, the book only for the wallet that signed. *)
VerifyWorldAgent(att, injected) ==
  [valid |-> att.signer = att.address,
   humanBacked |-> att.signer = att.address /\ injected /\ AgentBook(att)]

LevelFor(att, injected) ==
  CASE att.scheme = "WorldID" ->
         IF ~VerifyWorldId(att, injected) THEN "none"
         ELSE IF att.verificationLevel = "orb" THEN "registry_attested" ELSE "signed"
    [] att.scheme = "Self" ->
         IF ~VerifySelfAttestation(att, injected) THEN "none"
         ELSE IF att.onchain THEN "registry_attested" ELSE "signed"
    [] att.scheme = "HumanPassport" ->
         IF VerifyPassportAttestation(att, injected) THEN "signed" ELSE "none"
    [] att.scheme = "WorldAgent" ->
         LET result == VerifyWorldAgent(att, injected) IN
         IF ~result.valid THEN "none"
         ELSE IF result.humanBacked THEN "registry_attested" ELSE "signed"

---------------------------------------------------------------------------
LevelsInit ==
  /\ registered = {} /\ score \in LiveScore /\ changed = 0
  /\ asked = [c \in LevelCall |-> {}]
  /\ earned = [c \in LevelCall |-> {}]
  /\ stood = [c \in LevelCall |-> {}]

Watching == stood' = [c \in LevelCall |->
  IF earned[c] # {} THEN stood[c]
  ELSE stood[c] \cup {[confirmed |-> q.att \in registered', score |-> score'] : q \in asked'[c]}]

ProviderChanges ==
  /\ changed < MaxProviderWrites
  /\ changed' = changed + 1
  /\ \/ /\ \E att \in Credential : registered' \in {registered \cup {att}, registered \ {att}}
        /\ UNCHANGED score
     \/ /\ score' \in LiveScore
        /\ UNCHANGED registered
  /\ UNCHANGED <<asked, earned>>
  /\ Watching

Present(c) ==
  /\ asked[c] = {}
  /\ \E att \in Credential, injected \in BOOLEAN :
       asked' = [asked EXCEPT ![c] = {[att |-> att, injected |-> injected]}]
  /\ UNCHANGED <<registered, score, changed, earned>>
  /\ Watching

(* The provider answers, the result is mapped to a level at once. *)
ProviderAnswers(c) ==
  /\ earned[c] = {}
  /\ \E q \in asked[c] : earned' = [earned EXCEPT ![c] = {LevelFor(q.att, q.injected)}]
  /\ UNCHANGED <<registered, score, changed, asked>>
  /\ Watching

(* The portal replies with an error: not valid, a score of 0. *)
ProviderRefuses(c) ==
  /\ earned[c] = {}
  /\ \E q \in asked[c] : q.injected /\ q.att.scheme \in {"WorldID", "HumanPassport"}
  /\ earned' = [earned EXCEPT ![c] = {"none"}]
  /\ UNCHANGED <<registered, score, changed, asked>>
  /\ Watching

(* The provider, or the package it is made of, cannot be reached. *)
ProviderThrows(c) ==
  /\ earned[c] = {}
  /\ \E q \in asked[c] : q.injected
  /\ earned' = [earned EXCEPT ![c] = {"thrown"}]
  /\ UNCHANGED <<registered, score, changed, asked>>
  /\ Watching

LevelsNext ==
  \/ ProviderChanges
  \/ \E c \in LevelCall : Present(c) \/ ProviderAnswers(c) \/ ProviderRefuses(c) \/ ProviderThrows(c)

---------------------------------------------------------------------------
ConfirmedDuring(c) == \E s \in stood[c] : s.confirmed

(* A level is earned.  By all but a carried passport score or proof result, only    *)
(* on a provider's word given while the call ran, for the very credential; where     *)
(* there is a provider, never against its word.  On top of that a wallet must have   *)
(* signed, a World ID be of an orb to be registry_attested, a proof result be valid   *)
(* and of no one it calls sanctioned.  A reference to the chain is registry_attested  *)
(* by its contract alone: it says nothing of sanctions and nothing else is asked      *)
(* (worldid.ts:114-162, self.ts:104-211, humanpassport.ts:109-158,                    *)
(* worldagent.ts:127-204).                                                            *)
LevelWasEarned ==
  \A c \in LevelCall : \A q \in asked[c], level \in earned[c] :
    level \in {"registry_attested", "signed"} =>
      CASE q.att.scheme = "WorldID" ->
             /\ q.injected /\ ConfirmedDuring(c)
             /\ level = "registry_attested" => q.att.verificationLevel = "orb"
        [] q.att.scheme = "Self" ->
             /\ q.injected => ConfirmedDuring(c)
             /\ level = "registry_attested" => q.att.onchain /\ q.injected
             /\ level = "signed" => ~q.att.onchain /\ q.att.claimsValid /\ ~q.att.sanctioned
        [] q.att.scheme = "HumanPassport" ->
             /\ level = "signed"
             /\ q.injected => \E s \in stood[c] : PassportScorer(q.att, s.score)
        [] q.att.scheme = "WorldAgent" ->
             /\ q.att.signer = q.att.address
             /\ level = "registry_attested" => q.injected /\ ConfirmedDuring(c)
=============================================================================
