----------------------------- MODULE Enforcement -----------------------------
(***************************************************************************)
(* Proof of enforcement (enforcement.ts): an agent discloses the hash of the *)
(* policy its gate enforces, the gate decides payment intents and attests to *)
(* a sample of them, and a verifier checks the attestation against the       *)
(* disclosure, replaying the sample under the policy it holds.               *)
(*                                                                           *)
(* A hash is ideal: the normalised policy stands for it.  The gate and its   *)
(* replay are not in src/: a payment goes through when an active mandate     *)
(* covers it and no deny rule names it.                                      *)
(***************************************************************************)
EXTENDS Integers, Sequences, FiniteSets

CONSTANTS
  GatePolicy,     \* the policies the gate may enforce, as the operator writes them
  Intent,         \* payment intents
  MaxDecisions    \* bound of the model on the decisions

(* An id is a number: its order is that of the strings of the code. *)
ASSUME EnforcementAssumption ==
  \A p \in GatePolicy :
    p.mandates \in Seq([id : Int, cap : Int, status : STRING, grantedAt : Int])

VARIABLES
  gate,         \* the policy the gate enforces; "of" keeps it beside its hash
  binding,      \* what the disclosure says of it: its extension and its evidence string
  decisions,    \* the gate's decisions, in order
  attestation,  \* {} or the last attestation sent
  verified      \* {} or the answer verifyEnforcement just gave

enforcement == <<gate, binding, decisions, attestation, verified>>

(* The stable sort by id: i comes before j. *)
Precedes(mandates, i, j) ==
  mandates[i].id < mandates[j].id \/ (mandates[i].id = mandates[j].id /\ i < j)

Place(mandates, i) == Cardinality({j \in DOMAIN mandates : Precedes(mandates, j, i)}) + 1

SortById(mandates) ==
  [k \in DOMAIN mandates |-> mandates[CHOOSE i \in DOMAIN mandates : Place(mandates, i) = k]]

(* Slips: the mandates stay in the order they were written; a status is volatile. *)
NormalizeInPlace(policy) ==
  [mandates |-> [i \in DOMAIN policy.mandates |->
     [id |-> policy.mandates[i].id, cap |-> policy.mandates[i].cap,
      status |-> policy.mandates[i].status]],
   denyRuleIds |-> policy.denyRuleIds]

NormalizeWithoutStatus(policy) ==
  LET sorted == SortById(policy.mandates) IN
  [mandates |-> [i \in DOMAIN sorted |-> [id |-> sorted[i].id, cap |-> sorted[i].cap]],
   denyRuleIds |-> policy.denyRuleIds]

(* Mandates are sorted by id and reduced to the fields that govern: grantedAt does *)
(* not.  The deny rules are sorted too: what a sorted array says is how often each  *)
(* rule is in it, so a bag stands for it, and a rule written twice hashes otherwise  *)
(* than once.                                                                        *)
NormalizePolicy(policy) ==
  LET sorted == SortById(policy.mandates) IN
  [mandates |-> [i \in DOMAIN sorted |->
     [id |-> sorted[i].id, cap |-> sorted[i].cap, status |-> sorted[i].status]],
   denyRuleIds |-> policy.denyRuleIds]

ComputePolicyHash(policy) == NormalizePolicy(policy)

(* The extension when it is well formed, else the evidence string's. *)
DisclosedPolicyHash(d) ==
  IF d.extension = "policyHash" \/ d.evidence = "poe" THEN {d.hash} ELSE {}

GateDecision(policy, intent) ==
  /\ \E i \in DOMAIN policy.mandates :
       policy.mandates[i].status = "active" /\ intent.amount <= policy.mandates[i].cap
  /\ intent.rule \notin DOMAIN policy.denyRuleIds

Replay(record, policy) == record.verdict = GateDecision(policy, record.intent)

(* opts: the policy to replay under, or none. *)
VerifyEnforcement(d, proof, opts) ==
  LET bound == proof.policyHash \in DisclosedPolicyHash(d)
      fresh == proof.auditHead > 0
      replayed == IF opts = {} THEN "skipped"
                  ELSE IF \A r \in proof.recentDecisions, p \in opts : Replay(r, p)
                       THEN "passed" ELSE "FAILED"
  IN  [ok |-> bound /\ fresh /\ replayed # "FAILED", bound |-> bound, replayed |-> replayed]

---------------------------------------------------------------------------
EnforcementInit ==
  /\ gate \in GatePolicy
  /\ binding = {} /\ decisions = <<>> /\ attestation = {} /\ verified = {}

(* The operator edits the policy, or writes the same one down in another order. *)
ChangePolicy ==
  /\ gate' \in GatePolicy
  /\ verified' = {}
  /\ UNCHANGED <<binding, decisions, attestation>>

DiscloseBinding ==
  /\ \E x \in {"policyHash", "malformed"}, ev \in {"poe", "absent"} :
       binding' = {[hash |-> ComputePolicyHash(gate), of |-> gate, extension |-> x, evidence |-> ev]}
  /\ verified' = {}
  /\ UNCHANGED <<gate, decisions, attestation>>

(* A gate that does not enforce what it says decides by another policy. *)
Decide ==
  /\ Len(decisions) < MaxDecisions
  /\ \E intent \in Intent, enforced \in GatePolicy :
       decisions' = Append(decisions,
         [intent |-> intent, verdict |-> GateDecision(enforced, intent)])
  /\ verified' = {}
  /\ UNCHANGED <<gate, binding, attestation>>

Attest ==
  /\ \E n \in 0..Len(decisions) :
       attestation' =
         {[policyHash |-> ComputePolicyHash(gate), of |-> gate, auditHead |-> Len(decisions),
           recentDecisions |-> {decisions[i] : i \in (n + 1)..Len(decisions)}]}
  /\ verified' = {}
  /\ UNCHANGED <<gate, binding, decisions>>

VerifyPoE ==
  /\ verified = {}
  /\ \E d \in binding, a \in attestation, opts \in {{}} \cup {{p} : p \in GatePolicy} :
       verified' = {[disclosure |-> d, attestation |-> a, opts |-> opts,
                     result |-> VerifyEnforcement(d, a, opts)]}
  /\ UNCHANGED <<gate, binding, decisions, attestation>>

EnforcementNext == ChangePolicy \/ DiscloseBinding \/ Decide \/ Attest \/ VerifyPoE

---------------------------------------------------------------------------
(* What a policy says, in whatever order, a deny rule as often as it is written. *)
Governs(policy) ==
  [mandates |-> {[id |-> m.id, cap |-> m.cap, status |-> m.status] :
                   m \in {policy.mandates[i] : i \in DOMAIN policy.mandates}},
   denyRuleIds |-> policy.denyRuleIds]

(* A replay that passed under a policy with the disclosed hash shows enforcement: *)
(* every sampled decision is the one the policy gives that was disclosed, though   *)
(* the operator has edited it since and wrote it down differently.                 *)
(* verifyEnforcement does not compare the policy with the hash: that much is the   *)
(* caller's (enforcement.ts:82-120, 211-256).                                      *)
ReplayShowsEnforcement ==
  \A v \in verified : v.result.ok =>
    \A p \in v.opts : ComputePolicyHash(p) = v.disclosure.hash =>
      \A r \in v.attestation.recentDecisions : Replay(r, v.disclosure.of)

(* Each mandate has an id of its own: two of one id keep the order they were       *)
(* written in, which then tells.                                                   *)
HasOwnIds(policy) ==
  \A i, j \in DOMAIN policy.mandates : policy.mandates[i].id = policy.mandates[j].id => i = j

(* A gate that enforces what was disclosed passes: the order of its mandates, and  *)
(* which of the two places of the disclosure holds the hash, make no difference    *)
(* (enforcement.ts:82-162).                                                        *)
HonestGatePasses ==
  \A v \in verified :
    /\ Governs(v.attestation.of) = Governs(v.disclosure.of)
    /\ HasOwnIds(v.attestation.of) /\ HasOwnIds(v.disclosure.of)
    /\ v.disclosure.extension = "policyHash" \/ v.disclosure.evidence = "poe"
    /\ v.attestation.auditHead > 0
    /\ \A r \in v.attestation.recentDecisions, p \in v.opts : Replay(r, p)
    => v.result.ok
=============================================================================
