------------------------------ MODULE MCMutual ------------------------------
(* One exchange between two agents that keep their keys, for TLC. *)
EXTENDS Mutual, TLC

CONSTANTS a1, a2, s1, s2, k1, k2, x1

MCClaims ==
  [enforced |-> TRUE, hardConstraints |-> {}, redTeam |-> {},
   custody |-> "non_custodial", level |-> "none", totalDecisions |-> 1,
   anchored |-> TRUE, model |-> {}, provenance |-> {}, operatorId |-> "op"]

MCPolicy ==
  [requireValidSignature |-> TRUE, requireFresh |-> TRUE,
   requireEnforcedConstitution |-> TRUE, requiredHardConstraints |-> {},
   requireRedTeam |-> FALSE, minRedTeamGrade |-> {}, maxRedTeamHardFails |-> 0,
   requireNonCustodial |-> FALSE, minAttestationLevel |-> {},
   requireDeploymentHistory |-> FALSE, requireAuditAnchor |-> FALSE,
   requireModelFingerprint |-> FALSE, allowedModelDigests |-> {},
   requireProvenanceFor |-> {}, disreputable |-> {}]

MCPayee == s1 :> a1 @@ s2 :> a2
MCOwnKey == a1 :> {k1} @@ a2 :> {k2}
MCLeg == x1 :> [ours |-> s1, theirs |-> s2]

(* The one agent is a good one, the other may come back as a release that throws. *)
Release(form, version) == [form |-> form, version |-> version, claims |-> MCClaims]
MCProfile == a1 :> {Release("v1", 1)} @@ a2 :> {Release("jws", 1), Release("jws", 2)}

NoDrift == [a \in Agent |-> 0]
=============================================================================
