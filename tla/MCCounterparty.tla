--------------------------- MODULE MCCounterparty ---------------------------
(* Small instances of Counterparty for TLC. *)
EXTENDS Counterparty, TLC

CONSTANTS a1, s1, s2, k1, k2

(* A disclosure like the reference agent's, and a policy it meets. *)
MCClaims ==
  [enforced |-> TRUE, hardConstraints |-> {"no-wire"}, redTeam |-> {},
   custody |-> "non_custodial", level |-> "none", totalDecisions |-> 7,
   anchored |-> TRUE, model |-> {}, provenance |-> {}, operatorId |-> "op"]

MCPayPolicy ==
  [requireValidSignature |-> TRUE, requireFresh |-> TRUE,
   requireEnforcedConstitution |-> TRUE, requiredHardConstraints |-> {"no-wire"},
   requireRedTeam |-> FALSE, minRedTeamGrade |-> {}, maxRedTeamHardFails |-> 0,
   requireNonCustodial |-> TRUE, minAttestationLevel |-> {},
   requireDeploymentHistory |-> FALSE, requireAuditAnchor |-> TRUE,
   requireModelFingerprint |-> FALSE, allowedModelDigests |-> {},
   requireProvenanceFor |-> {}, disreputable |-> {}]

(* One payee, called by every session, whose clock is ahead of the payer's. *)
OnePayee == [s \in Session |-> a1]
Ahead == [a \in Agent |-> 1]
Release(form, version) == [form |-> form, version |-> version, claims |-> MCClaims]

(* It makes a new key at each boot; or it keeps its key and may come back as a *)
(* release that signs the next version of the schema.                          *)
NewKeys == [a \in Agent |-> {}]
SameKey == [a \in Agent |-> {k1}]
Plain == [a \in Agent |-> {Release("v1", 1)}]
Upgraded == [a \in Agent |-> {Release("jws", 1), Release("jws", 2), Release("v1", 2)}]

Symmetric == {p @@ q : p \in Permutations(Key), q \in Permutations(Session)}
=============================================================================
