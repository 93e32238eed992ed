------------------------------ MODULE MCCache ------------------------------
(* A small instance of Cache for TLC: an agent's disclosure, its re-issue     *)
(* dated ahead of the verifier's clock, and another agent's that the policy    *)
(* refuses.                                                                    *)
EXTENDS Cache

CONSTANTS k1, k2

MCClaims(custody) ==
  [enforced |-> TRUE, hardConstraints |-> {}, redTeam |-> {}, custody |-> custody,
   level |-> "none", totalDecisions |-> 1, anchored |-> TRUE, model |-> {},
   provenance |-> {}, operatorId |-> "op"]

MCPolicy ==
  [requireValidSignature |-> TRUE, requireFresh |-> TRUE,
   requireEnforcedConstitution |-> TRUE, requiredHardConstraints |-> {},
   requireRedTeam |-> FALSE, minRedTeamGrade |-> {}, maxRedTeamHardFails |-> 0,
   requireNonCustodial |-> TRUE, minAttestationLevel |-> {},
   requireDeploymentHistory |-> FALSE, requireAuditAnchor |-> FALSE,
   requireModelFingerprint |-> FALSE, allowedModelDigests |-> {},
   requireProvenanceFor |-> {}, disreputable |-> {}]

Signed(key, nonce, from, until, custody) ==
  SignDisclosure("v1",
    [disclosureId |-> <<"disc", nonce>>, agentId |-> key, nonce |-> nonce,
     issuedAt |-> from, validUntil |-> until, version |-> 1, claims |-> MCClaims(custody)],
    key, <<>>)

MCDocument ==
  {Signed(k1, "n1", 0, 1, "non_custodial"), Signed(k1, "n2", 1, 3, "non_custodial"),
   Signed(k2, "n1", 0, 2, "custodial")}
=============================================================================
