------------------------------- MODULE Policy -------------------------------
(***************************************************************************)
(* evaluateDisclosure (verify.ts): a verifier's policy applied to a signed *)
(* disclosure.  An optional field of a document or a policy is a set of at *)
(* most one element, an optional list the set of its members, an absent    *)
(* flag its default.  The clock and the oracles the caller injects are     *)
(* arguments: now; isRevoked, the ids the revocation oracle knows ({} when *)
(* none is given); disreputable, the operators whose score is below        *)
(* minOperatorReputation ({} when either is absent) stays in the policy.   *)
(***************************************************************************)
EXTENDS Attestation

GradeRank == [A |-> 4, B |-> 3, C |-> 2, D |-> 1, F |-> 0]

AttestationRank == [none |-> 0, signed |-> 1, registry_attested |-> 2]

(* The predicates the policy asks for: the keys of the verdict's "checks".  *)
(* The hard-fail limit applies to every disclosure that carries a red-team  *)
(* attestation, whether or not the policy mentions one.                     *)
ChecksRun(claims, policy) ==
  LET asked == [
    signature               |-> policy.requireValidSignature,
    freshness               |-> policy.requireFresh,
    enforcedConstitution    |-> policy.requireEnforcedConstitution,
    requiredHardConstraints |-> policy.requiredHardConstraints # {},
    redTeamPresent          |-> policy.requireRedTeam /\ claims.redTeam = {},
    redTeamGrade            |-> policy.minRedTeamGrade # {} /\ claims.redTeam # {},
    redTeamHardFails        |-> claims.redTeam # {},
    nonCustodial            |-> policy.requireNonCustodial,
    attestationLevel        |-> policy.minAttestationLevel # {},
    deploymentHistory       |-> policy.requireDeploymentHistory,
    auditAnchor             |-> policy.requireAuditAnchor,
    modelFingerprint        |-> policy.requireModelFingerprint,
    modelDigest             |-> policy.allowedModelDigests # {},
    provenance              |-> policy.requireProvenanceFor # {},
    revocation              |-> TRUE,
    operatorReputation      |-> policy.disreputable # {}]
  IN {check \in DOMAIN asked : asked[check]}

(* The checks that read nothing but the document's claims. *)
ClaimPasses(check, claims, policy) ==
  CASE check = "enforcedConstitution" -> claims.enforced
    [] check = "requiredHardConstraints" ->
         policy.requiredHardConstraints \subseteq claims.hardConstraints
    [] check = "redTeamPresent" -> FALSE
    [] check = "redTeamGrade" ->
         \A r \in claims.redTeam, min \in policy.minRedTeamGrade :
           GradeRank[r.grade] >= GradeRank[min]
    [] check = "redTeamHardFails" ->
         \A r \in claims.redTeam : r.hardFails <= policy.maxRedTeamHardFails
    [] check = "nonCustodial" -> claims.custody = "non_custodial"
    [] check = "attestationLevel" ->
         \A min \in policy.minAttestationLevel :
           AttestationRank[claims.level] >= AttestationRank[min]
    [] check = "deploymentHistory" -> claims.totalDecisions > 0
    [] check = "auditAnchor" -> claims.anchored
    [] check = "modelFingerprint" -> claims.model # {}
    [] check = "modelDigest" -> claims.model \cap policy.allowedModelDigests # {}
    [] check = "provenance" -> policy.requireProvenanceFor \subseteq claims.provenance
    [] check = "operatorReputation" -> claims.operatorId \notin policy.disreputable

(* The checks that read the envelope, the clock or the oracle. *)
EnvelopeCheck == {"signature", "freshness", "revocation"}

CheckPasses(check, signed, policy, now, isRevoked) ==
  LET d == signed.disclosure IN
  /\ check = "signature" => VerifyAnyDisclosureSignature(signed)
  /\ check = "freshness" => IsFresh(d, now)
  /\ check = "revocation" => {d.disclosureId, d.agentId} \cap isRevoked = {}
  /\ check \notin EnvelopeCheck => ClaimPasses(check, d.claims, policy)

(* A slip: the oracle is asked for the document but not for its agent. *)
EvaluateByDocumentOnly(signed, policy, now, isRevoked) ==
  {check \in ChecksRun(signed.disclosure.claims, policy) :
     IF check = "revocation"
     THEN signed.disclosure.disclosureId \in isRevoked
     ELSE ~CheckPasses(check, signed, policy, now, isRevoked)}

(* The checks that fail; the decision is "transact" iff there is none. *)
EvaluateDisclosure(signed, policy, now, isRevoked) ==
  {check \in ChecksRun(signed.disclosure.claims, policy) :
     ~CheckPasses(check, signed, policy, now, isRevoked)}
=============================================================================
