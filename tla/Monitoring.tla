----------------------------- MODULE Monitoring -----------------------------
(***************************************************************************)
(* The disclosure monitor (monitor.ts): an agent publishes one posture after *)
(* another, and a counterparty that once cleared it compares the snapshots   *)
(* it fetches, two by two.                                                   *)
(***************************************************************************)
EXTENDS Policy

CONSTANTS
  Posture,      \* the postures the agent may publish: claims, with its prompt
  HeldPolicy    \* the policies it may once have cleared

(* The enumerations of the schema; a policy that states a grade requires a red team. *)
ASSUME MonitoringAssumption ==
  /\ \A p \in Posture :
       /\ p.enforced \in BOOLEAN
       /\ p.custody \in {"custodial", "non_custodial"}
       /\ p.level \in DOMAIN AttestationRank
       /\ p.redTeam = {} \/ \E r \in p.redTeam : p.redTeam = {r} /\ r.grade \in DOMAIN GradeRank
  /\ \A policy \in HeldPolicy :
       /\ policy.minRedTeamGrade \subseteq DOMAIN GradeRank
       /\ policy.minAttestationLevel \subseteq DOMAIN AttestationRank
       /\ policy.minRedTeamGrade # {} => policy.requireRedTeam

VARIABLES
  posture,      \* what the agent serves
  snapshots,    \* {} or the first and the last snapshot of the monitor
  alarmed       \* history: a downgrade was reported, its reasons among the changes

monitoring == <<posture, snapshots, alarmed>>

(* The lower the better; no red team is the weakest. *)
MonitorGradeRank(redTeam) ==
  IF redTeam = {} THEN 5 ELSE CHOOSE n \in 0..4 : \E r \in redTeam : n = 4 - GradeRank[r.grade]

DiffDisclosures(prev, next) ==
  LET differs ==
    [enforced        |-> prev.enforced # next.enforced,
     redTeam         |-> MonitorGradeRank(prev.redTeam) # MonitorGradeRank(next.redTeam),
     custody         |-> prev.custody # next.custody,
     hardConstraints |-> prev.hardConstraints # next.hardConstraints,
     level           |-> prev.level # next.level,
     systemPrompt    |-> prev.systemPrompt # next.systemPrompt]
  IN  {f \in DOMAIN differs : differs[f]}

(* A slip: fewer constraints are a downgrade, other ones are not. *)
DetectShrinking(prev, next) ==
  LET fell ==
    [enforced        |-> prev.enforced /\ ~next.enforced,
     redTeam         |-> MonitorGradeRank(next.redTeam) > MonitorGradeRank(prev.redTeam),
     custody         |-> prev.custody = "non_custodial" /\ next.custody = "custodial",
     hardConstraints |-> Cardinality(next.hardConstraints) < Cardinality(prev.hardConstraints),
     level           |-> AttestationRank[next.level] < AttestationRank[prev.level]]
  IN  {f \in DOMAIN fell : fell[f]}

DetectDowngrade(prev, next) ==
  LET fell ==
    [enforced        |-> prev.enforced /\ ~next.enforced,
     redTeam         |-> MonitorGradeRank(next.redTeam) > MonitorGradeRank(prev.redTeam),
     custody         |-> prev.custody = "non_custodial" /\ next.custody = "custodial",
     hardConstraints |-> prev.hardConstraints \ next.hardConstraints # {},
     level           |-> AttestationRank[next.level] < AttestationRank[prev.level]]
  IN  {f \in DOMAIN fell : fell[f]}

---------------------------------------------------------------------------
MonitoringInit == posture \in Posture /\ snapshots = {} /\ alarmed = FALSE

Publish ==
  /\ posture' \in Posture
  /\ UNCHANGED <<snapshots, alarmed>>

Verify ==
  /\ snapshots = {}
  /\ snapshots' = {[first |-> posture, last |-> posture]}
  /\ UNCHANGED <<posture, alarmed>>

Poll ==
  /\ \E s \in snapshots :
       /\ snapshots' = {[s EXCEPT !.last = posture]}
       /\ LET reasons == DetectDowngrade(s.last, posture) IN
          alarmed' = (alarmed \/ (/\ reasons # {}
                                  /\ reasons \subseteq DiffDisclosures(s.last, posture)))
  /\ UNCHANGED posture

MonitoringNext == Publish \/ Verify \/ Poll

---------------------------------------------------------------------------
(* The predicates of a policy that read what the monitor compares. *)
MonitoredChecks ==
  {"enforcedConstitution", "requiredHardConstraints", "redTeamPresent", "redTeamGrade",
   "nonCustodial", "attestationLevel"}

Clears(claims, policy) ==
  \A check \in ChecksRun(claims, policy) \cap MonitoredChecks :
    ClaimPasses(check, claims, policy)

(* "A counterparty that verified once should not silently inherit a weaker        *)
(* posture later" (monitor.ts:2-3): when the first snapshot cleared a policy on the *)
(* fields the monitor compares and the last does not, an alarm was raised on the    *)
(* way, however small the steps, and the fall is among the changes reported. The   *)
(* policies that state a grade require a red team: without that an absent one       *)
(* clears them and the worst one found later is a rise (monitor.ts:22).            *)
NoSilentDowngrade ==
  \A s \in snapshots, policy \in HeldPolicy :
    Clears(s.first, policy) /\ ~Clears(s.last, policy) => alarmed
=============================================================================
