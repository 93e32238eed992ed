--------------------- MODULE SelectiveDisclosureProofs ---------------------
(***************************************************************************)
(* What an agent shows of itself without showing all.  Redaction and          *)
(* negotiation, for any documents and policies: what a sufficient view         *)
(* reveals was committed to, and the predicates whose fields the policy asks    *)
(* for come out on the view as on the whole document.  Range proofs, for any     *)
(* number of bits and any values in a group large enough for them: behind a      *)
(* bound taken for proved is a committed value that keeps it, and what is true    *)
(* and in reach is proved.                                                       *)
(***************************************************************************)
EXTENDS Documents, NumberLemmas


(* A holder commits to exactly the fields it retains. *)
HolderHolds(h) ==
  /\ DOMAIN h.commitments = DOMAIN h.fields
  /\ \A f \in DOMAIN h.fields : h.commitments[f] = Commit(h.fields[f], h.salts[f])

ViewHolds(v) ==
  /\ v = [meta |-> v.meta, commitments |-> v.commitments, publicKey |-> v.publicKey,
          signature |-> v.signature, revealed |-> v.revealed]
  /\ Source(v) # {}

OpeningHolds(o) ==
  /\ o.ok = VerifyEquals(o.proof)
  /\ \E h \in holders : \E f \in DOMAIN h.fields : o.proof.commitment = h.commitments[f]

NegotiationInv ==
  /\ \A h \in holders : HolderHolds(h)
  /\ \A v \in views : ViewHolds(v)
  /\ \A j \in judged : Source(j.view) # {} /\ j.ok = SatisfiesPolicy(j.view, j.policy)
  /\ \A o \in opened : OpeningHolds(o)

LEMMA PrepareRedactableHolds ==
  ASSUME NEW d, NEW key, NEW n
  PROVE  HolderHolds(PrepareRedactable(d, key, n))
<1> DEFINE present == DOMAIN d.fields \cap RedactableFields
           salts == [f \in present |-> <<n, f>>]
           commitments == [f \in present |-> Commit(d.fields[f], salts[f])]
           fields == [f \in present |-> d.fields[f]]
           h == PrepareRedactable(d, key, n)
<1>1. h.commitments = commitments /\ h.fields = fields /\ h.salts = salts
  BY DEF PrepareRedactable
<1> HIDE DEF h, present, salts
<1>2. DOMAIN h.commitments = present /\ DOMAIN h.fields = present
  BY <1>1
<1>3. \A f \in present : h.commitments[f] = Commit(h.fields[f], h.salts[f])
  BY <1>1
<1>4. HolderHolds(h)
  BY <1>2, <1>3 DEF HolderHolds
<1>5. QED
  BY <1>4 DEF h

LEMMA PrepareStep == NegotiationInv /\ Prepare => NegotiationInv'
<1> SUFFICES ASSUME NegotiationInv, Prepare PROVE NegotiationInv'
  OBVIOUS
<1>1. PICK d, key, n : holders' = holders \cup {PrepareRedactable(d, key, n)}
  BY DEF Prepare
<1>2. judged' = {} /\ opened' = {} /\ views' = views
  BY DEF Prepare
<1>3. \A h \in holders' : HolderHolds(h)
  BY <1>1, PrepareRedactableHolds DEF NegotiationInv
<1>4. \A v \in views : Source(v) \subseteq Source(v)'
  BY <1>1 DEF Source
<1>5. QED
  BY <1>2, <1>3, <1>4 DEF NegotiationInv, ViewHolds

LEMMA DiscloseStep == NegotiationInv /\ Disclose => NegotiationInv'
<1> SUFFICES ASSUME NegotiationInv, Disclose PROVE NegotiationInv'
  OBVIOUS
<1>1. PICK h \in holders, policy \in AskedPolicy : views' = views \cup {DiscloseFor(h, policy)}
  BY DEF Disclose
<1>2. judged' = {} /\ opened' = {} /\ holders' = holders
  BY DEF Disclose
<1>3. ViewHolds(DiscloseFor(h, policy))
  BY DEF ViewHolds, DiscloseFor, Reveal, Source
<1>4. \A v \in views' : ViewHolds(v)
  BY <1>1, <1>3 DEF NegotiationInv
<1>5. QED
  BY <1>2, <1>4 DEF NegotiationInv, ViewHolds, Source

LEMMA JudgeStep == NegotiationInv /\ Judge => NegotiationInv'
<1> SUFFICES ASSUME NegotiationInv, Judge PROVE NegotiationInv'
  OBVIOUS
<1>1. PICK v \in views, w \in views, policy \in AskedPolicy :
        LET got == [v EXCEPT !.revealed = w.revealed] IN
        judged' = {[view |-> got, policy |-> policy, ok |-> SatisfiesPolicy(got, policy)]}
  BY DEF Judge
<1>2. UNCHANGED <<holders, views, opened>>
  BY DEF Judge
<1> DEFINE got == [v EXCEPT !.revealed = w.revealed]
<1>3. got.meta = v.meta /\ got.commitments = v.commitments
  BY DEF NegotiationInv, ViewHolds
<1>4. judged' = {[view |-> got, policy |-> policy, ok |-> SatisfiesPolicy(got, policy)]}
  BY <1>1
<1> HIDE DEF got
<1>5. Source(got) # {}
  BY <1>3 DEF NegotiationInv, ViewHolds, Source
<1>6. \A j \in judged' : Source(j.view) # {} /\ j.ok = SatisfiesPolicy(j.view, j.policy)
  BY <1>4, <1>5
<1>7. QED
  BY <1>2, <1>6 DEF NegotiationInv, ViewHolds, OpeningHolds, Source

LEMMA OpenFieldStep == NegotiationInv /\ OpenField => NegotiationInv'
<1> SUFFICES ASSUME NegotiationInv, OpenField PROVE NegotiationInv'
  OBVIOUS
<1>1. PICK h \in holders : \E f \in DOMAIN h.fields : \E asserted :
        \E proof \in ProveEquals(h, f, h.fields[f]) :
          LET got == [proof EXCEPT !.asserted = asserted] IN
          opened' = {[proof |-> got, ok |-> VerifyEquals(got)]}
  BY DEF OpenField
<1>2. PICK f \in DOMAIN h.fields : \E asserted :
        \E proof \in ProveEquals(h, f, h.fields[f]) :
          LET got == [proof EXCEPT !.asserted = asserted] IN
          opened' = {[proof |-> got, ok |-> VerifyEquals(got)]}
  BY <1>1
<1>3. PICK asserted : \E proof \in ProveEquals(h, f, h.fields[f]) :
        LET got == [proof EXCEPT !.asserted = asserted] IN
        opened' = {[proof |-> got, ok |-> VerifyEquals(got)]}
  BY <1>2
<1>4. PICK proof \in ProveEquals(h, f, h.fields[f]) :
        opened' = {[proof |-> [proof EXCEPT !.asserted = asserted],
                    ok |-> VerifyEquals([proof EXCEPT !.asserted = asserted])]}
  BY <1>3
<1> DEFINE got == [proof EXCEPT !.asserted = asserted]
<1>5. got.commitment = h.commitments[f]
  BY DEF ProveEquals
<1>6. opened' = {[proof |-> got, ok |-> VerifyEquals(got)]}
  BY <1>4
<1> HIDE DEF got
<1>7. judged' = {} /\ holders' = holders /\ views' = views
  BY DEF OpenField
<1>8. \A o \in opened' : OpeningHolds(o)
  BY <1>5, <1>6 DEF OpeningHolds
<1>9. QED
  BY <1>7, <1>8 DEF NegotiationInv, ViewHolds, OpeningHolds, Source

LEMMA NegotiationStepSound ==
  NegotiationInv /\ (NegotiationNext \/ UNCHANGED negotiation) => NegotiationInv'
<1>1. NegotiationInv /\ UNCHANGED negotiation => NegotiationInv'
  BY DEF negotiation, NegotiationInv, ViewHolds, OpeningHolds, Source
<1>2. QED
  BY <1>1, PrepareStep, DiscloseStep, JudgeStep, OpenFieldStep DEF NegotiationNext

LEMMA NegotiationInvariant == DocumentsSpec => []NegotiationInv
<1>1. DocumentsInit => NegotiationInv
  BY DEF DocumentsInit, NegotiationInit, NegotiationInv
<1>2. NegotiationInv /\ [DocumentsNext]_<<duty, Parts>> => NegotiationInv'
  BY NegotiationStepSound DEF DocumentsNext, Parts
<1>3. QED
  BY <1>1, <1>2, PTL DEF DocumentsSpec

---------------------------------------------------------------------------
(* What a view with the commitments of a holder reveals is the holder's. *)
LEMMA RevealedIsHeld ==
  ASSUME NEW h, HolderHolds(h), NEW view, view.commitments = h.commitments,
         VerifyRedacted(view), NEW f \in DOMAIN view.revealed
  PROVE  f \in DOMAIN h.fields /\ view.revealed[f].value = h.fields[f]
<1>1. f \in DOMAIN h.fields
  BY DEF VerifyRedacted, HolderHolds
<1>2. Commit(view.revealed[f].value, view.revealed[f].salt) = Commit(h.fields[f], h.salts[f])
  BY <1>1 DEF VerifyRedacted, HolderHolds
<1>3. QED
  BY <1>1, <1>2 DEF Commit

(* Whatever fields of whatever preparation are put into a view, or opened against  *)
(* a commitment, what passes is what its agent committed to.                        *)
THEOREM OnlyTheCommittedIsRevealed == DocumentsSpec => []RevealedWasCommitted
<1>1. NegotiationInv => RevealedWasCommitted
  <2> SUFFICES ASSUME NegotiationInv PROVE RevealedWasCommitted
    OBVIOUS
  <2>1. ASSUME NEW o \in opened, o.ok
        PROVE  \E h \in holders : \E f \in DOMAIN h.fields :
                 h.salts[f] = o.proof.commitment.salt /\ h.fields[f] = o.proof.asserted
    <3>1. OpeningHolds(o) /\ VerifyEquals(o.proof)
      BY <2>1 DEF NegotiationInv, OpeningHolds
    <3>2. PICK h \in holders : \E f \in DOMAIN h.fields : o.proof.commitment = h.commitments[f]
      BY <3>1 DEF OpeningHolds
    <3>3. PICK f \in DOMAIN h.fields : o.proof.commitment = h.commitments[f]
      BY <3>2
    <3>4. Commit(o.proof.value, o.proof.salt) = Commit(h.fields[f], h.salts[f])
      BY <3>1, <3>3 DEF VerifyEquals, NegotiationInv, HolderHolds
    <3>5. QED
      BY <3>1, <3>3, <3>4 DEF VerifyEquals, Commit
  <2>2. ASSUME NEW j \in judged, j.ok
        PROVE  \E h \in Source(j.view) : \A f \in DOMAIN j.view.revealed :
                 f \in DOMAIN h.fields /\ Revealed(j.view)[f] = h.fields[f]
    <3>1. PICK h : h \in Source(j.view)
      BY DEF NegotiationInv
    <3>2. VerifyRedacted(j.view)
      BY <2>2 DEF NegotiationInv, SatisfiesPolicy
    <3>3. HolderHolds(h) /\ j.view.commitments = h.commitments
      BY <3>1 DEF Source, NegotiationInv
    <3>4. QED
      BY <3>1, <3>2, <3>3, RevealedIsHeld DEF Revealed
  <2>3. QED
    BY <2>1, <2>2 DEF RevealedWasCommitted
<1>2. QED
  BY <1>1, NegotiationInvariant, PTL

---------------------------------------------------------------------------
(* What a policy asks for, check by check. *)
LEMMA ChecksAre ==
  ASSUME NEW c, NEW policy, NEW name
  PROVE  name \in ChecksRun(c, policy) <=>
    \/ name = "signature" /\ policy.requireValidSignature
    \/ name = "freshness" /\ policy.requireFresh
    \/ name = "enforcedConstitution" /\ policy.requireEnforcedConstitution
    \/ name = "requiredHardConstraints" /\ policy.requiredHardConstraints # {}
    \/ name = "redTeamPresent" /\ policy.requireRedTeam /\ c.redTeam = {}
    \/ name = "redTeamGrade" /\ policy.minRedTeamGrade # {} /\ c.redTeam # {}
    \/ name = "redTeamHardFails" /\ c.redTeam # {}
    \/ name = "nonCustodial" /\ policy.requireNonCustodial
    \/ name = "attestationLevel" /\ policy.minAttestationLevel # {}
    \/ name = "deploymentHistory" /\ policy.requireDeploymentHistory
    \/ name = "auditAnchor" /\ policy.requireAuditAnchor
    \/ name = "modelFingerprint" /\ policy.requireModelFingerprint
    \/ name = "modelDigest" /\ policy.allowedModelDigests # {}
    \/ name = "provenance" /\ policy.requireProvenanceFor # {}
    \/ name = "revocation"
    \/ name = "operatorReputation" /\ policy.disreputable # {}
<1>1. name \in ChecksRun(c, policy) =>
        name \in {"signature", "freshness", "enforcedConstitution", "requiredHardConstraints",
                  "redTeamPresent", "redTeamGrade", "redTeamHardFails", "nonCustodial",
                  "attestationLevel", "deploymentHistory", "auditAnchor", "modelFingerprint",
                  "modelDigest", "provenance", "revocation", "operatorReputation"}
  BY DEF ChecksRun
<1>2. "signature" \in ChecksRun(c, policy) <=> policy.requireValidSignature
  BY DEF ChecksRun
<1>3. "freshness" \in ChecksRun(c, policy) <=> policy.requireFresh
  BY DEF ChecksRun
<1>4. "enforcedConstitution" \in ChecksRun(c, policy) <=> policy.requireEnforcedConstitution
  BY DEF ChecksRun
<1>5. "requiredHardConstraints" \in ChecksRun(c, policy) <=> policy.requiredHardConstraints # {}
  BY DEF ChecksRun
<1>6. "redTeamPresent" \in ChecksRun(c, policy) <=> policy.requireRedTeam /\ c.redTeam = {}
  BY DEF ChecksRun
<1>7. "redTeamGrade" \in ChecksRun(c, policy) <=> policy.minRedTeamGrade # {} /\ c.redTeam # {}
  BY DEF ChecksRun
<1>8. "redTeamHardFails" \in ChecksRun(c, policy) <=> c.redTeam # {}
  BY DEF ChecksRun
<1>9. "nonCustodial" \in ChecksRun(c, policy) <=> policy.requireNonCustodial
  BY DEF ChecksRun
<1>10. "attestationLevel" \in ChecksRun(c, policy) <=> policy.minAttestationLevel # {}
  BY DEF ChecksRun
<1>11. "deploymentHistory" \in ChecksRun(c, policy) <=> policy.requireDeploymentHistory
  BY DEF ChecksRun
<1>12. "auditAnchor" \in ChecksRun(c, policy) <=> policy.requireAuditAnchor
  BY DEF ChecksRun
<1>13. "modelFingerprint" \in ChecksRun(c, policy) <=> policy.requireModelFingerprint
  BY DEF ChecksRun
<1>14. "modelDigest" \in ChecksRun(c, policy) <=> policy.allowedModelDigests # {}
  BY DEF ChecksRun
<1>15. "provenance" \in ChecksRun(c, policy) <=> policy.requireProvenanceFor # {}
  BY DEF ChecksRun
<1>16. "revocation" \in ChecksRun(c, policy) <=> TRUE
  BY DEF ChecksRun
<1>17. "operatorReputation" \in ChecksRun(c, policy) <=> policy.disreputable # {}
  BY DEF ChecksRun
<1>18. QED
  BY <1>1, <1>2, <1>3, <1>4, <1>5, <1>6, <1>7, <1>8, <1>9, <1>10, <1>11, <1>12,
     <1>13, <1>14, <1>15, <1>16, <1>17

LEMMA RefusalsAre ==
  ASSUME NEW c, NEW policy, NEW name
  PROVE  name \in Refusals(c, policy) <=>
           name \in ChecksRun(c, policy) /\ name \notin EnvelopeCheck /\ ~ClaimPasses(name, c, policy)
BY DEF Refusals

LEMMA RequiredAre ==
  ASSUME NEW policy
  PROVE  LET needed == RequiredFields(policy) IN
    /\ policy.requireEnforcedConstitution => "constitution" \in needed
    /\ policy.requiredHardConstraints # {} => "constitution" \in needed
    /\ policy.requireRedTeam => "redTeam" \in needed
    /\ policy.minRedTeamGrade # {} => "redTeam" \in needed
    /\ policy.statesHardFails => "redTeam" \in needed
    /\ policy.requireNonCustodial => "capital" \in needed
    /\ policy.minAttestationLevel # {} => "operator" \in needed
    /\ policy.requireDeploymentHistory => "history" \in needed
    /\ policy.requireModelFingerprint => "model" \in needed
    /\ policy.allowedModelDigests # {} => "model" \in needed
    /\ policy.requireProvenanceFor # {} => "provenance" \in needed
BY DEF RequiredFields

(* Of two functions that agree on the fields a policy requires, the claims that   *)
(* it reads are the same.                                                          *)
LEMMA ClaimsAgree ==
  ASSUME NEW meta, NEW shown, NEW whole, NEW needed,
         needed \subseteq DOMAIN shown,
         \A f \in DOMAIN shown : f \in DOMAIN whole /\ shown[f] = whole[f]
  PROVE  LET s == ClaimsOf(meta, shown)
             w == ClaimsOf(meta, whole)
         IN  /\ "constitution" \in needed =>
                  s.enforced = w.enforced /\ s.hardConstraints = w.hardConstraints
             /\ "redTeam" \in needed => s.redTeam = w.redTeam
             /\ "capital" \in needed => s.custody = w.custody
             /\ "operator" \in needed => s.level = w.level
             /\ "history" \in needed => s.totalDecisions = w.totalDecisions
             /\ "model" \in needed => s.model = w.model
             /\ "provenance" \in needed => s.provenance = w.provenance
             /\ s.anchored = w.anchored
BY DEF ClaimsOf

LEMMA AgreementDecides ==
  ASSUME NEW policy, NEW s, NEW w,
         LET needed == RequiredFields(policy) IN
           /\ "constitution" \in needed =>
                s.enforced = w.enforced /\ s.hardConstraints = w.hardConstraints
           /\ "redTeam" \in needed => s.redTeam = w.redTeam
           /\ "capital" \in needed => s.custody = w.custody
           /\ "operator" \in needed => s.level = w.level
           /\ "history" \in needed => s.totalDecisions = w.totalDecisions
           /\ "model" \in needed => s.model = w.model
           /\ "provenance" \in needed => s.provenance = w.provenance
           /\ s.anchored = w.anchored,
         NEW name, name \notin NotAsked(policy)
  PROVE  name \in Refusals(s, policy) => name \in Refusals(w, policy)
<1> SUFFICES ASSUME name \in Refusals(s, policy) PROVE name \in Refusals(w, policy)
  OBVIOUS
<1>1. name \in ChecksRun(s, policy) /\ name \notin EnvelopeCheck /\ ~ClaimPasses(name, s, policy)
  BY RefusalsAre
<1>2. name # "operatorReputation" /\ (name = "redTeamHardFails" => policy.statesHardFails)
  BY DEF NotAsked
<1>3. name \in ChecksRun(w, policy)
  BY <1>1, <1>2, ChecksAre, RequiredAre
<1>4. ~ClaimPasses(name, w, policy)
  <2>1. CASE name = "auditAnchor"
    BY <1>1, <2>1 DEF ClaimPasses
  <2>2. CASE name \in {"enforcedConstitution", "requiredHardConstraints"}
    <3>1. s.enforced = w.enforced /\ s.hardConstraints = w.hardConstraints
      BY <1>1, <2>2, ChecksAre, RequiredAre
    <3>2. QED
      BY <1>1, <2>2, <3>1 DEF ClaimPasses
  <2>3. CASE name \in {"redTeamPresent", "redTeamGrade", "redTeamHardFails"}
    <3>1. s.redTeam = w.redTeam
      BY <1>1, <1>2, <2>3, ChecksAre, RequiredAre
    <3>2. QED
      BY <1>1, <2>3, <3>1 DEF ClaimPasses
  <2>4. CASE name = "nonCustodial"
    <3>1. s.custody = w.custody
      BY <1>1, <2>4, ChecksAre, RequiredAre
    <3>2. QED
      BY <1>1, <2>4, <3>1 DEF ClaimPasses
  <2>5. CASE name = "attestationLevel"
    <3>1. s.level = w.level
      BY <1>1, <2>5, ChecksAre, RequiredAre
    <3>2. QED
      BY <1>1, <2>5, <3>1 DEF ClaimPasses
  <2>6. CASE name = "deploymentHistory"
    <3>1. s.totalDecisions = w.totalDecisions
      BY <1>1, <2>6, ChecksAre, RequiredAre
    <3>2. QED
      BY <1>1, <2>6, <3>1 DEF ClaimPasses
  <2>7. CASE name \in {"modelFingerprint", "modelDigest"}
    <3>1. s.model = w.model
      BY <1>1, <2>7, ChecksAre, RequiredAre
    <3>2. QED
      BY <1>1, <2>7, <3>1 DEF ClaimPasses
  <2>8. CASE name = "provenance"
    <3>1. s.provenance = w.provenance
      BY <1>1, <2>8, ChecksAre, RequiredAre
    <3>2. QED
      BY <1>1, <2>8, <3>1 DEF ClaimPasses
  <2>9. QED
    BY <1>1, <1>2, <2>1, <2>2, <2>3, <2>4, <2>5, <2>6, <2>7, <2>8, ChecksAre DEF EnvelopeCheck
<1>5. QED
  BY <1>1, <1>3, <1>4, RefusalsAre

(* Whatever documents, policies and views there are, withholding the fields a      *)
(* policy does not require changes nothing of the predicates it requires fields     *)
(* for; the two checks that run unasked are left out.                               *)
THEOREM SufficientViewsDecide == DocumentsSpec => []SufficientViewDecides
<1>1. NegotiationInv => SufficientViewDecides
  <2> SUFFICES ASSUME NegotiationInv, NEW j \in judged, j.ok, NEW h \in Source(j.view)
               PROVE  Refusals(ClaimsOf(j.view.meta, Revealed(j.view)), j.policy) \ NotAsked(j.policy)
                        = Refusals(ClaimsOf(h.meta, h.fields), j.policy) \ NotAsked(j.policy)
    BY DEF SufficientViewDecides
  <2> DEFINE shown == Revealed(j.view)
             s == ClaimsOf(j.view.meta, shown)
             w == ClaimsOf(h.meta, h.fields)
             needed == RequiredFields(j.policy)
  <2>1. VerifyRedacted(j.view) /\ needed \subseteq DOMAIN shown
    BY DEF NegotiationInv, SatisfiesPolicy, Revealed
  <2>2. HolderHolds(h) /\ j.view.commitments = h.commitments /\ j.view.meta = h.meta
    BY DEF Source, NegotiationInv
  <2>3. \A f \in DOMAIN shown : f \in DOMAIN h.fields /\ shown[f] = h.fields[f]
    BY <2>1, <2>2, RevealedIsHeld DEF Revealed
  <2> HIDE DEF shown
  <2>4. /\ "constitution" \in needed =>
             s.enforced = w.enforced /\ s.hardConstraints = w.hardConstraints
        /\ "redTeam" \in needed => s.redTeam = w.redTeam
        /\ "capital" \in needed => s.custody = w.custody
        /\ "operator" \in needed => s.level = w.level
        /\ "history" \in needed => s.totalDecisions = w.totalDecisions
        /\ "model" \in needed => s.model = w.model
        /\ "provenance" \in needed => s.provenance = w.provenance
        /\ s.anchored = w.anchored
    <3> HIDE DEF needed
    <3>1. QED
      BY <2>1, <2>2, <2>3, ClaimsAgree
  <2> HIDE DEF s, w
  <2>5. ASSUME NEW name, name \notin NotAsked(j.policy)
        PROVE  name \in Refusals(s, j.policy) <=> name \in Refusals(w, j.policy)
    <3>1. name \in Refusals(s, j.policy) => name \in Refusals(w, j.policy)
      BY <2>4, <2>5, AgreementDecides
    <3>2. name \in Refusals(w, j.policy) => name \in Refusals(s, j.policy)
      BY <2>4, <2>5, AgreementDecides
    <3>3. QED
      BY <3>1, <3>2
  <2>6. QED
    BY <2>5 DEF s, w, shown
<1>2. QED
  BY <1>1, NegotiationInvariant, PTL

---------------------------------------------------------------------------
(* Range proofs. *)

(* The powers of two are positive integers, each the double of the one before. *)
LEMMA Pow2Step ==
  /\ Pow2 \in [Nat -> Nat \ {0}]
  /\ Pow2[0] = 1
  /\ \A n \in Nat : Pow2[n + 1] = 2 * Pow2[n]
<1> DEFINE S == Nat \ {0}
           step == [p \in Nat \X S |-> 2 * p[2]]
           Is(f) == f = [n \in Nat |-> IF n = 0 THEN 1 ELSE 2 * f[n - 1]]
<1>1. PICK f \in [Nat -> Nat \ {0}] :
        f[0] = 1 /\ \A n \in Nat : f[n + 1] = step[<<n, f[n]>>]
  <2>1. step \in [Nat \X S -> S]
    OBVIOUS
  <2> HIDE DEF step
  <2>0. 1 \in S
    OBVIOUS
  <2> HIDE DEF S
  <2>2. PICK f : Recurs(f, S, 1, step)
    BY <2>0, <2>1, RecursiveFunction
  <2>3. QED
    BY <2>2 DEF S, Recurs
<1>2. \A n \in Nat : f[n + 1] = 2 * f[n]
  BY <1>1
<1>3. \A n \in Nat : f[n] = IF n = 0 THEN 1 ELSE 2 * f[n - 1]
  <2>1. SUFFICES ASSUME NEW n \in Nat, n # 0 PROVE f[n] = 2 * f[n - 1]
    BY <1>1
  <2>2. n - 1 \in Nat /\ (n - 1) + 1 = n
    BY <2>1
  <2>3. QED
    BY <1>2, <2>2
<1>4. Is(f)
  BY <1>1, <1>3
<1>5. Pow2 = CHOOSE g : Is(g)
  BY DEF Pow2
<1> HIDE DEF Is
<1>6. Is(Pow2)
  BY <1>4, <1>5
<1>7. Pow2 = [n \in Nat |-> IF n = 0 THEN 1 ELSE 2 * Pow2[n - 1]]
  BY <1>6 DEF Is
<1> DEFINE T == {n \in Nat : Pow2[n] = f[n]}
<1>8. 0 \in T
  BY <1>1, <1>7
<1>9. ASSUME NEW n \in Nat, n \in T PROVE n + 1 \in T
  <2>1. Pow2[n + 1] = 2 * Pow2[n]
    BY <1>7
  <2>2. QED
    BY <1>2, <1>9, <2>1
<1>10. Nat \subseteq T
  <2> HIDE DEF T
  <2>1. QED
    BY <1>8, <1>9, NatSetInduction
<1>11. Pow2 = f
  BY <1>1, <1>7, <1>10
<1>12. QED
  BY <1>1, <1>2, <1>11

LEMMA Pow2Monotone ==
  ASSUME NEW m \in Nat, NEW n \in Nat, m <= n
  PROVE  Pow2[m] <= Pow2[n]
<1> DEFINE T == {k \in Nat : m <= k => Pow2[m] <= Pow2[k]}
<1>1. 0 \in T
  BY Pow2Step
<1>2. ASSUME NEW k \in Nat, k \in T PROVE k + 1 \in T
  <2>1. Pow2[k + 1] = 2 * Pow2[k] /\ Pow2[k] \in Nat /\ Pow2[m] \in Nat
    BY Pow2Step
  <2>2. CASE m <= k
    BY <1>2, <2>1, <2>2
  <2>3. CASE m = k + 1
    BY <2>1, <2>3
  <2>4. QED
    BY <2>2, <2>3
<1>3. Nat \subseteq T
  <2> HIDE DEF T
  <2>1. QED
    BY <1>1, <1>2, NatSetInduction
<1>4. QED
  BY <1>3

LEMMA Pow2Exceeds ==
  ASSUME NEW x \in Nat
  PROVE  x < Pow2[x]
<1> DEFINE T == {k \in Nat : k < Pow2[k]}
<1>1. 0 \in T
  BY Pow2Step
<1>2. ASSUME NEW k \in Nat, k \in T PROVE k + 1 \in T
  BY <1>2, Pow2Step
<1>3. Nat \subseteq T
  <2> HIDE DEF T
  <2>1. QED
    BY <1>1, <1>2, NatSetInduction
<1>4. QED
  BY <1>3

(* A number is below the power its bit length names. *)
LEMMA BitLengthHolds ==
  ASSUME NEW x \in Int
  PROVE  /\ BitLength(x) \in Nat \ {0}
         /\ x < Pow2[BitLength(x)]
<1>1. CASE x <= 0
  <2>1. Pow2[1] = 2
    BY Pow2Step
  <2>2. QED
    BY <1>1, <2>1 DEF BitLength
<1>2. CASE x > 0
  <2> DEFINE T == {n \in Nat : x < Pow2[n]}
  <2>1. x \in T
    BY <1>2, Pow2Exceeds
  <2>2. PICK n \in T : \A m \in T : n <= m
    <3> HIDE DEF T
    <3>1. T \in SUBSET Nat
      BY DEF T
    <3>2. QED
      BY <2>1, <3>1, LeastNatural
  <2>3. n # 0
    BY <1>2, <2>2, Pow2Step
  <2>4. n <= x
    BY <2>1, <2>2
  <2>5. n - 1 \in Nat /\ n - 1 \notin T
    BY <2>2, <2>3
  <2>6. Pow2[n - 1] <= x
    BY <2>5, Pow2Step
  <2>7. n \in 1..x /\ Pow2[n - 1] <= x /\ x < Pow2[n]
    BY <1>2, <2>2, <2>3, <2>4, <2>6
  <2>8. BitLength(x) = CHOOSE b \in 1..x : Pow2[b - 1] <= x /\ x < Pow2[b]
    BY <1>2 DEF BitLength
  <2>9. BitLength(x) \in 1..x /\ x < Pow2[BitLength(x)]
    BY <2>7, <2>8
  <2>10. QED
    BY <1>2, <2>9
<1>3. QED
  BY <1>1, <1>2

(* The bits a bound is given hold every number up to it, and the default does. *)
LEMMA BitsForBoundHolds ==
  ASSUME NEW bound \in Int
  PROVE  /\ BitsForBound(bound) \in Nat \ {0}
         /\ bound < Pow2[BitsForBound(bound)]
         /\ Pow2[DefaultRangeBits] <= Pow2[BitsForBound(bound)]
<1>1. BitLength(bound) \in Nat \ {0} /\ bound < Pow2[BitLength(bound)]
  BY BitLengthHolds
<1>2. DefaultRangeBits \in Nat \ {0}
  BY ZkAssumption
<1>3. /\ BitsForBound(bound) \in Nat \ {0}
      /\ BitLength(bound) <= BitsForBound(bound) /\ DefaultRangeBits <= BitsForBound(bound)
  BY <1>1, <1>2 DEF BitsForBound
<1>4. /\ Pow2[BitLength(bound)] <= Pow2[BitsForBound(bound)]
      /\ Pow2[DefaultRangeBits] <= Pow2[BitsForBound(bound)]
  BY <1>1, <1>2, <1>3, Pow2Monotone
<1>5. QED
  BY <1>1, <1>3, <1>4, Pow2Step

---------------------------------------------------------------------------
LEMMA SubStatementsTyped ==
  ASSUME NEW pred \in Predicate
  PROVE  /\ DOMAIN SubStatements(pred) \in {1..1, 1..2}
         /\ pred.min \in Int /\ pred.max \in Int
         /\ \A s \in DOMAIN SubStatements(pred) : SubStatements(pred)[s].bound \in Int
         /\ pred.kind \in {"gte", "lte", "range"}
<1>1. pred.kind \in {"gte", "lte", "range"} /\ pred.min \in Int /\ pred.max \in Int
  BY ZkAssumption
<1>2. CASE pred.kind = "gte"
  <2>1. SubStatements(pred) = << [label |-> "gte", bound |-> Pow2[DefaultRangeBits] - 1] >>
    BY <1>2 DEF SubStatements
  <2>2. Pow2[DefaultRangeBits] - 1 \in Int
    BY Pow2Step, ZkAssumption
  <2>3. QED
    BY <1>1, <2>1, <2>2
<1>3. CASE pred.kind = "lte"
  <2>1. SubStatements(pred) = << [label |-> "lte", bound |-> pred.max] >>
    BY <1>3 DEF SubStatements
  <2>2. QED
    BY <1>1, <2>1
<1>4. CASE pred.kind = "range"
  <2> DEFINE span == IF pred.max < pred.min THEN 0 ELSE pred.max - pred.min
  <2>1. SubStatements(pred) = << [label |-> "rlo", bound |-> span], [label |-> "rhi", bound |-> span] >>
    BY <1>4 DEF SubStatements
  <2>2. span \in Int
    BY <1>1
  <2>3. QED
    BY <1>1, <2>1, <2>2
<1>5. QED
  BY <1>1, <1>2, <1>3, <1>4

(* What proveRange refuses: a shifted value that is negative or too long. *)
ShiftedValue(pred, v, s) == Shift(SubStatements(pred)[s].label, pred, v)

LEMMA ProvenShifts ==
  ASSUME NEW pred \in Predicate, NEW v \in Nat
  PROVE  ProveRange(pred, v) # {} <=>
           \A s \in DOMAIN SubStatements(pred) :
             ShiftedValue(pred, v, s) \in 0..(Pow2[BitsForBound(SubStatements(pred)[s].bound)] - 1)
<1> DEFINE shifted == ShiftedBy(pred, [s \in DOMAIN SubStatements(pred) |-> v])
<1>1. DOMAIN shifted = DOMAIN SubStatements(pred)
  BY DEF ShiftedBy
<1>2. \A s \in DOMAIN SubStatements(pred) :
        /\ shifted[s] = ShiftedValue(pred, v, s)
        /\ BitsOf(pred)[s] = BitsForBound(SubStatements(pred)[s].bound)
  BY DEF ShiftedBy, ShiftedValue, BitsOf
<1>3. ProveRange(pred, v) # {} <=>
        \A s \in DOMAIN shifted : shifted[s] \in 0..(Pow2[BitsOf(pred)[s]] - 1)
  BY Zenon DEF ProveRange
<1> HIDE DEF shifted
<1>4. QED
  BY <1>1, <1>2, <1>3

(* The transcript of a bit names the statement. *)
LEMMA BuiltTag ==
  ASSUME NEW v, NEW n \in Nat \ {0}, NEW tag
  PROVE  BuildRangeProof(v, n, tag).bitProofs[0].bound.tag = tag
<1> DEFINE part == BuildRangeProof(v, n, tag)
<1>1. part.bitProofs = [i \in 0..(n - 1) |->
        ProveBit(part.bitCommitments[i], [tag |-> tag, commitment |-> part.commitment,
                                          all |-> part.bitCommitments, bit |-> i])]
  BY Zenon DEF BuildRangeProof
<1> HIDE DEF part
<1>2. 0 \in 0..(n - 1)
  OBVIOUS
<1>3. part.bitProofs[0] =
        ProveBit(part.bitCommitments[0], [tag |-> tag, commitment |-> part.commitment,
                                          all |-> part.bitCommitments, bit |-> 0])
  BY <1>1, <1>2
<1>4. part.bitProofs[0].bound.tag = tag
  BY <1>3 DEF ProveBit
<1>5. QED
  BY <1>4 DEF part

LEMMA VerifiedTag ==
  ASSUME NEW part, NEW n \in Nat \ {0}, NEW tag, VerifyRangeProof(part, n, tag)
  PROVE  part.bitProofs[0].bound.tag = tag
<1>1. 0 \in 0..(n - 1)
  OBVIOUS
<1>2. part.bitProofs[0] =
        ProveBit(part.bitCommitments[0], [tag |-> tag, commitment |-> part.commitment,
                                          all |-> part.bitCommitments, bit |-> 0])
  BY <1>1 DEF VerifyRangeProof, VerifyBit
<1>3. QED
  BY <1>2 DEF ProveBit

LEMMA BuiltCommitment ==
  ASSUME NEW v, NEW n, NEW tag
  PROVE  BuildRangeProof(v, n, tag).commitment.g = v % GroupOrder
<1> DEFINE part == BuildRangeProof(v, n, tag)
<1>1. part.commitment = PedersenCommit(v, Blinding(n))
  BY Zenon DEF BuildRangeProof
<1> HIDE DEF part
<1>2. part.commitment.g = v % GroupOrder
  BY <1>1 DEF PedersenCommit
<1>3. QED
  BY <1>2 DEF part

LEMMA PackedIs ==
  ASSUME NEW pred, NEW shifted, NEW bits
  PROVE  LET p == Packed(pred, shifted, bits) IN
         /\ {"predicate", "bits", "readable", "parts"} = DOMAIN p
         /\ p.predicate = pred /\ p.bits = bits /\ p.readable
         /\ DOMAIN p.parts = DOMAIN shifted
         /\ \A s \in DOMAIN shifted :
              p.parts[s] = BuildRangeProof(shifted[s], bits[s], <<pred, SubStatements(pred)[s].label>>)
<1> DEFINE parts == [s \in DOMAIN shifted |->
             BuildRangeProof(shifted[s], bits[s], <<pred, SubStatements(pred)[s].label>>)]
           p == Packed(pred, shifted, bits)
<1>1. p = [predicate |-> pred, bits |-> bits, readable |-> TRUE, parts |-> parts]
  BY DEF Packed
<1>2. DOMAIN parts = DOMAIN shifted
  OBVIOUS
<1>3. \A s \in DOMAIN shifted :
        parts[s] = BuildRangeProof(shifted[s], bits[s], <<pred, SubStatements(pred)[s].label>>)
  OBVIOUS
<1> HIDE DEF parts, p
<1>4. /\ {"predicate", "bits", "readable", "parts"} = DOMAIN p
      /\ p.predicate = pred /\ p.bits = bits /\ p.readable /\ p.parts = parts
  BY <1>1
<1>5. QED
  BY <1>2, <1>3, <1>4, Zenon DEF p

LEMMA ProvenIsPacked ==
  ASSUME NEW pred \in Predicate, NEW v, NEW q \in ProveRange(pred, v)
  PROVE  \E shifted :
           /\ q = Packed(pred, shifted, BitsOf(pred))
           /\ DOMAIN shifted = DOMAIN SubStatements(pred)
           /\ \A s \in DOMAIN shifted : shifted[s] = ShiftedValue(pred, v, s)
<1> DEFINE shifted == ShiftedBy(pred, [s \in DOMAIN SubStatements(pred) |-> v])
<1>1. q = Packed(pred, shifted, BitsOf(pred))
  BY Zenon DEF ProveRange
<1>2. /\ DOMAIN shifted = DOMAIN SubStatements(pred)
      /\ \A s \in DOMAIN shifted : shifted[s] = ShiftedValue(pred, v, s)
  BY DEF ShiftedBy, ShiftedValue
<1> HIDE DEF shifted
<1>3. QED
  BY <1>1, <1>2

---------------------------------------------------------------------------
(* A part was built for a bound of a statement: its commitment is to what the      *)
(* value put in comes to, its first bit names the statement and the bound.          *)
StandsFor(m) ==
  \E o \in Predicate : \E s \in DOMAIN SubStatements(o) :
    /\ m.value \in HiddenValue
    /\ m.part.commitment.g = ShiftedValue(o, m.value, s) % GroupOrder
    /\ m.part.bitProofs[0].bound.tag = <<o, SubStatements(o)[s].label>>

Carries(p) ==
  /\ {"predicate", "parts", "readable"} \subseteq DOMAIN p
  /\ p.predicate \in Predicate
  /\ \A s \in DOMAIN p.parts : CommittedIn(p.parts[s]) # {}

ZkInv ==
  /\ \A p \in attached : Carries(p)
  /\ \A m \in built : StandsFor(m)
  /\ \A f \in failed : /\ f.predicate \in Predicate /\ f.value \in HiddenValue
                       /\ ProveRange(f.predicate, f.value) = {}
  /\ \A r \in required : /\ r.asked \subseteq Predicate /\ r.proofs = attached
                         /\ r.answer \in RequireAttributeProofs(r.proofs, r.asked)

LEMMA ZkInitSound == ZkInit => ZkInv
BY DEF ZkInit, ZkInv

(* What was built stays so, and what was attached goes on carrying it. *)
LEMMA CarriesStays ==
  ASSUME NEW p, Carries(p), built \subseteq built'
  PROVE  Carries(p)'
<1>1. \A part : CommittedIn(part) \subseteq CommittedIn(part)'
  BY DEF CommittedIn
<1>2. ASSUME NEW s \in DOMAIN p.parts PROVE CommittedIn(p.parts[s])' # {}
  BY <1>1 DEF Carries
<1>3. QED
  BY <1>2 DEF Carries

LEMMA AttachSound ==
  ASSUME ZkInv, NEW pred \in Predicate, NEW shifted, NEW bits, NEW values,
         DOMAIN shifted = DOMAIN SubStatements(pred),
         \A s \in DOMAIN shifted :
           /\ bits[s] \in Nat \ {0} /\ values[s] \in HiddenValue
           /\ shifted[s] % GroupOrder = ShiftedValue(pred, values[s], s) % GroupOrder,
         Attach(Packed(pred, shifted, bits), values)
  PROVE  /\ \A p \in attached' : Carries(p)'
         /\ \A m \in built' : StandsFor(m)
<1> DEFINE proof == Packed(pred, shifted, bits)
<1>1. /\ {"predicate", "parts", "readable"} \subseteq DOMAIN proof /\ proof.predicate = pred
      /\ DOMAIN proof.parts = DOMAIN shifted
      /\ \A s \in DOMAIN shifted :
           proof.parts[s] = BuildRangeProof(shifted[s], bits[s], <<pred, SubStatements(pred)[s].label>>)
  BY PackedIs
<1>2. attached' = attached \cup {proof}
  BY DEF Attach
<1>3. built' = built \cup {[part |-> proof.parts[s], value |-> values[s]] : s \in DOMAIN proof.parts}
  BY DEF Attach
<1> HIDE DEF proof
<1>4. ASSUME NEW s \in DOMAIN proof.parts
      PROVE  StandsFor([part |-> proof.parts[s], value |-> values[s]])
  <2> DEFINE m == [part |-> proof.parts[s], value |-> values[s]]
             label == SubStatements(pred)[s].label
  <2>1. s \in DOMAIN shifted /\ s \in DOMAIN SubStatements(pred)
    BY <1>1
  <2>2. m.value = values[s] /\ m.part = BuildRangeProof(shifted[s], bits[s], <<pred, label>>)
    BY <1>1, <2>1
  <2> HIDE DEF m
  <2>3. m.part.commitment.g = shifted[s] % GroupOrder
    BY <2>2, BuiltCommitment
  <2>4. m.part.bitProofs[0].bound.tag = <<pred, label>>
    <3>1. bits[s] \in Nat \ {0}
      BY <2>1
    <3>2. QED
      BY <2>2, <3>1, BuiltTag
  <2>5. StandsFor(m)
    BY <2>1, <2>2, <2>3, <2>4 DEF StandsFor
  <2>6. QED
    BY <2>5 DEF m
<1>5. \A m \in built' : StandsFor(m)
  BY <1>3, <1>4 DEF ZkInv
<1>6. Carries(proof)'
  <2>1. ASSUME NEW s \in DOMAIN proof.parts PROVE CommittedIn(proof.parts[s])' # {}
    <3> DEFINE m == [part |-> proof.parts[s], value |-> values[s]]
    <3>1. m \in built' /\ m.part = proof.parts[s]
      BY <1>3
    <3> HIDE DEF m
    <3>2. m.value \in CommittedIn(proof.parts[s])'
      BY <3>1 DEF CommittedIn
    <3>3. QED
      BY <3>2
  <2>2. QED
    BY <1>1, <2>1 DEF Carries
<1>7. \A p \in attached' : Carries(p)'
  BY <1>2, <1>3, <1>6, CarriesStays DEF ZkInv
<1>8. QED
  BY <1>5, <1>7

LEMMA BitsOfPositive ==
  ASSUME NEW pred \in Predicate, NEW s \in DOMAIN SubStatements(pred)
  PROVE  /\ DOMAIN BitsOf(pred) = DOMAIN SubStatements(pred)
         /\ BitsOf(pred)[s] = BitsForBound(SubStatements(pred)[s].bound)
         /\ BitsOf(pred)[s] \in Nat \ {0}
BY SubStatementsTyped, BitsForBoundHolds DEF BitsOf

LEMMA ProveStep == ZkInv /\ ProveDisclosureAttribute => ZkInv'
<1> SUFFICES ASSUME ZkInv, ProveDisclosureAttribute PROVE ZkInv'
  OBVIOUS
<1>1. PICK pred \in Predicate, v \in HiddenValue :
        \/ /\ \E proof \in ProveRange(pred, v) : Attach(proof, [s \in DOMAIN proof.parts |-> v])
           /\ failed' = {}
        \/ /\ ProveRange(pred, v) = {}
           /\ failed' = {[predicate |-> pred, value |-> v]}
           /\ UNCHANGED <<attached, built>>
  BY DEF ProveDisclosureAttribute
<1>2. required' = {}
  BY DEF ProveDisclosureAttribute
<1>3. ASSUME NEW q \in ProveRange(pred, v), Attach(q, [s \in DOMAIN q.parts |-> v]), failed' = {}
      PROVE  ZkInv'
  <2>1. PICK shifted :
          /\ q = Packed(pred, shifted, BitsOf(pred))
          /\ DOMAIN shifted = DOMAIN SubStatements(pred)
          /\ \A s \in DOMAIN shifted : shifted[s] = ShiftedValue(pred, v, s)
    BY ProvenIsPacked
  <2> DEFINE values == [s \in DOMAIN q.parts |-> v]
             bits == BitsOf(pred)
  <2>2. DOMAIN q.parts = DOMAIN shifted
    BY <2>1, PackedIs
  <2>3. \A s \in DOMAIN shifted :
          /\ bits[s] \in Nat \ {0} /\ values[s] \in HiddenValue
          /\ shifted[s] % GroupOrder = ShiftedValue(pred, values[s], s) % GroupOrder
    BY <2>1, <2>2, BitsOfPositive
  <2>4. Attach(Packed(pred, shifted, bits), values)
    BY <1>3, <2>1
  <2> HIDE DEF values, bits
  <2>5. /\ \A p \in attached' : Carries(p)'
        /\ \A m \in built' : StandsFor(m)
    BY <2>1, <2>3, <2>4, AttachSound
  <2>6. QED
    BY <1>2, <1>3, <2>5 DEF ZkInv, StandsFor
<1>4. ASSUME ProveRange(pred, v) = {}, failed' = {[predicate |-> pred, value |-> v]},
             UNCHANGED <<attached, built>>
      PROVE  ZkInv'
  <2>1. \A p \in attached' : Carries(p)'
    BY <1>4, CarriesStays DEF ZkInv
  <2>2. QED
    BY <1>2, <1>4, <2>1 DEF ZkInv, StandsFor
<1>5. QED
  BY <1>1, <1>3, <1>4

LEMMA CommitStep == ZkInv /\ CommitAtWill => ZkInv'
<1> SUFFICES ASSUME ZkInv, CommitAtWill PROVE ZkInv'
  OBVIOUS
<1>1. PICK pred \in Predicate, wider \in WiderBits :
        \E values \in [DOMAIN SubStatements(pred) -> HiddenValue] :
          Attach(Packed(pred, [s \in DOMAIN values |-> ShiftedBy(pred, values)[s] % GroupOrder],
                        [s \in DOMAIN values |-> BitsOf(pred)[s] + wider]), values)
  BY DEF CommitAtWill
<1>2. PICK values \in [DOMAIN SubStatements(pred) -> HiddenValue] :
        Attach(Packed(pred, [s \in DOMAIN values |-> ShiftedBy(pred, values)[s] % GroupOrder],
                      [s \in DOMAIN values |-> BitsOf(pred)[s] + wider]), values)
  BY <1>1
<1> DEFINE shifted == [s \in DOMAIN values |-> ShiftedBy(pred, values)[s] % GroupOrder]
           bits == [s \in DOMAIN values |-> BitsOf(pred)[s] + wider]
<1>3. DOMAIN shifted = DOMAIN SubStatements(pred)
  OBVIOUS
<1>4. ASSUME NEW s \in DOMAIN SubStatements(pred)
      PROVE  /\ bits[s] \in Nat \ {0} /\ values[s] \in HiddenValue
             /\ shifted[s] % GroupOrder = ShiftedValue(pred, values[s], s) % GroupOrder
  <2> DEFINE x == ShiftedValue(pred, values[s], s)
  <2>1. wider \in Nat /\ values[s] \in Nat /\ values[s] \in HiddenValue /\ GroupOrder \in Nat \ {0}
    BY ZkAssumption
  <2>2. bits[s] \in Nat \ {0}
    BY <2>1, BitsOfPositive
  <2>3. shifted[s] = x % GroupOrder
    BY DEF ShiftedBy, ShiftedValue
  <2>4. x \in Int
    BY <2>1, SubStatementsTyped DEF ShiftedValue, Shift
  <2> HIDE DEF x, shifted
  <2>5. (x % GroupOrder) % GroupOrder = x % GroupOrder
    <3>1. x % GroupOrder \in 0..(GroupOrder - 1)
      BY <2>1, <2>4, DivMod
    <3>2. x % GroupOrder \in Int /\ x % GroupOrder = GroupOrder * 0 + (x % GroupOrder)
      BY <2>1, <3>1
    <3>3. QED
      BY <2>1, <3>1, <3>2, DivModUnique
  <2>6. QED
    BY <2>1, <2>2, <2>3, <2>5 DEF x
<1>5. Attach(Packed(pred, shifted, bits), values)
  BY <1>2
<1> HIDE DEF shifted, bits
<1>6. /\ \A p \in attached' : Carries(p)'
      /\ \A m \in built' : StandsFor(m)
  BY <1>3, <1>4, <1>5, AttachSound
<1>7. failed' = {} /\ required' = {}
  BY DEF CommitAtWill
<1>8. QED
  BY <1>6, <1>7 DEF ZkInv, StandsFor

LEMMA RelabelStep == ZkInv /\ Relabel => ZkInv'
<1> SUFFICES ASSUME ZkInv, Relabel PROVE ZkInv'
  OBVIOUS
<1>1. PICK p \in attached, r \in attached, pred \in Predicate, readable \in BOOLEAN :
        attached' = attached \cup
          {[p EXCEPT !.predicate = pred, !.parts = r.parts, !.readable = readable]}
  BY DEF Relabel
<1>2. failed' = {} /\ required' = {} /\ built' = built
  BY DEF Relabel
<1>3. Carries(p) /\ Carries(r)
  BY DEF ZkInv
<1> DEFINE e == [p EXCEPT !.predicate = pred, !.parts = r.parts, !.readable = readable]
<1>4. DOMAIN e = DOMAIN p /\ e.predicate = pred /\ e.parts = r.parts
  BY <1>3 DEF Carries
<1> HIDE DEF e
<1>5. Carries(e)
  BY <1>3, <1>4 DEF Carries
<1>6. \A q \in attached' : Carries(q)
  BY <1>1, <1>5 DEF ZkInv, e
<1>7. \A q \in attached' : Carries(q)'
  BY <1>2, <1>6, CarriesStays
<1>8. QED
  BY <1>2, <1>7 DEF ZkInv, StandsFor

LEMMA ZkStepSound == ZkInv /\ (ZkNext \/ UNCHANGED zk) => ZkInv'
<1> SUFFICES ASSUME ZkInv, ZkNext \/ UNCHANGED zk PROVE ZkInv'
  OBVIOUS
<1>1. CASE Require
  <2>1. PICK wanted \in SUBSET Predicate : \E answer \in RequireAttributeProofs(attached, wanted) :
          required' = {[asked |-> wanted, proofs |-> attached, answer |-> answer]}
    BY <1>1 DEF Require
  <2>2. PICK answer \in RequireAttributeProofs(attached, wanted) :
          required' = {[asked |-> wanted, proofs |-> attached, answer |-> answer]}
    BY <2>1
  <2>3. failed' = {} /\ attached' = attached /\ built' = built
    BY <1>1 DEF Require
  <2>4. \A p \in attached' : Carries(p)'
    BY <2>3, CarriesStays DEF ZkInv
  <2>5. \A r \in required' : /\ r.asked \subseteq Predicate /\ r.proofs = attached'
                             /\ r.answer \in RequireAttributeProofs(r.proofs, r.asked)
    BY <2>2, <2>3
  <2>6. QED
    BY <2>3, <2>4, <2>5 DEF ZkInv, StandsFor
<1>2. CASE UNCHANGED zk
  <2>1. \A p \in attached' : Carries(p)'
    BY <1>2, CarriesStays DEF zk, ZkInv
  <2>2. QED
    BY <1>2, <2>1 DEF zk, ZkInv, StandsFor
<1>3. QED
  BY <1>1, <1>2, ProveStep, CommitStep, RelabelStep DEF ZkNext

---------------------------------------------------------------------------
(* s is the running sum of PartialSum(n, f). *)
RunningSum(s, n, f) ==
  /\ s \in [0..n -> Int]
  /\ s[0] = 0
  /\ \A i \in 0..(n - 1) : s[i + 1] = s[i] + Pow2[i] * f[i]

LEMMA RunningSumUnique ==
  ASSUME NEW m \in Nat, NEW n \in Nat, m <= n, NEW f, NEW g, NEW s, NEW t,
         RunningSum(s, m, f), RunningSum(t, n, g), \A i \in 0..(m - 1) : f[i] = g[i]
  PROVE  \A i \in 0..m : s[i] = t[i]
<1> DEFINE T == {i \in Nat : i <= m => s[i] = t[i]}
<1>1. 0 \in T
  BY DEF RunningSum
<1>2. ASSUME NEW i \in Nat, i \in T PROVE i + 1 \in T
  <2>1. CASE i + 1 <= m
    <3>1. i \in 0..(m - 1) /\ i \in 0..(n - 1) /\ s[i] = t[i] /\ f[i] = g[i]
      BY <1>2, <2>1
    <3>2. s[i + 1] = s[i] + Pow2[i] * f[i]
      BY <3>1 DEF RunningSum
    <3>3. t[i + 1] = t[i] + Pow2[i] * g[i]
      BY <3>1 DEF RunningSum
    <3>4. QED
      BY <3>1, <3>2, <3>3
  <2>2. QED
    BY <2>1
<1>3. Nat \subseteq T
  <2> HIDE DEF T
  <2>1. QED
    BY <1>1, <1>2, NatSetInduction
<1>4. QED
  BY <1>3

LEMMA RunningSumExists ==
  ASSUME NEW n \in Nat, NEW f, \A i \in 0..(n - 1) : f[i] \in Int
  PROVE  \E s : RunningSum(s, n, f)
<1> DEFINE step == [p \in Nat \X Int |-> IF p[1] < n THEN p[2] + Pow2[p[1]] * f[p[1]] ELSE p[2]]
<1>1. step \in [Nat \X Int -> Int]
  <2>1. SUFFICES ASSUME NEW p \in Nat \X Int, p[1] < n PROVE p[2] + Pow2[p[1]] * f[p[1]] \in Int
    OBVIOUS
  <2>2. p[1] \in 0..(n - 1) /\ p[2] \in Int
    BY <2>1
  <2>3. Pow2[p[1]] \in Int /\ f[p[1]] \in Int
    BY <2>2, Pow2Step
  <2>4. QED
    BY <2>2, <2>3
<1>2. ASSUME NEW i \in 0..(n - 1), NEW x \in Int PROVE step[<<i, x>>] = x + Pow2[i] * f[i]
  OBVIOUS
<1> HIDE DEF step
<1>3. PICK r : Recurs(r, Int, 0, step)
  <2> DEFINE S == Int
  <2>1. 0 \in S /\ step \in [Nat \X S -> S]
    BY <1>1
  <2> HIDE DEF S
  <2>2. \E r : Recurs(r, S, 0, step)
    BY <2>1, RecursiveFunction
  <2>3. QED
    BY <2>2 DEF S
<1> DEFINE s == [i \in 0..n |-> r[i]]
<1>4. s \in [0..n -> Int] /\ s[0] = 0
  BY <1>3 DEF Recurs
<1>5. ASSUME NEW i \in 0..(n - 1) PROVE s[i + 1] = s[i] + Pow2[i] * f[i]
  <2>1. r[i + 1] = step[<<i, r[i]>>] /\ r[i] \in Int
    BY <1>3 DEF Recurs
  <2>2. i + 1 \in 0..n /\ i \in 0..n
    OBVIOUS
  <2>3. QED
    BY <1>2, <2>1, <2>2
<1>6. RunningSum(s, n, f)
  <2> HIDE DEF s
  <2>1. QED
    BY <1>4, <1>5 DEF RunningSum
<1>7. QED
  BY <1>6

LEMMA PartialSumIs ==
  ASSUME NEW n \in Nat, NEW f, NEW s, RunningSum(s, n, f)
  PROVE  PartialSum(n, f) = s[n]
<1> DEFINE Is(t) == t = [i \in 0..n |-> IF i = 0 THEN 0 ELSE t[i - 1] + Pow2[i - 1] * f[i - 1]]
           t == CHOOSE g : Is(g)
<1>1. Is(s)
  <2>1. \A i \in 0..n : s[i] = IF i = 0 THEN 0 ELSE s[i - 1] + Pow2[i - 1] * f[i - 1]
    <3>1. SUFFICES ASSUME NEW i \in 0..n, i # 0 PROVE s[i] = s[i - 1] + Pow2[i - 1] * f[i - 1]
      BY DEF RunningSum
    <3>2. i - 1 \in 0..(n - 1) /\ (i - 1) + 1 = i
      BY <3>1
    <3>3. s[(i - 1) + 1] = s[i - 1] + Pow2[i - 1] * f[i - 1]
      BY <3>2 DEF RunningSum
    <3>4. QED
      BY <3>2, <3>3
  <2>2. s = [i \in 0..n |-> s[i]]
    BY DEF RunningSum
  <2>3. QED
    BY <2>1, <2>2
<1>2. PartialSum(n, f) = t[n]
  BY DEF PartialSum
<1> HIDE DEF Is
<1>3. Is(t)
  BY <1>1
<1>4. t = [i \in 0..n |-> IF i = 0 THEN 0 ELSE t[i - 1] + Pow2[i - 1] * f[i - 1]]
  BY <1>3 DEF Is
<1> HIDE DEF t
<1> DEFINE T == {i \in Nat : i <= n => t[i] = s[i]}
<1>5. 0 \in T
  BY <1>4 DEF RunningSum
<1>6. ASSUME NEW i \in Nat, i \in T PROVE i + 1 \in T
  <2>1. CASE i + 1 <= n
    <3>1. i \in 0..(n - 1) /\ i + 1 \in 0..n /\ i + 1 # 0 /\ (i + 1) - 1 = i /\ t[i] = s[i]
      BY <1>6, <2>1
    <3>2. s[i + 1] = s[i] + Pow2[i] * f[i]
      BY <3>1 DEF RunningSum
    <3>3. t[i + 1] = t[(i + 1) - 1] + Pow2[(i + 1) - 1] * f[(i + 1) - 1]
      BY <1>4, <3>1
    <3>4. t[i + 1] = s[i + 1]
      BY <3>1, <3>2, <3>3
    <3>5. QED
      BY <3>4
  <2>2. QED
    BY <2>1
<1>7. Nat \subseteq T
  <2> HIDE DEF T
  <2>1. QED
    BY <1>5, <1>6, NatSetInduction
<1>8. QED
  BY <1>2, <1>7

(* The bits of v, weighted, add up to v less what lies above them. *)
BitAt(v, i) == (v \div Pow2[i]) % 2

LEMMA BitsAddUp ==
  ASSUME NEW v \in Nat, NEW n \in Nat, v < Pow2[n], NEW f,
         \A i \in 0..(n - 1) : f[i] = BitAt(v, i), NEW s, RunningSum(s, n, f)
  PROVE  s[n] = v
<1> DEFINE T == {i \in Nat : i <= n => s[i] = v - Pow2[i] * (v \div Pow2[i])}
<1>1. 0 \in T
  <2>1. v \div 1 = v
    OBVIOUS
  <2>2. QED
    BY <2>1, Pow2Step DEF RunningSum
<1>2. ASSUME NEW i \in Nat, i \in T PROVE i + 1 \in T
  <2>1. SUFFICES ASSUME i + 1 <= n
                 PROVE  s[i + 1] = v - Pow2[i + 1] * (v \div Pow2[i + 1])
    OBVIOUS
  <2> DEFINE a == Pow2[i]
             d == v \div a
             b == d % 2
             e == d \div 2
  <2>2. i \in 0..(n - 1) /\ s[i] = v - a * d
    BY <1>2, <2>1
  <2>3. a \in Nat \ {0} /\ Pow2[i + 1] = 2 * a
    BY Pow2Step
  <2>4. d \in Int
    BY <2>3
  <2>5. e \in Int /\ b \in Int /\ d = 2 * e + b
    BY <2>4
  <2>6. v \div (2 * a) = e
    BY <2>3, HalfDiv
  <2>7. f[i] = b
    BY <2>2 DEF BitAt
  <2>8. s[i + 1] = s[i] + Pow2[i] * f[i]
    BY <2>2 DEF RunningSum
  <2>9. s[i + 1] = (v - a * d) + a * b
    BY <2>2, <2>7, <2>8
  <2> HIDE DEF a, d, b, e
  <2>10. (v - a * d) + a * b = v - (2 * a) * e
    BY <2>3, <2>4, <2>5
  <2>11. QED
    BY <2>3, <2>6, <2>9, <2>10
<1>3. Nat \subseteq T
  <2> HIDE DEF T
  <2>1. QED
    BY <1>1, <1>2, NatSetInduction
<1>4. v \div Pow2[n] = 0
  <2>1. Pow2[n] \in Nat \ {0} /\ v \in 0..(Pow2[n] - 1) /\ v = Pow2[n] * 0 + v
    BY Pow2Step
  <2>2. QED
    BY <2>1, DivModUnique
<1>5. Pow2[n] * (v \div Pow2[n]) = 0
  BY <1>4, Pow2Step
<1>6. QED
  BY <1>3, <1>5

(* Bits, weighted, add up to a number the bits can hold. *)
LEMMA BitsSumBounded ==
  ASSUME NEW n \in Nat, NEW f, \A i \in 0..(n - 1) : f[i] \in {0, 1}
  PROVE  PartialSum(n, f) \in 0..(Pow2[n] - 1)
<1>1. \A i \in 0..(n - 1) : f[i] \in Int
  OBVIOUS
<1>2. PICK s : RunningSum(s, n, f)
  BY <1>1, RunningSumExists
<1> DEFINE T == {i \in Nat : i <= n => s[i] \in 0..(Pow2[i] - 1)}
<1>3. 0 \in T
  <2>1. s[0] = 0 /\ Pow2[0] = 1
    BY <1>2, Pow2Step DEF RunningSum
  <2>2. s[0] \in 0..(Pow2[0] - 1)
    BY <2>1
  <2>3. QED
    BY <2>2
<1>4. ASSUME NEW i \in Nat, i \in T PROVE i + 1 \in T
  <2>1. SUFFICES ASSUME i + 1 <= n PROVE s[i + 1] \in 0..(Pow2[i + 1] - 1)
    OBVIOUS
  <2>2. i \in 0..(n - 1) /\ s[i] \in 0..(Pow2[i] - 1) /\ f[i] \in {0, 1}
    BY <1>4, <2>1
  <2>3. s[i + 1] = s[i] + Pow2[i] * f[i]
    BY <1>2, <2>2 DEF RunningSum
  <2>4. Pow2[i] \in Nat \ {0} /\ Pow2[i + 1] = 2 * Pow2[i]
    BY Pow2Step
  <2>5. CASE f[i] = 0
    BY <2>2, <2>3, <2>4, <2>5
  <2>6. CASE f[i] = 1
    BY <2>2, <2>3, <2>4, <2>6
  <2>7. QED
    BY <2>2, <2>5, <2>6
<1>5. Nat \subseteq T
  <2> HIDE DEF T
  <2>1. QED
    BY <1>3, <1>4, NatSetInduction
<1>6. s[n] \in 0..(Pow2[n] - 1)
  BY <1>5
<1>7. QED
  BY <1>2, <1>6, PartialSumIs

(* What verifies is a commitment to a number the bits can hold. *)
LEMMA VerifiedCommitment ==
  ASSUME NEW part, NEW n \in Nat \ {0}, NEW tag, VerifyRangeProof(part, n, tag)
  PROVE  \E total \in 0..(Pow2[n] - 1) : part.commitment.g = total % GroupOrder
<1> DEFINE gs == [i \in 0..(n - 1) |-> part.bitCommitments[i].g]
           hs == [i \in 0..(n - 1) |-> part.bitCommitments[i].h]
<1>1. \A i \in 0..(n - 1) : gs[i] \in {0, 1}
  BY DEF VerifyRangeProof, VerifyBit
<1>2. part.commitment = [g |-> WeightedSum(n, gs), h |-> WeightedSum(n, hs)]
  BY DEF VerifyRangeProof
<1> HIDE DEF gs, hs
<1>3. part.commitment.g = PartialSum(n, gs) % GroupOrder
  BY <1>2 DEF WeightedSum
<1>4. PartialSum(n, gs) \in 0..(Pow2[n] - 1)
  BY <1>1, BitsSumBounded
<1>5. QED
  BY <1>3, <1>4

(* A number below zero, by no more than the group leaves above the bits, is no     *)
(* number of so many bits modulo the order of the group.                           *)
LEMMA NoWrap ==
  ASSUME NEW x \in Int, NEW size \in Nat, NEW total \in 0..(size - 1), NEW q \in Nat \ {0},
         size <= q + x, x % q = total % q
  PROVE  x >= 0
<1> SUFFICES ASSUME x < 0 PROVE FALSE
  OBVIOUS
<1>1. total \in 0..(q - 1) /\ total = q * 0 + total
  OBVIOUS
<1>2. total % q = total
  BY <1>1, DivModUnique
<1>3. x + q \in 0..(q - 1) /\ x = q * (0 - 1) + (x + q) /\ 0 - 1 \in Int
  OBVIOUS
<1>4. x % q = x + q
  BY <1>3, DivModUnique
<1>5. QED
  BY <1>2, <1>4

(* The value behind a part of a proof that verifies keeps the bound of the         *)
(* statement the proof comes with, whatever statement it was built for.            *)
LEMMA VerifiedPartKeepsBound ==
  ASSUME NEW p, p.predicate \in Predicate, VerifyRange(p),
         NEW s \in DOMAIN SubStatements(p.predicate), NEW m, StandsFor(m), m.part = p.parts[s]
  PROVE  BoundHolds(SubStatements(p.predicate)[s].label, p.predicate, m.value)
<1> DEFINE pred == p.predicate
           label == SubStatements(pred)[s].label
           n == BitsForBound(SubStatements(pred)[s].bound)
           x == ShiftedValue(pred, m.value, s)
<1>1. VerifyRangeProof(m.part, n, <<pred, label>>)
  <2>1. DOMAIN p.parts = DOMAIN SubStatements(pred)
    BY DEF VerifyRange
  <2>2. p.bits[s] = BitsOf(pred)[s] /\ VerifyRangeProof(p.parts[s], p.bits[s], <<pred, label>>)
    BY <2>1 DEF VerifyRange
  <2>3. QED
    BY <2>2, BitsOfPositive
<1>2. n \in Nat \ {0}
  BY SubStatementsTyped, BitsForBoundHolds
<1>3. PICK o \in Predicate : \E t \in DOMAIN SubStatements(o) :
        /\ m.value \in HiddenValue
        /\ m.part.commitment.g = ShiftedValue(o, m.value, t) % GroupOrder
        /\ m.part.bitProofs[0].bound.tag = <<o, SubStatements(o)[t].label>>
  BY DEF StandsFor
<1>4. PICK t \in DOMAIN SubStatements(o) :
        /\ m.value \in HiddenValue
        /\ m.part.commitment.g = ShiftedValue(o, m.value, t) % GroupOrder
        /\ m.part.bitProofs[0].bound.tag = <<o, SubStatements(o)[t].label>>
  BY <1>3
<1>5. o = pred /\ SubStatements(o)[t].label = label
  <2>1. m.part.bitProofs[0].bound.tag = <<pred, label>>
    BY <1>1, <1>2, VerifiedTag
  <2>2. QED
    BY <1>4, <2>1
<1>6. m.part.commitment.g = x % GroupOrder
  BY <1>4, <1>5 DEF ShiftedValue
<1>7. PICK total \in 0..(Pow2[n] - 1) : m.part.commitment.g = total % GroupOrder
  BY <1>1, <1>2, VerifiedCommitment
<1>8. /\ pred.min \in Int /\ pred.max \in Int /\ m.value \in Nat
      /\ GroupOrder \in Nat \ {0} /\ Pow2[n] \in Nat
  BY <1>2, <1>4, SubStatementsTyped, ZkAssumption, Pow2Step
<1>9. x \in Int
  BY <1>8 DEF ShiftedValue, Shift
<1>10. Pow2[n] <= GroupOrder + x
  BY <1>4, GroupAssumption DEF ShiftedValue
<1>11. x >= 0
  <2> HIDE DEF n, x
  <2>1. QED
    BY <1>6, <1>7, <1>8, <1>9, <1>10, NoWrap
<1>12. QED
  BY <1>8, <1>11 DEF ShiftedValue, Shift, BoundHolds

(* A bound of the statement asked follows from that of the one proved. *)
LEMMA SatisfiedBounds ==
  ASSUME NEW wanted \in Predicate, NEW proven \in Predicate, Satisfies(wanted, proven)
  PROVE  /\ DOMAIN SubStatements(wanted) = DOMAIN SubStatements(proven)
         /\ \A s \in DOMAIN SubStatements(wanted) :
              /\ SubStatements(wanted)[s].label = SubStatements(proven)[s].label
              /\ \A v \in Nat : BoundHolds(SubStatements(proven)[s].label, proven, v)
                   => BoundHolds(SubStatements(wanted)[s].label, wanted, v)
<1>1. /\ wanted.kind \in {"gte", "lte", "range"} /\ proven.kind = wanted.kind
      /\ wanted.min \in Int /\ wanted.max \in Int /\ proven.min \in Int /\ proven.max \in Int
  BY ZkAssumption DEF Satisfies
<1>2. CASE wanted.kind = "gte"
  BY <1>1, <1>2 DEF Satisfies, SubStatements, BoundHolds
<1>3. CASE wanted.kind = "lte"
  BY <1>1, <1>3 DEF Satisfies, SubStatements, BoundHolds
<1>4. CASE wanted.kind = "range"
  BY <1>1, <1>4 DEF Satisfies, SubStatements, BoundHolds
<1>5. QED
  BY <1>1, <1>2, <1>3, <1>4

LEMMA ZkInvHolds == ZkInv => RequirementHolds
<1> SUFFICES ASSUME ZkInv, NEW r \in required, r.answer = "ok", NEW pred \in r.asked
             PROVE  \E p \in Candidates(r.proofs, pred) : VerifyRange(p) /\
                      \A s \in DOMAIN SubStatements(pred) :
                        /\ CommittedIn(p.parts[s]) # {}
                        /\ \A v \in CommittedIn(p.parts[s]) :
                             BoundHolds(SubStatements(pred)[s].label, pred, v)
  BY DEF RequirementHolds
<1>1. pred \in Predicate /\ r.proofs = attached
  BY DEF ZkInv
<1>2. PICK p \in Candidates(r.proofs, pred) : VerifyRange(p)
  BY DEF ZkInv, RequireAttributeProofs
<1>3. p \in attached /\ Satisfies(pred, p.predicate)
  BY <1>1, <1>2 DEF Candidates
<1>4. Carries(p)
  BY <1>3 DEF ZkInv
<1>5. p.predicate \in Predicate /\ DOMAIN p.parts = DOMAIN SubStatements(p.predicate)
  BY <1>2, <1>4 DEF Carries, VerifyRange
<1>6. ASSUME NEW s \in DOMAIN SubStatements(pred)
      PROVE  /\ CommittedIn(p.parts[s]) # {}
             /\ \A v \in CommittedIn(p.parts[s]) : BoundHolds(SubStatements(pred)[s].label, pred, v)
  <2>1. s \in DOMAIN SubStatements(p.predicate) /\ s \in DOMAIN p.parts
    BY <1>1, <1>3, <1>5, SatisfiedBounds
  <2>2. CommittedIn(p.parts[s]) # {}
    BY <1>4, <2>1 DEF Carries
  <2>3. ASSUME NEW v \in CommittedIn(p.parts[s])
        PROVE  BoundHolds(SubStatements(pred)[s].label, pred, v)
    <3>1. PICK m \in built : m.part = p.parts[s] /\ m.value = v
      BY DEF CommittedIn
    <3>2. StandsFor(m)
      BY <3>1 DEF ZkInv
    <3>3. v \in Nat
      BY <3>1, <3>2, ZkAssumption DEF StandsFor
    <3>4. BoundHolds(SubStatements(p.predicate)[s].label, p.predicate, v)
      BY <1>2, <1>5, <2>1, <3>1, <3>2, VerifiedPartKeepsBound
    <3>5. QED
      BY <1>1, <1>3, <1>5, <3>3, <3>4, SatisfiedBounds
  <2>4. QED
    BY <2>2, <2>3
<1>7. QED
  BY <1>2, <1>6

(* Weights taken modulo the order of the group leave the sum what it is modulo it. *)
LEMMA SumsCongruent ==
  ASSUME NEW q \in Nat \ {0}, NEW n \in Nat, NEW f, NEW g, NEW s, NEW t,
         RunningSum(s, n, f), RunningSum(t, n, g),
         \A i \in 0..(n - 1) : f[i] \in Int /\ g[i] \in Int /\ Congruent(f[i], g[i], q)
  PROVE  Congruent(s[n], t[n], q)
<1> DEFINE T == {i \in Nat : i <= n => Congruent(s[i], t[i], q)}
<1>1. 0 \in T
  <2>1. s[0] = 0 /\ t[0] = 0 /\ s[0] \in Int
    BY DEF RunningSum
  <2>2. Congruent(s[0], t[0], q)
    BY <2>1, CongruentRefl
  <2>3. QED
    BY <2>2
<1>2. ASSUME NEW i \in Nat, i \in T PROVE i + 1 \in T
  <2>1. SUFFICES ASSUME i + 1 <= n PROVE Congruent(s[i + 1], t[i + 1], q)
    OBVIOUS
  <2>2. i \in 0..(n - 1) /\ i \in 0..n /\ Congruent(s[i], t[i], q)
    BY <1>2, <2>1
  <2>3. s[i + 1] = s[i] + Pow2[i] * f[i]
    BY <2>2 DEF RunningSum
  <2>4. t[i + 1] = t[i] + Pow2[i] * g[i]
    BY <2>2 DEF RunningSum
  <2>5. s[i] \in Int /\ t[i] \in Int /\ Pow2[i] \in Int /\ f[i] \in Int /\ g[i] \in Int
    BY <2>2, Pow2Step DEF RunningSum
  <2>6. Congruent(Pow2[i] * f[i], Pow2[i] * g[i], q)
    BY <2>2, <2>5, CongruentProduct
  <2>7. Pow2[i] * f[i] \in Int /\ Pow2[i] * g[i] \in Int
    BY <2>5
  <2>8. Congruent(s[i] + Pow2[i] * f[i], t[i] + Pow2[i] * g[i], q)
    BY <2>2, <2>5, <2>6, <2>7, CongruentSum
  <2>9. QED
    BY <2>3, <2>4, <2>8
<1>3. Nat \subseteq T
  <2> HIDE DEF T
  <2>1. QED
    BY <1>1, <1>2, NatSetInduction
<1>4. QED
  BY <1>3

(* A power of two has an inverse modulo the odd order of the group. *)
LEMMA Pow2Invertible ==
  ASSUME NEW n \in Nat
  PROVE  \E x \in Int : Congruent(Pow2[n] * x, 1, GroupOrder)
<1> DEFINE q == GroupOrder
           T == {i \in Nat : \E x \in Int : Congruent(Pow2[i] * x, 1, q)}
<1>1. q \in Nat \ {0} /\ q = 2 * (q \div 2) + 1 /\ q \div 2 \in Int
  BY ZkAssumption
<1>2. 0 \in T
  <2> DEFINE one == 1
  <2>1. Pow2[0] * one = one + q * 0 /\ one \in Int
    BY <1>1, Pow2Step
  <2> HIDE DEF one, q
  <2>2. Congruent(Pow2[0] * one, one, q)
    BY <2>1 DEF Congruent
  <2>3. \E x \in Int : Congruent(Pow2[0] * x, one, q)
    BY <2>1, <2>2
  <2>4. 0 \in Nat
    OBVIOUS
  <2>5. QED
    BY <2>3, <2>4, Zenon DEF one
<1>3. ASSUME NEW i \in Nat, i \in T PROVE i + 1 \in T
  <2>1. PICK x \in Int : Congruent(Pow2[i] * x, 1, q)
    BY <1>3
  <2>2. PICK k \in Int : Pow2[i] * x = 1 + q * k
    BY <2>1 DEF Congruent
  <2> DEFINE h == (q \div 2) + 1
  <2>3. h \in Int /\ 2 * h = 1 + q
    BY <1>1
  <2>4. Pow2[i + 1] = 2 * Pow2[i] /\ Pow2[i] \in Int
    BY Pow2Step
  <2> HIDE DEF h, q
  <2>5. Pow2[i + 1] * (x * h) = (2 * h) * (Pow2[i] * x)
    BY <2>3, <2>4
  <2>6. (2 * h) * (Pow2[i] * x) = (1 + q) * (1 + q * k)
    BY <2>2, <2>3
  <2>7. (1 + q) * (1 + q * k) = 1 + q * (1 + k + q * k)
    BY <1>1
  <2>8. x * h \in Int /\ 1 + k + q * k \in Int
    BY <1>1, <2>3
  <2>9. Pow2[i + 1] * (x * h) = 1 + q * (1 + k + q * k)
    BY <2>5, <2>6, <2>7
  <2>10. Congruent(Pow2[i + 1] * (x * h), 1, q)
    BY <2>8, <2>9 DEF Congruent
  <2>11. QED
    BY <2>8, <2>10
<1>4. Nat \subseteq T
  <2> HIDE DEF T
  <2>1. QED
    BY <1>2, <1>3, NatSetInduction
<1>5. QED
  BY <1>4

LEMMA ModInverseHolds ==
  ASSUME NEW n \in Nat
  PROVE  LET inv == ModInverse(Pow2[n] % GroupOrder)
         IN  inv \in Int /\ Congruent(Pow2[n] * inv, 1, GroupOrder)
<1> DEFINE q == GroupOrder
           P == Pow2[n]
           a == P % q
           Is(y) == y \in 0..(q - 1) /\ (a * y) % q = 1
<1>1. q \in Nat \ {0, 1, 2} /\ P \in Nat
  BY ZkAssumption, Pow2Step
<1>2. PICK x \in Int : Congruent(P * x, 1, q)
  BY Pow2Invertible
<1> DEFINE z == x % q
<1> HIDE DEF q, P
<1>3. Congruent(a, P, q) /\ Congruent(z, x, q) /\ a \in Int /\ z \in 0..(q - 1)
  <2>1. P \in Int /\ q \in Nat \ {0}
    BY <1>1
  <2>2. Congruent(P % q, P, q) /\ Congruent(x % q, x, q)
    BY <2>1, CongruentMod
  <2>3. P % q \in 0..(q - 1) /\ x % q \in 0..(q - 1)
    BY <2>1, DivMod
  <2>4. QED
    BY <2>1, <2>2, <2>3
<1> HIDE DEF a, z
<1>4. Congruent(a * z, P * x, q)
  <2>1. Congruent(a * z, a * x, q)
    BY <1>1, <1>3, CongruentProduct
  <2>2. Congruent(x * a, x * P, q)
    BY <1>1, <1>3, CongruentProduct
  <2>3. x * a = a * x /\ x * P = P * x /\ a * z \in Int /\ a * x \in Int /\ P * x \in Int
    BY <1>1, <1>3
  <2>4. QED
    BY <1>1, <2>1, <2>2, <2>3, CongruentTrans
<1>5. (a * z) % q = 1
  <2>1. a * z \in Int /\ P * x \in Int
    BY <1>1, <1>3
  <2>2. Congruent(a * z, 1, q)
    BY <1>1, <1>2, <1>4, <2>1, CongruentTrans
  <2>3. (a * z) % q = 1 % q
    BY <1>1, <2>1, <2>2, CongruentEqual
  <2>4. 1 % q = 1
    BY <1>1, DivModUnique
  <2>5. QED
    BY <2>3, <2>4
<1> DEFINE inv == ModInverse(a)
<1>6. inv = CHOOSE y \in 0..(q - 1) : (a * y) % q = 1
  BY DEF ModInverse, q
<1> HIDE DEF inv
<1>7. inv \in 0..(q - 1) /\ (a * inv) % q = 1
  BY <1>3, <1>5, <1>6
<1>8. Congruent(P * inv, 1, q)
  <2>1. a * inv = q * ((a * inv) \div q) + 1 /\ (a * inv) \div q \in Int
    BY <1>1, <1>3, <1>7, DivMod
  <2>2. Congruent(a * inv, 1, q)
    <3>1. a * inv = 1 + q * ((a * inv) \div q)
      BY <1>1, <1>3, <1>7, <2>1
    <3>2. QED
      BY <2>1, <3>1 DEF Congruent
  <2>3. PICK k \in Int : a = P + q * k
    BY <1>3 DEF Congruent
  <2>4. P = a + q * (0 - k) /\ 0 - k \in Int
    BY <1>1, <1>3, <2>3
  <2>5. Congruent(P, a, q)
    BY <2>4 DEF Congruent
  <2>6. Congruent(inv * P, inv * a, q)
    BY <1>1, <1>3, <1>7, <2>5, CongruentProduct
  <2>7. inv * P = P * inv /\ inv * a = a * inv /\ P * inv \in Int /\ a * inv \in Int
    BY <1>1, <1>3, <1>7
  <2>8. QED
    BY <1>1, <2>2, <2>6, <2>7, CongruentTrans
<1>9. QED
  BY <1>7, <1>8 DEF inv, a, P, q

---------------------------------------------------------------------------
(* The sum verifyRangeProof makes of the points is the value committed. *)
LEMMA WeightedBits ==
  ASSUME NEW v \in Nat, NEW n \in Nat, v < Pow2[n], NEW f,
         \A i \in 0..(n - 1) : f[i] = BitAt(v, i)
  PROVE  WeightedSum(n, f) = v % GroupOrder
<1>1. \A i \in 0..(n - 1) : f[i] \in Int
  <2>1. SUFFICES ASSUME NEW i \in 0..(n - 1) PROVE BitAt(v, i) \in Int
    OBVIOUS
  <2>2. Pow2[i] \in Nat \ {0}
    BY Pow2Step
  <2>3. v \div Pow2[i] \in Int
    BY <2>2
  <2>4. QED
    BY <2>3 DEF BitAt
<1>2. PICK s : RunningSum(s, n, f)
  BY <1>1, RunningSumExists
<1>3. QED
  BY <1>2, PartialSumIs, BitsAddUp DEF WeightedSum

(* The last blinding is the one that makes the sum of them come to r. *)
LastBlinding(n, r) ==
  ((r - WeightedSum(n - 1, [i \in 0..(n - 2) |-> Blinding(i)]))
     * ModInverse(Pow2[n - 1] % GroupOrder)) % GroupOrder

LEMMA WeightedBlindings ==
  ASSUME NEW n \in Nat \ {0}, NEW r \in Int, NEW f,
         \A i \in 0..(n - 1) :
           f[i] = (IF i = n - 1 THEN LastBlinding(n, r) ELSE Blinding(i)) % GroupOrder
  PROVE  WeightedSum(n, f) = r % GroupOrder
<1> DEFINE q == GroupOrder
           m == n - 1
           P == Pow2[m]
           inv == ModInverse(P % q)
           b == [i \in 0..(n - 2) |-> Blinding(i)]
           before == WeightedSum(m, b)
           last == LastBlinding(n, r)
<1>1. q \in Nat \ {0} /\ m \in Nat /\ P \in Int
  BY ZkAssumption, Pow2Step
<1>2. inv \in Int /\ Congruent(P * inv, 1, q)
  BY <1>1, ModInverseHolds
<1>3. \A i \in 0..(m - 1) : b[i] = i + 1 /\ b[i] \in Int
  <2>1. m - 1 = n - 2
    OBVIOUS
  <2>2. QED
    BY <2>1 DEF Blinding
<1>4. PICK t : RunningSum(t, m, b)
  BY <1>1, <1>3, RunningSumExists
<1>5. t[m] \in Int
  BY <1>1, <1>4 DEF RunningSum
<1>6. before = t[m] % q
  BY <1>1, <1>4, PartialSumIs DEF WeightedSum
<1>7. last = ((r - before) * inv) % q
  BY DEF LastBlinding
<1>8. f[m] = last % q
  <2>1. m \in 0..(n - 1) /\ m = n - 1
    BY <1>1
  <2>2. QED
    BY <2>1
<1>9. \A i \in 0..(m - 1) : f[i] = (i + 1) % q
  <2>1. SUFFICES ASSUME NEW i \in 0..(m - 1) PROVE f[i] = (i + 1) % q
    OBVIOUS
  <2>2. i \in 0..(n - 1) /\ i # n - 1
    BY <1>1
  <2>3. QED
    BY <2>2 DEF Blinding
<1> HIDE DEF q, m, P, inv, b, before, last
<1>10. before \in Int /\ last \in Int /\ f[m] \in Int
       /\ Congruent(before, t[m], q) /\ Congruent(last, (r - before) * inv, q)
       /\ Congruent(f[m], last, q)
  <2>1. before \in Int /\ Congruent(before, t[m], q)
    BY <1>1, <1>5, <1>6, CongruentMod
  <2>2. (r - before) * inv \in Int
    BY <1>2, <2>1
  <2>3. last \in Int /\ Congruent(last, (r - before) * inv, q)
    BY <1>1, <1>7, <2>2, CongruentMod
  <2>4. f[m] \in Int /\ Congruent(f[m], last, q)
    BY <1>1, <1>8, <2>3, CongruentMod
  <2>5. QED
    BY <2>1, <2>3, <2>4
<1>11. \A i \in 0..(m - 1) : f[i] \in Int /\ Congruent(f[i], b[i], q)
  <2>1. SUFFICES ASSUME NEW i \in 0..(m - 1) PROVE f[i] \in Int /\ Congruent(f[i], b[i], q)
    OBVIOUS
  <2>2. i + 1 \in Int /\ b[i] = i + 1 /\ f[i] = (i + 1) % q
    BY <1>3, <1>9
  <2>3. (i + 1) % q \in Int /\ Congruent((i + 1) % q, i + 1, q)
    BY <1>1, <2>2, CongruentMod
  <2>4. QED
    BY <2>2, <2>3
<1>12. n = m + 1 /\ m \in 0..(n - 1) /\ n \in Nat
  BY DEF m
<1>13. \A i \in 0..(n - 1) : f[i] \in Int
  BY <1>1, <1>10, <1>11, <1>12
<1>14. PICK s : RunningSum(s, n, f)
  BY <1>12, <1>13, RunningSumExists
<1>15. RunningSum([i \in 0..m |-> s[i]], m, f)
  BY <1>1, <1>12, <1>14 DEF RunningSum
<1>16. Congruent(s[m], t[m], q)
  <2> DEFINE u == [i \in 0..m |-> s[i]]
  <2>1. u[m] = s[m]
    BY <1>1
  <2> HIDE DEF u
  <2>2. Congruent(u[m], t[m], q)
    BY <1>1, <1>3, <1>4, <1>11, <1>15, SumsCongruent DEF u
  <2>3. QED
    BY <2>1, <2>2
<1>17. s[n] = s[m] + P * f[m] /\ s[m] \in Int
  BY <1>12, <1>14 DEF RunningSum, P
<1>18. Congruent(P * f[m], r - before, q)
  <2> DEFINE d == r - before
  <2>1. d \in Int
    BY <1>10
  <2>2. d * inv \in Int /\ P * (d * inv) = d * (P * inv) /\ P * inv \in Int /\ d * 1 = d
    BY <1>1, <1>2, <2>1
  <2> HIDE DEF d
  <2>3. Congruent(f[m], d * inv, q)
    BY <1>1, <1>10, <2>2, CongruentTrans DEF d
  <2>4. Congruent(P * f[m], P * (d * inv), q)
    BY <1>1, <1>10, <2>2, <2>3, CongruentProduct
  <2>5. Congruent(d * (P * inv), d * 1, q)
    <3> DEFINE one == 1
    <3>1. one \in Int /\ Congruent(P * inv, one, q)
      BY <1>2
    <3> HIDE DEF one
    <3>2. Congruent(d * (P * inv), d * one, q)
      BY <1>1, <2>1, <2>2, <3>1, CongruentProduct
    <3>3. QED
      BY <3>2 DEF one
  <2>6. P * f[m] \in Int /\ P * (d * inv) \in Int
    BY <1>1, <1>10, <2>2
  <2>7. Congruent(P * f[m], d, q)
    BY <1>1, <2>1, <2>2, <2>4, <2>5, <2>6, CongruentTrans
  <2>8. QED
    BY <2>7 DEF d
<1>19. Congruent(s[n], r, q)
  <2>1. PICK k \in Int : s[m] = t[m] + q * k
    BY <1>16 DEF Congruent
  <2>2. PICK j \in Int : before = t[m] + q * j
    BY <1>10 DEF Congruent
  <2>3. PICK l \in Int : P * f[m] = (r - before) + q * l
    BY <1>18 DEF Congruent
  <2>4. s[n] = r + q * ((k - j) + l) /\ (k - j) + l \in Int
    BY <1>1, <1>5, <1>10, <1>17, <2>1, <2>2, <2>3
  <2>5. QED
    BY <2>4 DEF Congruent
<1>20. s[n] \in Int
  BY <1>12, <1>14 DEF RunningSum
<1>21. s[n] % q = r % q
  BY <1>1, <1>19, <1>20, CongruentEqual
<1>22. PartialSum(n, f) = s[n]
  BY <1>12, <1>14, PartialSumIs
<1>23. QED
  BY <1>21, <1>22 DEF WeightedSum, q

LEMMA BuiltProofVerifies ==
  ASSUME NEW v \in Nat, NEW n \in Nat \ {0}, v < Pow2[n], NEW tag
  PROVE  VerifyRangeProof(BuildRangeProof(v, n, tag), n, tag)
<1> DEFINE part == BuildRangeProof(v, n, tag)
           r == Blinding(n)
           blinding(i) == IF i = n - 1 THEN LastBlinding(n, r) ELSE Blinding(i)
           gs == [i \in 0..(n - 1) |-> part.bitCommitments[i].g]
           hs == [i \in 0..(n - 1) |-> part.bitCommitments[i].h]
<1>1. /\ part.commitment = PedersenCommit(v, r)
      /\ part.bitCommitments = [i \in 0..(n - 1) |-> PedersenCommit(BitAt(v, i), blinding(i))]
      /\ part.bitProofs = [i \in 0..(n - 1) |->
           ProveBit(part.bitCommitments[i], [tag |-> tag, commitment |-> part.commitment,
                                             all |-> part.bitCommitments, bit |-> i])]
  BY Zenon DEF BuildRangeProof, BitAt, LastBlinding
<1> HIDE DEF part
<1>2. \A i \in 0..(n - 1) : BitAt(v, i) \in {0, 1} /\ BitAt(v, i) % GroupOrder = BitAt(v, i)
  <2>1. SUFFICES ASSUME NEW i \in 0..(n - 1)
                 PROVE  BitAt(v, i) \in {0, 1} /\ BitAt(v, i) % GroupOrder = BitAt(v, i)
    OBVIOUS
  <2>2. Pow2[i] \in Nat \ {0}
    BY Pow2Step
  <2>3. v \div Pow2[i] \in Int
    BY <2>2
  <2>4. BitAt(v, i) \in {0, 1}
    BY <2>3 DEF BitAt
  <2>5. GroupOrder \in Nat \ {0, 1, 2}
    BY ZkAssumption
  <2>6. BitAt(v, i) \in 0..(GroupOrder - 1) /\ BitAt(v, i) = GroupOrder * 0 + BitAt(v, i)
    BY <2>4, <2>5
  <2>7. QED
    BY <2>4, <2>5, <2>6, DivModUnique
<1>3. \A i \in 0..(n - 1) : gs[i] = BitAt(v, i) /\ hs[i] = blinding(i) % GroupOrder
  <2> HIDE DEF blinding
  <2>1. QED
    BY <1>1, <1>2 DEF PedersenCommit
<1>4. WeightedSum(n, gs) = v % GroupOrder
  <2> HIDE DEF gs
  <2>1. QED
    BY <1>3, WeightedBits
<1>5. WeightedSum(n, hs) = r % GroupOrder
  <2>1. r \in Int
    BY DEF Blinding
  <2>2. \A i \in 0..(n - 1) :
          hs[i] = (IF i = n - 1 THEN LastBlinding(n, r) ELSE Blinding(i)) % GroupOrder
    BY <1>3
  <2> HIDE DEF hs, r
  <2>3. QED
    BY <2>1, <2>2, WeightedBlindings
<1>6. part.commitment = [g |-> WeightedSum(n, gs), h |-> WeightedSum(n, hs)]
  <2> HIDE DEF gs, hs, r
  <2>1. QED
    BY <1>1, <1>4, <1>5 DEF PedersenCommit
<1>7. ASSUME NEW i \in 0..(n - 1)
      PROVE  VerifyBit(part.bitCommitments[i], part.bitProofs[i],
                       [tag |-> tag, commitment |-> part.commitment, all |-> part.bitCommitments,
                        bit |-> i])
  <2>1. part.bitCommitments[i].g \in {0, 1}
    BY <1>2, <1>3
  <2> HIDE DEF blinding, r, gs, hs
  <2>2. part.bitProofs[i] =
          ProveBit(part.bitCommitments[i], [tag |-> tag, commitment |-> part.commitment,
                                            all |-> part.bitCommitments, bit |-> i])
    BY <1>1, Zenon
  <2>3. QED
    BY <2>1, <2>2 DEF VerifyBit
<1>8. DOMAIN part.bitCommitments = 0..(n - 1)
  <2> HIDE DEF blinding
  <2>1. QED
    BY <1>1
<1>9. VerifyRangeProof(part, n, tag)
  BY <1>6, <1>7, <1>8 DEF VerifyRangeProof
<1>10. QED
  BY <1>9 DEF part

(* verifyRange accepts what proveRange built. *)
LEMMA OwnProofVerifies ==
  ASSUME NEW pred \in Predicate, NEW v \in Nat, NEW q \in ProveRange(pred, v)
  PROVE  VerifyRange(q)
<1> DEFINE subs == SubStatements(pred)
<1>1. PICK shifted :
        /\ q = Packed(pred, shifted, BitsOf(pred))
        /\ DOMAIN shifted = DOMAIN subs
        /\ \A s \in DOMAIN shifted : shifted[s] = ShiftedValue(pred, v, s)
  BY ProvenIsPacked
<1>2. /\ q.predicate = pred /\ q.bits = BitsOf(pred) /\ q.readable
      /\ DOMAIN q.parts = DOMAIN subs
      /\ \A s \in DOMAIN subs :
           q.parts[s] = BuildRangeProof(shifted[s], BitsOf(pred)[s], <<pred, subs[s].label>>)
  BY <1>1, PackedIs
<1>3. ASSUME NEW s \in DOMAIN subs
      PROVE  VerifyRangeProof(q.parts[s], q.bits[s], <<pred, subs[s].label>>)
  <2> DEFINE n == BitsForBound(subs[s].bound)
             value == ShiftedValue(pred, v, s)
  <2>1. n \in Nat \ {0} /\ Pow2[n] \in Nat
    BY SubStatementsTyped, BitsForBoundHolds, Pow2Step
  <2>2. value \in 0..(Pow2[n] - 1)
    BY ProvenShifts
  <2>3. q.bits[s] = n /\ q.parts[s] = BuildRangeProof(value, n, <<pred, subs[s].label>>)
    BY <1>1, <1>2, BitsOfPositive
  <2> HIDE DEF n, value, subs
  <2>4. VerifyRangeProof(BuildRangeProof(value, n, <<pred, subs[s].label>>), n,
                         <<pred, subs[s].label>>)
    BY <2>1, <2>2, BuiltProofVerifies
  <2>5. QED
    BY <2>3, <2>4
<1>4. QED
  BY <1>2, <1>3 DEF VerifyRange

(* What cannot be proved is false, or further above the floor than the default    *)
(* number of bits reaches.                                                         *)
LEMMA RefusedUnreached ==
  ASSUME NEW pred \in Predicate, NEW v \in Nat, ProveRange(pred, v) = {}, Holds(pred, v)
  PROVE  ~Reached(pred, v)
<1>1. PICK s \in DOMAIN SubStatements(pred) :
        ShiftedValue(pred, v, s) \notin
          0..(Pow2[BitsForBound(SubStatements(pred)[s].bound)] - 1)
  BY ProvenShifts
<1>2. pred.kind \in {"gte", "lte", "range"} /\ pred.min \in Int /\ pred.max \in Int
  BY ZkAssumption
<1> DEFINE bound == SubStatements(pred)[s].bound
           value == ShiftedValue(pred, v, s)
<1>3. /\ bound \in Int /\ bound < Pow2[BitsForBound(bound)]
      /\ Pow2[DefaultRangeBits] <= Pow2[BitsForBound(bound)]
      /\ Pow2[BitsForBound(bound)] \in Nat /\ Pow2[DefaultRangeBits] \in Nat
  BY SubStatementsTyped, BitsForBoundHolds, Pow2Step, ZkAssumption
<1>4. CASE pred.kind = "gte"
  <2>1. s = 1 /\ SubStatements(pred)[1].label = "gte" /\ 1 \in DOMAIN SubStatements(pred)
    BY <1>4 DEF SubStatements
  <2>2. value = v - pred.min
    BY <2>1 DEF ShiftedValue, Shift
  <2>3. v >= pred.min
    BY <2>1 DEF Holds, BoundHolds
  <2> HIDE DEF bound, value
  <2>4. ~(value < Pow2[BitsForBound(bound)])
    BY <1>1, <1>2, <1>3, <2>2, <2>3 DEF bound, value
  <2>5. QED
    BY <1>2, <1>3, <1>4, <2>2, <2>4 DEF Reached
<1>5. CASE pred.kind = "lte"
  <2>1. /\ s = 1 /\ 1 \in DOMAIN SubStatements(pred)
        /\ SubStatements(pred)[1].label = "lte" /\ SubStatements(pred)[1].bound = pred.max
    BY <1>5 DEF SubStatements
  <2>2. value = pred.max - v /\ bound = pred.max
    BY <2>1 DEF ShiftedValue, Shift
  <2>3. v <= pred.max
    BY <2>1 DEF Holds, BoundHolds
  <2>4. value \in 0..(Pow2[BitsForBound(bound)] - 1)
    <3> HIDE DEF bound, value
    <3>1. QED
      BY <1>2, <1>3, <2>2, <2>3
  <2>5. QED
    BY <1>1, <2>4
<1>6. CASE pred.kind = "range"
  <2>2. /\ s \in {1, 2} /\ 1 \in DOMAIN SubStatements(pred) /\ 2 \in DOMAIN SubStatements(pred)
        /\ SubStatements(pred)[1].label = "rlo" /\ SubStatements(pred)[2].label = "rhi"
        /\ bound = IF pred.max < pred.min THEN 0 ELSE pred.max - pred.min
    BY <1>6 DEF SubStatements
  <2>1. pred.min <= v /\ v <= pred.max
    BY <1>2, <2>2 DEF Holds, BoundHolds
  <2>3. value \in {v - pred.min, pred.max - v} /\ bound = pred.max - pred.min
    BY <1>2, <2>1, <2>2 DEF ShiftedValue, Shift
  <2>4. value \in 0..(Pow2[BitsForBound(bound)] - 1)
    <3> HIDE DEF bound, value
    <3>1. QED
      BY <1>2, <1>3, <2>1, <2>3
  <2>5. QED
    BY <1>1, <2>4
<1>7. QED
  BY <1>2, <1>4, <1>5, <1>6

LEMMA ZkInvProves == ZkInv => TrueStatementIsProved
<1> SUFFICES ASSUME ZkInv PROVE TrueStatementIsProved
  OBVIOUS
<1>1. HiddenValue \subseteq Nat
  BY ZkAssumption
<1>2. \A f \in failed : Holds(f.predicate, f.value) => ~Reached(f.predicate, f.value)
  BY <1>1, RefusedUnreached DEF ZkInv
<1>3. ASSUME NEW r \in required, r.asked \subseteq {p.predicate : p \in OwnProofs(r.proofs)}
      PROVE  r.answer # "missing"
  <2>1. SUFFICES ASSUME NEW pred \in r.asked
                 PROVE  \E p \in Candidates(r.proofs, pred) : VerifyRange(p)
    BY DEF ZkInv, RequireAttributeProofs
  <2>2. PICK p \in OwnProofs(r.proofs) : p.predicate = pred
    BY <1>3
  <2>3. pred \in Predicate /\ p \in r.proofs
    BY <2>2 DEF ZkInv, OwnProofs
  <2>4. PICK v \in HiddenValue : p \in ProveRange(pred, v)
    BY <2>2 DEF OwnProofs
  <2>5. VerifyRange(p)
    BY <1>1, <2>3, <2>4, OwnProofVerifies
  <2>6. Satisfies(pred, pred)
    BY <2>3, ZkAssumption DEF Satisfies
  <2>7. QED
    BY <2>2, <2>3, <2>5, <2>6 DEF Candidates
<1>4. QED
  BY <1>2, <1>3 DEF TrueStatementIsProved

(* Whatever values an agent commits to and however many bits it takes, whatever    *)
(* is relabelled and recombined: behind each bound of a statement that passes a     *)
(* verifier's requirements stands a committed value that keeps this bound.          *)
THEOREM RequiredStatementsHold == DocumentsSpec => []RequirementHolds
<1>1. DocumentsInit => ZkInv
  BY ZkInitSound DEF DocumentsInit
<1>2. ZkInv /\ [DocumentsNext]_<<duty, Parts>> => ZkInv'
  BY ZkStepSound DEF DocumentsNext, Parts, zk
<1>3. QED
  BY <1>1, <1>2, ZkInvHolds, PTL DEF DocumentsSpec

(* A statement true of the value and within the default number of bits of its      *)
(* floor is proved, and the proof accepted: the weighted commitments to the bits    *)
(* come to the commitment to the value, blindings included.                         *)
THEOREM TrueStatementsAreProved == DocumentsSpec => []TrueStatementIsProved
<1>1. DocumentsInit => ZkInv
  BY ZkInitSound DEF DocumentsInit
<1>2. ZkInv /\ [DocumentsNext]_<<duty, Parts>> => ZkInv'
  BY ZkStepSound DEF DocumentsNext, Parts, zk
<1>3. QED
  BY <1>1, <1>2, ZkInvProves, PTL DEF DocumentsSpec
=============================================================================
