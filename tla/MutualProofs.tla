---------------------------- MODULE MutualProofs ----------------------------
(***************************************************************************)
(* Theorems about Mutual, for any number of exchanges between any agents:   *)
(* what Counterparty guarantees of one call holds of both legs, and mutual  *)
(* verification implements MutualConsent.                                   *)
(***************************************************************************)
EXTENDS Mutual, CounterpartyProofs

(* A step of a leg, of its agent or of its surroundings is a step of           *)
(* Counterparty; it takes no verdict back and begins no call.                  *)
LEMMA LegStepKeeps ==
  ASSUME IInv, LegStep
  PROVE  /\ IInv'
         /\ \A s \in Session : /\ pc[s] = "settled" => pc'[s] = "settled"
                               /\ pc[s] = "idle" => pc'[s] = "idle"
         /\ (\E s \in Session : pc[s] \in Open /\ \A t \in Session \ {s} : pc'[t] = pc[t])
            \/ pc' = pc
<1>1. IInv'
  BY StepSound DEF LegStep, Next
<1>2. \/ \E s \in Session : FetchSettles(s)
      \/ UNCHANGED pc
  BY DEF LegStep, AgentNext, StartReferenceAgent, Stop, Rotate, ServeDisclosure, Respond,
         Revoke, LoadRevocationOracle, Tick, call
<1>3. ASSUME NEW s \in Session, FetchSettles(s)
      PROVE  pc[s] \in Open /\ \A t \in Session \ {s} : pc'[t] = pc[t]
  BY <1>3 DEF FetchSettles, FailToParse, ThrowOnPayload, Evaluate, Conclude, FetchFails, Open,
              IInv, TypeOK
<1>4. QED
  BY <1>1, <1>2, <1>3 DEF Open

LEMMA MutualInitSound == MutualInit => MutualInv
<1> SUFFICES ASSUME MutualInit PROVE MutualInv
  OBVIOUS
<1>1. IInv
  BY InitSound DEF MutualInit
<1>2. MutualTypeOK /\ LegsWait /\ NeverOneSided
  BY <1>1, MutualAssumption DEF MutualInit, Init, IInv, MutualTypeOK, LegsWait, Legs, NeverOneSided
<1>3. QED
  BY <1>1, <1>2 DEF MutualInv

(* A settled leg whose answer is in stays so: NeverOneSided follows from IInv   *)
(* once every leg of a transacted exchange is settled.                         *)
TransactedLegsSettled ==
  \A x \in Exchange : exchange[x] = "transact" => \A s \in Legs(x) : pc[s] = "settled"

LEMMA SettledLegsAreLive ==
  ASSUME IInv, TransactedLegsSettled, \A x \in Exchange : Legs(x) \subseteq Session
  PROVE  NeverOneSided
BY DEF IInv, TransactedLegsSettled, PaidOnlyIfLive, NeverOneSided

LEMMA LegsAreSessions == \A x \in Exchange : Legs(x) \subseteq Session
BY MutualAssumption DEF Legs

SInv == IInv /\ MutualTypeOK /\ LegsWait /\ TransactedLegsSettled

LEMMA MutualStepSound == SInv /\ [MutualNext]_mutualVars => SInv'
<1> SUFFICES ASSUME SInv, [MutualNext]_mutualVars PROVE SInv'
  OBVIOUS
<1> USE DEF SInv
<1>1. CASE UNCHANGED mutualVars
  <2>1. IInv'
    BY <1>1, StepSound DEF mutualVars
  <2>2. pc' = pc /\ exchange' = exchange
    BY <1>1 DEF mutualVars, vars, call
  <2>3. QED
    BY <2>1, <2>2 DEF MutualTypeOK, LegsWait, TransactedLegsSettled, IInv
<1>2. CASE LegStep
  <2>1. IInv' /\ exchange' = exchange
    BY <1>2, LegStepKeeps DEF LegStep
  <2>2. LegsWait' /\ TransactedLegsSettled'
    BY <1>2, <2>1, LegStepKeeps, LegsAreSessions DEF LegsWait, TransactedLegsSettled
  <2>3. QED
    BY <2>1, <2>2 DEF MutualTypeOK, IInv
<1>3. ASSUME NEW x \in Exchange, MutualVerify(x) PROVE SInv'
  <2>1. IInv'
    BY <1>3, BeginStep, LegsAreSessions DEF MutualVerify
  <2>2. /\ exchange' = [exchange EXCEPT ![x] = "pending"]
        /\ \A s \in Session : pc'[s] = IF s \in Legs(x) THEN "fetching" ELSE pc[s]
        /\ \A s \in Legs(x) : pc[s] = "idle"
    BY <1>3 DEF MutualVerify, Begin
  <2>3. \A y \in Exchange \ {x} : Legs(x) \cap Legs(y) = {}
    BY MutualAssumption DEF Legs
  <2>4. MutualTypeOK'
    BY <2>1, <2>2 DEF MutualTypeOK, IInv
  <2>5. LegsWait'
    BY <2>2, <2>3, LegsAreSessions DEF LegsWait, MutualTypeOK
  <2>6. TransactedLegsSettled'
    BY <2>2, <2>3, LegsAreSessions DEF TransactedLegsSettled, MutualTypeOK
  <2>7. QED
    BY <2>1, <2>4, <2>5, <2>6
<1>4. ASSUME NEW x \in Exchange, BothFulfilled(x) \/ OneRejected(x) PROVE SInv'
  <2>1. PICK how \in {"transact", "refuse", "rejected"} :
          /\ exchange' = [exchange EXCEPT ![x] = how]
          /\ how = "transact" => \A s \in Legs(x) : pc[s] = "settled"
    BY <1>4 DEF BothFulfilled, OneRejected, Combine
  <2>2. UNCHANGED vars
    BY <1>4 DEF BothFulfilled, OneRejected
  <2>3. IInv'
    BY <2>2, StepSound
  <2>4. pc' = pc
    BY <2>2 DEF vars, call
  <2>5. MutualTypeOK' /\ LegsWait' /\ TransactedLegsSettled'
    BY <2>1, <2>3, <2>4 DEF MutualTypeOK, LegsWait, TransactedLegsSettled, IInv
  <2>6. QED
    BY <2>3, <2>5
<1>5. QED
  BY <1>1, <1>2, <1>3, <1>4 DEF MutualNext

LEMMA MutualInvariant == MutualSpec => []SInv
<1>1. MutualInit => SInv
  BY MutualInitSound DEF MutualInv, SInv, MutualInit, TransactedLegsSettled
<1>2. QED
  BY <1>1, MutualStepSound, PTL DEF MutualSpec

(* An exchange goes through only between two agents that were both live in it. *)
THEOREM BothSidesLive == MutualSpec => []NeverOneSided
<1>1. SInv => NeverOneSided
  BY SettledLegsAreLive, LegsAreSessions DEF SInv
<1>2. QED
  BY <1>1, MutualInvariant, PTL

---------------------------------------------------------------------------
LEMMA MutualInitMaps == MutualInit => Promise!Init
BY LegsAreSessions DEF MutualInit, Init, Promise!Init, Outcome, Consent, Legs

LEMMA MutualStepMaps ==
  ASSUME SInv, [MutualNext]_mutualVars
  PROVE  [Promise!Next]_(Promise!vars)
<1> DEFINE outcome == [x \in Exchange |-> Outcome(x)]
           consent == [x \in Exchange |-> Consent(x)]
<1> USE DEF SInv
<1>1. CASE UNCHANGED mutualVars
  <2>1. pc' = pc /\ exchange' = exchange
    BY <1>1 DEF mutualVars, vars, call
  <2>2. QED
    BY <2>1 DEF Promise!vars, Outcome, Consent
<1>2. CASE LegStep
  <2>1. outcome' = outcome
    BY <1>2 DEF LegStep, Outcome
  <2>2. CASE consent' = consent
    BY <2>1, <2>2 DEF Promise!vars
  <2>3. CASE consent' # consent
    <3>1. PICK x \in Exchange : Consent(x)' # Consent(x)
      BY <2>3
    <3>2. PICK i \in Side : (pc'[Leg[x][i]] = "settled") # (pc[Leg[x][i]] = "settled")
      BY <3>1 DEF Consent
    <3> DEFINE s == Leg[x][i]
    <3>3. s \in Session
      BY MutualAssumption
    <3>4. pc'[s] = "settled" /\ pc[s] \in Open /\ \A t \in Session \ {s} : pc'[t] = pc[t]
      BY <1>2, <3>2, <3>3, LegStepKeeps DEF Open
    <3>5. \A y \in Exchange : \A j \in Side : (y # x \/ j # i) => pc'[Leg[y][j]] = pc[Leg[y][j]]
      BY <3>4, MutualAssumption
    <3>6. Consent(x)' = Consent(x) \cup {i}
      BY <3>4, <3>5 DEF Consent
    <3>7. \A y \in Exchange \ {x} : Consent(y)' = Consent(y)
      BY <3>5 DEF Consent
    <3>8. consent' = [consent EXCEPT ![x] = @ \cup {i}]
      BY <3>6, <3>7
    <3>9. outcome[x] # "idle"
      BY <3>4 DEF LegsWait, Legs, Open, Outcome
    <3>10. Promise!Agree(x, i)
      BY <2>1, <3>8, <3>9 DEF Promise!Agree
    <3>11. QED
      BY <3>10 DEF Promise!Next, Side
  <2>4. QED
    BY <2>2, <2>3
<1>3. ASSUME NEW x \in Exchange, MutualVerify(x) PROVE Promise!Next
  <2>1. outcome[x] = "idle" /\ outcome' = [outcome EXCEPT ![x] = "pending"]
    BY <1>3 DEF MutualVerify, Outcome, MutualTypeOK
  <2>2. \A s \in Session : (pc'[s] = "settled") = (pc[s] = "settled")
    BY <1>3, LegsAreSessions DEF MutualVerify, Begin
  <2>3. consent' = consent
    BY <2>2, MutualAssumption DEF Consent
  <2>4. QED
    BY <2>1, <2>3 DEF Promise!Next, Promise!Begin
<1>4. ASSUME NEW x \in Exchange, BothFulfilled(x) \/ OneRejected(x) PROVE Promise!Next
  <2>1. exchange[x] = "pending" /\ pc' = pc
    BY <1>4 DEF BothFulfilled, OneRejected, vars, call
  <2>2. consent' = consent /\ outcome[x] = "pending"
    BY <2>1 DEF Consent, Outcome
  <2>3. PICK how \in {"transact", "refuse", "rejected"} :
          /\ exchange' = [exchange EXCEPT ![x] = how]
          /\ how = "transact" => \A s \in Legs(x) : pc[s] = "settled"
    BY <1>4 DEF BothFulfilled, OneRejected, Combine
  <2>4. CASE how = "transact"
    <3>1. consent[x] = Side
      BY <2>3, <2>4 DEF Consent, Legs
    <3>2. outcome' = [outcome EXCEPT ![x] = "transact"]
      BY <2>3, <2>4 DEF Outcome, MutualTypeOK
    <3>3. QED
      BY <2>2, <3>1, <3>2 DEF Promise!Next, Promise!Deal
  <2>5. CASE how # "transact"
    <3>1. outcome' = [outcome EXCEPT ![x] = "none"]
      BY <2>3, <2>5 DEF Outcome, MutualTypeOK
    <3>2. QED
      BY <2>2, <3>1 DEF Promise!Next, Promise!NoDeal
  <2>6. QED
    BY <2>4, <2>5
<1>5. QED
  BY <1>1, <1>2, <1>3, <1>4 DEF MutualNext

(* An exchange is decided once, and goes through only if the verdicts of both  *)
(* legs say so.                                                                *)
THEOREM MutualImplementsConsent == MutualSpec => ImplementsMutualConsent
<1>1. MutualInit => Promise!Init
  BY MutualInitMaps
<1>2. SInv /\ [MutualNext]_mutualVars => [Promise!Next]_(Promise!vars)
  BY MutualStepMaps
<1>3. QED
  BY <1>1, <1>2, MutualInvariant, PTL DEF MutualSpec, ImplementsMutualConsent, Promise!Spec
=============================================================================
