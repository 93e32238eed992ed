------------------------- MODULE CounterpartyProofs -------------------------
(***************************************************************************)
(* Theorems about Counterparty, for any number of payees, calls and keys,  *)
(* any drift, skew, window and policy.                                     *)
(*                                                                         *)
(* Safety rests on IInv: what is held, asked and answered is ordered by     *)
(* time and by the nonce of the call.  That a fit payee is not refused rests *)
(* on FairInv, which follows a call for as long as nothing disturbs it.     *)
(***************************************************************************)
EXTENDS Counterparty, TLAPS

(* A disclosure that fails no check is fresh and not revoked, whatever else  *)
(* the policy asks for.                                                      *)
LEMMA EvaluateClean ==
  ASSUME NEW d, NEW at, NEW isRevoked,
         EvaluateDisclosure(d, PayPolicy, at, isRevoked) = {}
  PROVE  IsFresh(d.disclosure, at) /\ Ids(d.disclosure) \cap isRevoked = {}
<1> DEFINE run == ChecksRun(d.disclosure.claims, PayPolicy)
<1>1. "freshness" \in run /\ "revocation" \in run
  BY PolicyAssumption DEF ChecksRun
<1>2. \A check \in run : CheckPasses(check, d, PayPolicy, at, isRevoked)
  BY DEF EvaluateDisclosure
<1>3. CheckPasses("freshness", d, PayPolicy, at, isRevoked)
      /\ CheckPasses("revocation", d, PayPolicy, at, isRevoked)
  BY <1>1, <1>2
<1>4. QED
  BY <1>3 DEF CheckPasses, Ids

(* A step that leaves the calls, the challenges and the answers alone. *)
LEMMA CallFrame ==
  ASSUME UNCHANGED <<call, asked, answered>>,
         AskedByItsCall, AnswersItsCall, ClearedByEvaluation, PaidOnlyIfLive
  PROVE  AskedByItsCall' /\ AnswersItsCall' /\ ClearedByEvaluation' /\ PaidOnlyIfLive'
<1> USE DEF call
<1>1. AskedByItsCall'
  BY DEF AskedByItsCall, Challenged
<1>2. AnswersItsCall'
  BY DEF AnswersItsCall, Challenged, AnswerAfterCall
<1>3. ClearedByEvaluation'
  BY DEF ClearedByEvaluation, Cleared
<1>4. PaidOnlyIfLive'
  BY DEF PaidOnlyIfLive, AnsweredLive, Responses, RandomNonce
<1>5. QED
  BY <1>1, <1>2, <1>3, <1>4

(* What a host that mints at its clock holds. *)
LEMMA HostIsSound ==
  ASSUME TypeOK, NEW a \in Agent, NEW profile, NEW agentId, NEW key, NEW chain
  PROVE  /\ Clock(a) \in Nat
         /\ Host(a, profile, agentId, key, Clock(a), chain).key = key
         /\ Host(a, profile, agentId, key, Clock(a), chain).signed.publicKey = key
         /\ Host(a, profile, agentId, key, Clock(a), chain).signed.disclosure.issuedAt = Clock(a)
         /\ Host(a, profile, agentId, key, Clock(a), chain).signed.disclosure.validUntil \in Nat
BY CounterpartyAssumption DEF TypeOK, Clock, Host, SignDisclosure, MintDisclosure

LEMMA InitSound == Init => IInv
<1> SUFFICES ASSUME Init PROVE IInv
  OBVIOUS
<1> USE CounterpartyAssumption DEF Init
<1>1. TypeOK
  BY DEF TypeOK, Open, Ended
<1>2. Causal
  BY DEF Causal
<1>3. AskedByItsCall /\ AnswersItsCall
  BY DEF AskedByItsCall, AnswersItsCall
<1>4. ClearedByEvaluation /\ PaidOnlyIfLive
  BY DEF ClearedByEvaluation, PaidOnlyIfLive
<1>5. QED
  BY <1>1, <1>2, <1>3, <1>4 DEF IInv

---------------------------------------------------------------------------
(* One lemma per group of actions that disturb the same conjuncts. *)

(* A boot or a rotation: a new host, a new key, the calls as they were. *)
LEMMA HostStep ==
  ASSUME IInv, NEW a \in Agent, StartReferenceAgent(a) \/ Stop(a) \/ Rotate(a)
  PROVE  IInv'
<1> USE DEF IInv
<1>1. UNCHANGED <<now, served, asked, answered, revoked, oracle, call>> /\ disturbed' \subseteq Session
  BY DEF StartReferenceAgent, Stop, Rotate, Disturb, transport, TypeOK
<1>2. minted \subseteq minted' /\ minted' \subseteq Key
  BY CounterpartyAssumption DEF StartReferenceAgent, Stop, Rotate, TypeOK
<1>3. /\ DOMAIN hosts' = Agent
      /\ \A b \in Agent \ {a} : hosts'[b] = hosts[b]
      /\ \A h \in hosts'[a] : /\ h.key \in minted' /\ h.signed.publicKey \in minted'
                              /\ h.signed.disclosure.issuedAt = Clock(a)
                              /\ h.signed.disclosure.validUntil \in Nat
  <2>1. CASE Stop(a)
    BY <2>1 DEF Stop, TypeOK
  <2>2. CASE StartReferenceAgent(a)
    BY <2>2, HostIsSound DEF StartReferenceAgent, TypeOK
  <2>3. CASE Rotate(a)
    BY <2>3, HostIsSound DEF Rotate, TypeOK
  <2>4. QED
    BY <2>1, <2>2, <2>3
<1>4. Clock(a) \in Nat
  BY HostIsSound
<1>5. TypeOK'
  BY <1>1, <1>2, <1>3, <1>4 DEF TypeOK, EnvelopeOK, call
<1>6. Causal'
  BY <1>1, <1>3, <1>4 DEF Causal, TypeOK, IssuedInPast, Clock, call
<1>7. QED
  BY <1>1, <1>5, <1>6, CallFrame

(* Serving, revoking, loading the oracle, and time. *)
LEMMA SurroundingStep ==
  ASSUME IInv,
         \/ \E a \in Agent : ServeDisclosure(a) \/ Revoke(a)
         \/ LoadRevocationOracle
         \/ Tick
         \/ UNCHANGED vars
  PROVE  IInv'
<1> USE DEF IInv
<1>1. UNCHANGED <<minted, hosts, asked, answered, call, disturbed>>
  BY DEF ServeDisclosure, Revoke, LoadRevocationOracle, Tick, vars, environment, transport
<1>2. /\ now \in Nat /\ now' \in {now, now + 1}
      /\ oracle \subseteq oracle' /\ oracle' \subseteq revoked'
  BY DEF ServeDisclosure, Revoke, LoadRevocationOracle, Tick, vars, environment, TypeOK
<1>3. \A m \in served' :
        m \in served \/ \E a \in Agent : \E h \in hosts[a] : m = [url |-> a, signed |-> h.signed]
  BY DEF ServeDisclosure, Revoke, LoadRevocationOracle, Tick, vars, transport
<1>4. TypeOK'
  BY <1>1, <1>2, <1>3 DEF TypeOK, EnvelopeOK, call
<1>5. Causal'
  <2>1. \A a \in Agent : Drift[a] \in Nat /\ Clock(a) <= Clock(a)'
    BY <1>2, CounterpartyAssumption DEF Clock
  <2>2. \A d : \A a \in Agent : EnvelopeOK(d) /\ IssuedInPast(d, a) => IssuedInPast(d, a)'
    BY <1>2, <2>1, CounterpartyAssumption DEF IssuedInPast, Clock, EnvelopeOK
  <2>3. QED
    BY <1>1, <1>2, <1>3, <2>2, CounterpartyAssumption DEF Causal, TypeOK, call
<1>6. QED
  BY <1>1, <1>4, <1>5, CallFrame

(* An answer is younger than the call that asked for it. *)
LEMMA RespondStep ==
  ASSUME IInv, NEW a \in Agent, Respond(a)
  PROVE  IInv'
<1> USE DEF IInv
<1>1. UNCHANGED <<environment, served, asked, call, disturbed>>
  BY DEF Respond
<1>2. PICK h \in hosts[a], m \in asked :
        /\ m.url = a
        /\ answered' = answered \cup
             {[url |-> a,
               response |-> RespondToChallenge(m.challenge, h.key,
                              h.signed.disclosure.auditAnchor, Clock(a), {})]}
  BY DEF Respond
<1> DEFINE s == m.challenge.nonce
           r == RespondToChallenge(m.challenge, h.key, h.signed.disclosure.auditAnchor, Clock(a), {})
<1>3. r.nonce = s /\ r.agentId = h.key /\ r.signedAt = Clock(a)
  BY DEF RespondToChallenge
<1>4. s \in Session /\ h.key \in minted /\ Challenged(s) /\ Payee[s] = a
  BY <1>2 DEF TypeOK, ChallengeType, AskedByItsCall
<1>5. AnswerAfterCall(r, s)
  BY <1>3, <1>4, CounterpartyAssumption DEF AnswerAfterCall, Causal, IssuedInPast, Clock, TypeOK
<1>6. TypeOK'
  <2>1. \A x \in answered' : x.url \in Agent /\ x.response.nonce \in Session
                            /\ x.response.agentId \in minted /\ x.response.signedAt \in Nat
    <3>1. Clock(a) \in Nat /\ h.key \in minted /\ s \in Session
      BY <1>4, CounterpartyAssumption DEF Clock, TypeOK
    <3>2. answered' = answered \cup {[url |-> a, response |-> r]}
      BY <1>2
    <3> HIDE DEF r, s
    <3>3. QED
      BY <1>3, <3>1, <3>2 DEF TypeOK
  <2>2. QED
    BY <1>1, <2>1 DEF TypeOK, EnvelopeOK, environment, call
<1>7. Causal'
  BY <1>1 DEF Causal, IssuedInPast, Clock, environment, call
<1>8. AnswersItsCall'
  BY <1>1, <1>2, <1>3, <1>4, <1>5 DEF AnswersItsCall, AnswerAfterCall, Challenged, call
<1>9. AskedByItsCall' /\ ClearedByEvaluation'
  BY <1>1 DEF AskedByItsCall, Challenged, ClearedByEvaluation, Cleared, call
<1>10. PaidOnlyIfLive'
  BY <1>1, <1>2 DEF PaidOnlyIfLive, AnsweredLive, Responses, call
<1>11. QED
  BY <1>6, <1>7, <1>8, <1>9, <1>10

(* The call begins, or ends without having evaluated anything new. *)
LEMMA BeginStep ==
  ASSUME IInv, NEW S \in SUBSET Session, Begin(S)
  PROVE  IInv'
<1> USE DEF IInv, Begin
<1>1. UNCHANGED <<environment, transport, signed, reasons, disturbed>>
  OBVIOUS
<1>2. \A t \in Session : Challenged(t) => Challenged(t)' /\ startedAt'[t] = startedAt[t]
  BY DEF Challenged, TypeOK
<1>3. TypeOK'
  BY <1>1 DEF TypeOK, EnvelopeOK, environment, transport, Open
<1>4. Causal'
  BY <1>1 DEF Causal, TypeOK, IssuedInPast, Clock, environment, transport
<1>5. AskedByItsCall'
  BY <1>1, <1>2 DEF AskedByItsCall, TypeOK, ChallengeType, transport
<1>6. AnswersItsCall'
  BY <1>1, <1>2 DEF AnswersItsCall, AnswerAfterCall, TypeOK, transport
<1>7. ClearedByEvaluation'
  BY <1>1 DEF ClearedByEvaluation, Cleared, TypeOK
<1>8. PaidOnlyIfLive'
  BY <1>1 DEF PaidOnlyIfLive, AnsweredLive, Responses, TypeOK, transport
<1>9. QED
  BY <1>3, <1>4, <1>5, <1>6, <1>7, <1>8

LEMMA FailStep ==
  ASSUME IInv, NEW s \in Session, FetchFails(s) \/ FailToParse(s) \/ ThrowOnPayload(s)
  PROVE  IInv'
<1> USE DEF IInv
<1>1. UNCHANGED <<environment, transport, startedAt, signed, known>> /\ disturbed' \subseteq Session
  BY DEF FetchFails, FailToParse, ThrowOnPayload, DisturbIf, TypeOK
<1>2. /\ pc[s] \in Open
      /\ \E stage \in {"refused", "thrown"} : pc' = [pc EXCEPT ![s] = stage]
      /\ DOMAIN reasons' = Session
      /\ \A t \in Session \ {s} : reasons'[t] = reasons[t]
  BY DEF FetchFails, FailToParse, ThrowOnPayload, Open, TypeOK
<1>3. \A t \in Session : Challenged(t) => Challenged(t)'
  BY <1>2 DEF Challenged, TypeOK
<1>4. TypeOK'
  BY <1>1, <1>2 DEF TypeOK, EnvelopeOK, environment, transport, Ended
<1>5. Causal'
  BY <1>1 DEF Causal, IssuedInPast, Clock, environment, transport
<1>6. AskedByItsCall'
  BY <1>1, <1>3 DEF AskedByItsCall, TypeOK, ChallengeType, transport
<1>7. AnswersItsCall'
  BY <1>1, <1>3 DEF AnswersItsCall, AnswerAfterCall, TypeOK, transport
<1>8. ClearedByEvaluation'
  BY <1>1, <1>2 DEF ClearedByEvaluation, Cleared, TypeOK
<1>9. PaidOnlyIfLive'
  BY <1>1, <1>2 DEF PaidOnlyIfLive, AnsweredLive, Responses, TypeOK, transport
<1>10. QED
  BY <1>4, <1>5, <1>6, <1>7, <1>8, <1>9

(* The disclosure under evaluation was issued in its host's past, and when no *)
(* check fails it is fresh at policy.now and unknown to the oracle.           *)
LEMMA EvaluateStep ==
  ASSUME IInv, NEW s \in Session, Evaluate(s)
  PROVE  IInv'
<1> USE DEF IInv
<1>1. /\ UNCHANGED <<environment, served, answered, startedAt, known>>
      /\ disturbed' \subseteq Session
      /\ pc[s] = "fetching"
  BY DEF Evaluate, DisturbIf, TypeOK
<1>2. PICK d \in Disclosures(s) :
        /\ signed' = [signed EXCEPT ![s] = {d}]
        /\ reasons' = [reasons EXCEPT ![s] =
             EvaluateDisclosure(d, PayPolicy, PolicyNow(startedAt[s]), oracle)]
        /\ pc' = [pc EXCEPT ![s] = IF LiveHandshake THEN "awaiting" ELSE Decision(reasons'[s])]
  BY DEF Evaluate, TypeOK
<1>3. EnvelopeOK(d) /\ IssuedInPast(d, Payee[s])
  BY <1>2 DEF Disclosures, TypeOK, Causal
<1>4. /\ pc'[s] \in {"awaiting", "settled", "refused"} /\ (pc'[s] = "settled" => ~LiveHandshake)
      /\ pc' = [pc EXCEPT ![s] = pc'[s]]
  BY <1>2, CounterpartyAssumption DEF Decision, TypeOK
<1>5. \A m \in asked' : m \in asked \/ m = [url |-> Payee[s], challenge |-> Challenge(s)]
  BY DEF Evaluate
<1>6. Challenge(s) \in ChallengeType /\ Challenge(s).nonce = s
  BY CounterpartyAssumption
     DEF Challenge, CreateChallenge, RandomNonce, PolicyNow, ChallengeType, TypeOK
<1>7. ~Challenged(s) /\ Challenged(s)' /\ \A t \in Session : Challenged(t) => Challenged(t)'
  BY <1>1, <1>4 DEF Challenged, TypeOK
<1>8. TypeOK'
  <2>1. asked' \subseteq [url : Agent, challenge : ChallengeType]
    BY <1>5, <1>6, CounterpartyAssumption DEF TypeOK
  <2>2. pc' \in [Session -> {"idle"} \cup Open \cup Ended]
    BY <1>4 DEF TypeOK, Open, Ended
  <2>3. QED
    BY <1>1, <1>2, <1>3, <2>1, <2>2 DEF TypeOK, EnvelopeOK, environment
<1>9. Causal'
  BY <1>1, <1>2, <1>3 DEF Causal, TypeOK, IssuedInPast, Clock, environment
<1>10. AskedByItsCall'
  BY <1>5, <1>6, <1>7 DEF AskedByItsCall, TypeOK, ChallengeType
<1>11. AnswersItsCall'
  BY <1>1, <1>2, <1>7 DEF AnswersItsCall, AnswerAfterCall, TypeOK
<1>12. ClearedByEvaluation'
  <2>1. reasons'[s] = {} => IsFresh(d.disclosure, startedAt[s] + Skew)
                            /\ Ids(d.disclosure) \cap known[s] = {}
    BY <1>2, EvaluateClean DEF PolicyNow, Causal, TypeOK
  <2>2. pc'[s] = "settled" => reasons'[s] = {}
    BY <1>2 DEF Decision, TypeOK
  <2>3. pc'[s] \in {"awaiting", "settled"} /\ reasons'[s] = {} => Cleared(s)'
    BY <1>1, <1>2, <2>1 DEF Cleared, TypeOK
  <2>4. QED
    BY <1>1, <1>2, <2>2, <2>3 DEF ClearedByEvaluation, Cleared, TypeOK
<1>13. PaidOnlyIfLive'
  BY <1>1, <1>2, <1>4 DEF PaidOnlyIfLive, AnsweredLive, Responses, TypeOK
<1>14. QED
  BY <1>8, <1>9, <1>10, <1>11, <1>12, <1>13

(* An accepted response is one this call asked for, so it is younger than the *)
(* call; policy.now bounds it from above, and the disclosure covers that.     *)
LEMMA AcceptedResponse ==
  ASSUME IInv, NEW s \in Session, NEW r \in Responses(s), NEW d \in signed[s],
         IsFresh(d.disclosure, startedAt[s] + Skew),
         VerifyChallengeResponse(r, Challenge(s), d.disclosure.agentId,
                                 PolicyNow(startedAt[s]), {})
  PROVE  AnsweredLive(s, d, r)
<1>1. r.nonce = s /\ r.agentId = d.disclosure.agentId
  BY DEF VerifyChallengeResponse, AnswersChallenge, Challenge, CreateChallenge, RandomNonce
<1>2. startedAt[s] \in Nat /\ Drift[Payee[s]] \in Nat /\ r.signedAt \in Nat
      /\ d.disclosure.issuedAt \in Nat /\ d.disclosure.validUntil \in Nat
  BY CounterpartyAssumption DEF IInv, TypeOK, EnvelopeOK, Responses
<1>3. r.signedAt <= startedAt[s] + Skew
  BY <1>2, CounterpartyAssumption, MaxAgeAssumption
     DEF VerifyChallengeResponse, Timely, PolicyNow
<1>4. AnswerAfterCall(r, s)
  BY <1>1 DEF IInv, AnswersItsCall, Responses
<1>5. QED
  BY <1>1, <1>2, <1>3, <1>4, CounterpartyAssumption
     DEF AnsweredLive, AnswerAfterCall, RandomNonce, IsFresh

LEMMA ConcludeStep ==
  ASSUME IInv, NEW s \in Session, Conclude(s)
  PROVE  IInv'
<1> USE DEF IInv
<1>1. /\ UNCHANGED <<environment, transport, startedAt, signed, known>>
      /\ disturbed' \subseteq Session
      /\ pc[s] = "awaiting"
  BY DEF Conclude, DisturbIf, TypeOK
<1>2. PICK r \in Responses(s), d \in signed[s] :
        /\ reasons' = [reasons EXCEPT ![s] = reasons'[s]]
        /\ pc' = [pc EXCEPT ![s] = Decision(reasons'[s])]
        /\ reasons'[s] = {} =>
             /\ reasons[s] = {}
             /\ VerifyChallengeResponse(r, Challenge(s), d.disclosure.agentId,
                                        PolicyNow(startedAt[s]), {})
  <2> DEFINE Accepted(r, d) == VerifyChallengeResponse(r, Challenge(s), d.disclosure.agentId,
                                                       PolicyNow(startedAt[s]), {})
             failed(r, d) == reasons[s] \cup (IF Accepted(r, d) THEN {} ELSE {"handshake"})
  <2>1. PICK r \in Responses(s), d \in signed[s] :
          /\ reasons' = [reasons EXCEPT ![s] = failed(r, d)]
          /\ pc' = [pc EXCEPT ![s] = Decision(failed(r, d))]
    BY DEF Conclude
  <2>2. s \in DOMAIN reasons
    BY DEF TypeOK
  <2>3. reasons'[s] = failed(r, d)
    BY <2>1, <2>2
  <2> HIDE DEF Accepted
  <2>4. failed(r, d) = {} => reasons[s] = {} /\ Accepted(r, d)
    OBVIOUS
  <2>5. QED
    BY <2>1, <2>3, <2>4 DEF Accepted
<1>3. /\ pc'[s] \in {"settled", "refused"} /\ (pc'[s] = "settled" => reasons'[s] = {})
      /\ pc' = [pc EXCEPT ![s] = pc'[s]]
  BY <1>2 DEF Decision, TypeOK
<1>4. \A t \in Session : Challenged(t) => Challenged(t)'
  BY <1>3 DEF Challenged, TypeOK
<1>5. pc'[s] = "settled" => Cleared(s)
  BY <1>1, <1>2, <1>3 DEF ClearedByEvaluation
<1>6. TypeOK'
  <2>1. pc' \in [Session -> {"idle"} \cup Open \cup Ended]
    BY <1>3 DEF TypeOK, Ended
  <2>2. QED
    BY <1>1, <1>2, <2>1 DEF TypeOK, EnvelopeOK, environment, transport
<1>7. Causal'
  BY <1>1 DEF Causal, IssuedInPast, Clock, environment, transport
<1>8. AskedByItsCall'
  BY <1>1, <1>4 DEF AskedByItsCall, TypeOK, ChallengeType, transport
<1>9. AnswersItsCall'
  BY <1>1, <1>4 DEF AnswersItsCall, AnswerAfterCall, TypeOK, transport
<1>10. ClearedByEvaluation'
  BY <1>1, <1>2, <1>3, <1>5 DEF ClearedByEvaluation, Cleared, TypeOK
<1>11. PaidOnlyIfLive'
  <2>1. pc'[s] = "settled" => AnsweredLive(s, d, r)
    BY <1>2, <1>3, <1>5, AcceptedResponse DEF Cleared
  <2>2. \A e, x : \A t \in Session : AnsweredLive(t, e, x) => AnsweredLive(t, e, x)'
    BY <1>1 DEF AnsweredLive
  <2>3. \A t \in Session : Responses(t)' = Responses(t)
    BY <1>1 DEF Responses, transport
  <2>4. QED
    BY <1>1, <1>2, <1>3, <2>1, <2>2, <2>3 DEF PaidOnlyIfLive, TypeOK
<1>12. QED
  BY <1>6, <1>7, <1>8, <1>9, <1>10, <1>11

---------------------------------------------------------------------------
LEMMA StepSound == IInv /\ [Next]_vars => IInv'
<1> SUFFICES ASSUME IInv, [Next]_vars PROVE IInv'
  OBVIOUS
<1>1. CASE \E a \in Agent : StartReferenceAgent(a) \/ Stop(a) \/ Rotate(a)
  BY <1>1, HostStep
<1>2. CASE \/ \E a \in Agent : ServeDisclosure(a) \/ Revoke(a)
           \/ LoadRevocationOracle
           \/ Tick
           \/ UNCHANGED vars
  BY <1>2, SurroundingStep
<1>3. CASE \E a \in Agent : Respond(a)
  BY <1>3, RespondStep
<1>4. ASSUME NEW s \in Session, Pay(s) PROVE IInv'
  BY <1>4, BeginStep DEF Pay
<1>5. CASE \E s \in Session : FetchFails(s) \/ FailToParse(s) \/ ThrowOnPayload(s)
  BY <1>5, FailStep
<1>6. CASE \E s \in Session : Evaluate(s)
  BY <1>6, EvaluateStep
<1>7. CASE \E s \in Session : Conclude(s)
  BY <1>7, ConcludeStep
<1>8. QED
  BY <1>1, <1>2, <1>3, <1>4, <1>5, <1>6, <1>7 DEF Next, AgentNext, FetchSettles

(* The inductive invariant holds of every behaviour. *)
THEOREM InvariantHolds == Spec => []IInv
<1>1. Init => IInv
  BY InitSound
<1>2. IInv /\ [Next]_vars => IInv'
  BY StepSound
<1>3. QED
  BY <1>1, <1>2, PTL DEF Spec

(* Clocks never run backwards below zero, every key in use was minted, the    *)
(* payer's oracle never knows an unpublished revocation, and every challenge  *)
(* and answer bears the nonce of a call.                                      *)
THEOREM TypeCorrect == Spec => []TypeOK
<1>1. IInv => TypeOK
  BY DEF IInv
<1>2. QED
  BY <1>1, InvariantHolds, PTL

(* A payment is made only to a payee that answered this call's own challenge, *)
(* during the call, under the agentId of the disclosure that was cleared and  *)
(* inside its validity window - for every policy that checks signature and    *)
(* freshness, any skew, drift and number of concurrent calls.                 *)
THEOREM PaysOnlyTheLive == Spec => []PaidOnlyIfLive
<1>1. IInv => PaidOnlyIfLive
  BY DEF IInv
<1>2. QED
  BY <1>1, InvariantHolds, PTL

(* No payment follows a revocation that the payer's oracle held when the call *)
(* began.                                                                     *)
THEOREM HonoursKnownRevocations == Spec => []KnownRevocationHolds
<1>1. IInv => KnownRevocationHolds
  BY DEF IInv, ClearedByEvaluation, Cleared, KnownRevocationHolds
<1>2. QED
  BY <1>1, InvariantHolds, PTL

---------------------------------------------------------------------------
(* The refinement: what each step of the guard is to the abstract promise. *)

LEMMA InitMaps == Init => VBP!Init
BY DEF Init, VBP!Init, Stage, Vouchers, Payments, Open

(* A step that changes no stage, no voucher and no verdict is a stutter. *)
LEMMA MapsToStutter ==
  ASSUME UNCHANGED <<answered, signed>>,
         \A s \in Session : Stage(s)' = Stage(s) /\ (pc'[s] = "settled" <=> pc[s] = "settled")
  PROVE  UNCHANGED VBP!vars
BY DEF VBP!vars, Vouchers, Payments

LEMMA RespondMaps ==
  ASSUME IInv, NEW a \in Agent, Respond(a)
  PROVE  VBP!Next
<1>1. UNCHANGED call
  BY DEF Respond
<1>2. PICK h \in hosts[a], m \in asked :
        answered' = answered \cup
          {[url |-> a,
            response |-> RespondToChallenge(m.challenge, h.key,
                           h.signed.disclosure.auditAnchor, Clock(a), {})]}
  BY DEF Respond
<1> DEFINE s == m.challenge.nonce
           r == RespondToChallenge(m.challenge, h.key, h.signed.disclosure.auditAnchor, Clock(a), {})
<1>3. r.nonce = s /\ r.agentId = h.key
  BY DEF RespondToChallenge
<1>4. s \in Session /\ h.key \in Key /\ Challenged(s)
  BY DEF IInv, TypeOK, ChallengeType, AskedByItsCall
<1>5. answered' = answered \cup {[url |-> a, response |-> r]}
  BY <1>2
<1> HIDE DEF r, s
<1>6. Vouchers' = Vouchers \cup {<<s, h.key>>}
  <2> DEFINE new == [url |-> a, response |-> r]
  <2>1. new.response = r
    OBVIOUS
  <2>2. answered' = answered \cup {new}
    BY <1>5
  <2> HIDE DEF new
  <2>3. QED
    BY <1>3, <2>1, <2>2 DEF Vouchers
<1>7. [t \in Session |-> Stage(t)]' = [t \in Session |-> Stage(t)] /\ Payments' = Payments
  BY <1>1 DEF Stage, Payments, call
<1>8. Stage(s) # "idle"
  BY <1>4 DEF Stage, Challenged
<1>9. VBP!Vouch(s, h.key)
  BY <1>4, <1>6, <1>7, <1>8 DEF VBP!Vouch
<1>10. QED
  BY <1>4, <1>9 DEF VBP!Next

LEMMA DeclineMaps ==
  ASSUME TypeOK, NEW s \in Session, pc[s] \in Open, NEW stage \in {"refused", "thrown"},
         pc' = [pc EXCEPT ![s] = stage], UNCHANGED <<answered, signed>>
  PROVE  VBP!Next
<1>1. Vouchers' = Vouchers /\ Payments' = Payments
  BY DEF Vouchers, Payments, Open, TypeOK
<1>2. [t \in Session |-> Stage(t)]' = [[t \in Session |-> Stage(t)] EXCEPT ![s] = "declined"]
  BY DEF Stage, Open, TypeOK
<1>3. VBP!Decline(s)
  BY <1>1, <1>2 DEF VBP!Decline, Stage
<1>4. QED
  BY <1>3 DEF VBP!Next

(* The settlement: the voucher is there and the payment goes to its identity. *)
LEMMA SettleMaps ==
  ASSUME IInv, LiveHandshake, NEW s \in Session, Conclude(s), pc'[s] = "settled"
  PROVE  VBP!Next
<1>1. UNCHANGED <<answered, signed>> /\ pc[s] = "awaiting" /\ pc' = [pc EXCEPT ![s] = "settled"]
  BY DEF Conclude, transport, IInv, TypeOK
<1>2. IInv'
  BY ConcludeStep
<1>3. PICK d \in signed[s] : signed[s] = {d}
  BY <1>1, <1>2 DEF IInv, ClearedByEvaluation, Cleared
<1> DEFINE id == d.disclosure.agentId
<1>4. <<s, id>> \in Vouchers /\ id \in Key
  <2>1. PICK r \in Responses(s)' : r.nonce = s /\ r.agentId = id
    BY <1>1, <1>2, <1>3 DEF IInv, PaidOnlyIfLive, AnsweredLive, RandomNonce
  <2>2. PICK m \in answered : m.response = r
    BY <1>1, <2>1 DEF Responses
  <2>3. QED
    BY <2>1, <2>2 DEF Vouchers, IInv, TypeOK
<1> HIDE DEF id
<1>5. Vouchers' = Vouchers
  BY <1>1 DEF Vouchers
<1>6. Payments' = Payments \cup {<<s, id>>}
  <2>1. \A p \in Session \X Key : p \in Payments' <=> p \in Payments \/ p = <<s, id>>
    BY <1>1, <1>3, <1>4 DEF Payments, IInv, TypeOK, id
  <2>2. Payments' \subseteq Session \X Key /\ Payments \subseteq Session \X Key
        /\ <<s, id>> \in Session \X Key
    BY <1>4 DEF Payments
  <2>3. QED
    BY <2>1, <2>2
<1>7. [t \in Session |-> Stage(t)]' = [[t \in Session |-> Stage(t)] EXCEPT ![s] = "settled"]
  BY <1>1 DEF Stage, Open, IInv, TypeOK
<1>8. VBP!Settle(s, id)
  BY <1>1, <1>4, <1>5, <1>6, <1>7 DEF VBP!Settle, Stage, Open
<1>9. QED
  BY <1>4, <1>8 DEF VBP!Next

LEMMA StepMaps ==
  ASSUME IInv, LiveHandshake, [Next]_vars
  PROVE  [VBP!Next]_(VBP!vars)
<1> USE DEF IInv
<1>1. CASE \/ \E a \in Agent : \/ StartReferenceAgent(a) \/ Stop(a) \/ Rotate(a)
                               \/ ServeDisclosure(a) \/ Revoke(a)
           \/ LoadRevocationOracle \/ Tick \/ UNCHANGED vars
  <2>1. UNCHANGED <<answered, signed, pc>>
    BY <1>1 DEF StartReferenceAgent, Stop, Rotate, ServeDisclosure, Revoke,
                LoadRevocationOracle, Tick, vars, transport, call
  <2>2. QED
    BY <2>1, MapsToStutter DEF Stage
<1>2. CASE \E a \in Agent : Respond(a)
  BY <1>2, RespondMaps
<1>3. ASSUME NEW s \in Session, Pay(s) PROVE VBP!Next
  <2>1. Vouchers' = Vouchers /\ Payments' = Payments
    BY <1>3 DEF Pay, Begin, Vouchers, Payments, transport, TypeOK
  <2>2. [t \in Session |-> Stage(t)]' = [[t \in Session |-> Stage(t)] EXCEPT ![s] = "pending"]
    BY <1>3 DEF Pay, Begin, Stage, Open, TypeOK
  <2>3. VBP!Request(s)
    BY <1>3, <2>1, <2>2 DEF Pay, Begin, VBP!Request, Stage, Open
  <2>4. QED
    BY <2>3 DEF VBP!Next
<1>4. ASSUME NEW s \in Session, FetchFails(s) \/ FailToParse(s) \/ ThrowOnPayload(s) PROVE VBP!Next
  <2>1. /\ pc[s] \in Open /\ UNCHANGED <<answered, signed>>
        /\ \E stage \in {"refused", "thrown"} : pc' = [pc EXCEPT ![s] = stage]
    BY <1>4 DEF FetchFails, FailToParse, ThrowOnPayload, Open, transport
  <2>2. QED
    BY <2>1, DeclineMaps
<1>5. ASSUME NEW s \in Session, Evaluate(s) PROVE UNCHANGED VBP!vars
  <2>1. /\ UNCHANGED answered /\ pc[s] = "fetching" /\ pc' = [pc EXCEPT ![s] = "awaiting"]
        /\ \A t \in Session \ {s} : signed'[t] = signed[t]
    BY <1>5 DEF Evaluate, TypeOK
  <2>2. [t \in Session |-> Stage(t)]' = [t \in Session |-> Stage(t)]
    BY <2>1 DEF Stage, Open, TypeOK
  <2>3. Vouchers' = Vouchers /\ Payments' = Payments
    BY <2>1 DEF Vouchers, Payments, TypeOK
  <2>4. QED
    BY <2>2, <2>3 DEF VBP!vars
<1>6. ASSUME NEW s \in Session, Conclude(s) PROVE VBP!Next
  <2>1. CASE pc'[s] = "settled"
    BY <1>6, <2>1, SettleMaps
  <2>2. CASE pc'[s] # "settled"
    <3>1. pc[s] \in Open /\ UNCHANGED <<answered, signed>> /\ pc' = [pc EXCEPT ![s] = "refused"]
      BY <1>6, <2>2 DEF Conclude, Decision, Open, transport, TypeOK
    <3>2. QED
      BY <3>1, DeclineMaps
  <2>3. QED
    BY <2>1, <2>2
<1>7. QED
  BY <1>1, <1>2, <1>3, <1>4, <1>5, <1>6 DEF Next, AgentNext, FetchSettles

(* With the live handshake, the settlement guard implements VerifyBeforePay:  *)
(* no payment without a voucher of the paid identity for that very payment.   *)
THEOREM GuardImplementsVerifyBeforePay ==
  ASSUME LiveHandshake
  PROVE  Spec => ImplementsVerifyBeforePay
<1>1. Init => VBP!Init
  BY InitMaps
<1>2. IInv /\ [Next]_vars => [VBP!Next]_(VBP!vars)
  BY StepMaps
<1>3. QED
  BY <1>1, <1>2, InvariantHolds, PTL DEF Spec, ImplementsVerifyBeforePay, VBP!Spec

---------------------------------------------------------------------------
(* What an undisturbed call rests on.  A payee is one process; a challenge and    *)
(* an answer are as the code makes them; and while the host of a call that awaits *)
(* its answer is undisturbed, it serves the document under evaluation, and the    *)
(* oracle knows at least what the evaluation held against it.                     *)
OneHost == \A a \in Agent : \A g, h \in hosts[a] : g = h

AskedAsMade == \A m \in asked : m.challenge = Challenge(m.challenge.nonce)

AnsweredAsMade ==
  \A m \in answered :
    /\ AnswersChallenge(m.response, Challenge(m.response.nonce))
    /\ m.response.signedAt <= Clock(m.url)

Steady(s) ==
  \E h \in hosts[Payee[s]] :
    /\ signed[s] = {h.signed}
    /\ reasons[s] \subseteq
         EvaluateDisclosure(h.signed, PayPolicy, PolicyNow(startedAt[s]), oracle)

FairInv ==
  /\ OneHost /\ AskedAsMade /\ AnsweredAsMade
  /\ \A s \in Session : pc[s] = "awaiting" /\ s \notin disturbed => Steady(s)

(* The longer the revocation list, the more checks fail. *)
LEMMA EvaluateGrows ==
  ASSUME NEW d, NEW at, NEW before, NEW after, before \subseteq after
  PROVE  EvaluateDisclosure(d, PayPolicy, at, before) \subseteq
           EvaluateDisclosure(d, PayPolicy, at, after)
<1>1. \A check : CheckPasses(check, d, PayPolicy, at, after) =>
                 CheckPasses(check, d, PayPolicy, at, before)
  BY DEF CheckPasses
<1>2. QED
  BY <1>1 DEF EvaluateDisclosure

(* A disclosure that is fit fails no check. *)
LEMMA AcceptablePasses ==
  ASSUME NEW s \in Session, NEW d, Acceptable(s, d)
  PROVE  EvaluateDisclosure(d, PayPolicy, PolicyNow(startedAt[s]), oracle) = {}
<1>1. ASSUME NEW check \in ChecksRun(d.disclosure.claims, PayPolicy)
      PROVE  CheckPasses(check, d, PayPolicy, PolicyNow(startedAt[s]), oracle)
  <2>1. check \notin EnvelopeCheck => ClaimPasses(check, d.disclosure.claims, PayPolicy)
    BY DEF Acceptable
  <2>2. QED
    BY <2>1 DEF CheckPasses, Acceptable, PolicyNow, Ids
<1>2. QED
  BY <1>1 DEF EvaluateDisclosure

(* A step that leaves the challenges, the answers, the clock and the begin of     *)
(* every call alone, and one that begins calls.                                   *)
LEMMA MadeFrame ==
  ASSUME IInv, AskedAsMade, AnsweredAsMade, UNCHANGED <<now, asked, answered>>,
         \A t \in Session : Challenged(t) => startedAt'[t] = startedAt[t]
  PROVE  AskedAsMade' /\ AnsweredAsMade'
<1>1. \A t \in Session : Challenged(t) => Challenge(t)' = Challenge(t)
  BY DEF Challenge
<1>2. AskedAsMade'
  <2>1. \A m \in asked : m.challenge.nonce \in Session /\ Challenged(m.challenge.nonce)
    BY DEF IInv, TypeOK, ChallengeType, AskedByItsCall
  <2>2. QED
    BY <1>1, <2>1 DEF AskedAsMade
<1>3. AnsweredAsMade'
  <2>1. \A m \in answered : m.response.nonce \in Session /\ Challenged(m.response.nonce)
    BY DEF IInv, TypeOK, AnswersItsCall
  <2>2. QED
    BY <1>1, <2>1 DEF AnsweredAsMade, Clock
<1>4. QED
  BY <1>2, <1>3

LEMMA HostFair ==
  ASSUME IInv, FairInv, NEW a \in Agent, StartReferenceAgent(a) \/ Stop(a) \/ Rotate(a)
  PROVE  FairInv'
<1>1. UNCHANGED <<now, asked, answered, oracle, call>>
  BY DEF StartReferenceAgent, Stop, Rotate, transport
<1>2. AskedAsMade' /\ AnsweredAsMade'
  BY <1>1, MadeFrame DEF FairInv, call
<1>3. /\ DOMAIN hosts = Agent
      /\ hosts' = [hosts EXCEPT ![a] = hosts'[a]]
      /\ \A g, h \in hosts'[a] : g = h
  BY DEF StartReferenceAgent, Stop, Rotate, IInv, TypeOK
<1>4. OneHost'
  BY <1>3 DEF FairInv, OneHost
<1>5. ASSUME NEW s \in Session, pc'[s] = "awaiting", s \notin disturbed'
      PROVE  Steady(s)'
  <2>1. pc[s] = "awaiting" /\ s \notin disturbed /\ Payee[s] # a
    <3>1. pc[s] = "awaiting" /\ s \notin disturbed
      BY <1>1, <1>5 DEF call, StartReferenceAgent, Stop, Rotate, Disturb
    <3>2. hosts[Payee[s]] # {}
      BY <3>1 DEF FairInv, Steady
    <3>3. QED
      BY <1>5, <3>1, <3>2 DEF StartReferenceAgent, Stop, Rotate, Disturb, Open
  <2>2. Payee[s] \in Agent /\ hosts'[Payee[s]] = hosts[Payee[s]]
    BY <1>3, <2>1, CounterpartyAssumption
  <2>3. QED
    BY <1>1, <2>1, <2>2 DEF FairInv, Steady, call
<1>6. QED
  BY <1>2, <1>4, <1>5 DEF FairInv

LEMMA SurroundingFair ==
  ASSUME IInv, FairInv,
         \/ \E a \in Agent : ServeDisclosure(a) \/ Respond(a) \/ Revoke(a)
         \/ LoadRevocationOracle
         \/ Tick
         \/ UNCHANGED vars
  PROVE  FairInv'
<1>1. UNCHANGED <<hosts, asked, call, disturbed>>
  BY DEF ServeDisclosure, Respond, Revoke, LoadRevocationOracle, Tick, vars, environment, transport
<1>2. now \in Nat /\ now' \in {now, now + 1} /\ oracle \subseteq oracle'
  BY DEF ServeDisclosure, Respond, Revoke, LoadRevocationOracle, Tick, vars, environment, IInv, TypeOK
<1>3. OneHost' /\ AskedAsMade'
  BY <1>1 DEF FairInv, OneHost, AskedAsMade, Challenge, call
<1>4. ASSUME NEW m \in answered'
      PROVE  /\ AnswersChallenge(m.response, Challenge(m.response.nonce)')
             /\ m.response.signedAt <= Clock(m.url)'
  <2>1. \A t : Challenge(t)' = Challenge(t)
    BY <1>1 DEF Challenge, call
  <2>2. CASE m \in answered
    <3>1. m.url \in Agent /\ m.response.signedAt \in Nat /\ Drift[m.url] \in Nat
      BY <2>2, CounterpartyAssumption DEF IInv, TypeOK
    <3>2. QED
      BY <1>2, <2>1, <2>2, <3>1 DEF FairInv, AnsweredAsMade, Clock
  <2>3. CASE m \notin answered
    <3>1. PICK a \in Agent : Respond(a)
      BY <1>4, <2>3 DEF ServeDisclosure, Revoke, LoadRevocationOracle, Tick, vars, transport
    <3>2. PICK h \in hosts[a], q \in asked :
            m = [url |-> a, response |-> RespondToChallenge(q.challenge, h.key,
                                           h.signed.disclosure.auditAnchor, Clock(a), {})]
      BY <1>4, <2>3, <3>1 DEF Respond
    <3> DEFINE r == RespondToChallenge(q.challenge, h.key,
                                       h.signed.disclosure.auditAnchor, Clock(a), {})
    <3>3. /\ r.nonce = q.challenge.nonce /\ r.signedAt = Clock(a)
          /\ AnswersChallenge(r, q.challenge)
      BY DEF RespondToChallenge, AnswersChallenge, RebuiltMaterial, SigMaterial, VerifyMessage
    <3>4. q.challenge = Challenge(q.challenge.nonce)
      BY DEF FairInv, AskedAsMade
    <3>5. m.url = a /\ m.response = r
      BY <3>2
    <3>6. now' = now /\ Clock(a) \in Int
      BY <1>2, <3>1, CounterpartyAssumption DEF Respond, environment, Clock
    <3> HIDE DEF r
    <3>7. QED
      BY <2>1, <3>3, <3>4, <3>5, <3>6 DEF Clock
  <2>4. QED
    BY <2>2, <2>3
<1>5. ASSUME NEW s \in Session, pc'[s] = "awaiting", s \notin disturbed'
      PROVE  Steady(s)'
  <2>1. Steady(s)
    BY <1>1, <1>5 DEF FairInv, call
  <2>2. QED
    BY <1>1, <1>2, <2>1, EvaluateGrows DEF Steady, call
<1>6. QED
  BY <1>3, <1>4, <1>5 DEF FairInv, AnsweredAsMade

LEMMA CallFair ==
  ASSUME IInv, FairInv, NEW s \in Session, Pay(s) \/ FetchSettles(s)
  PROVE  FairInv'
<1>1. /\ UNCHANGED <<now, hosts, oracle, answered>>
      /\ disturbed \subseteq disturbed'
  BY DEF Pay, Begin, FetchSettles, FailToParse, ThrowOnPayload, Evaluate, Conclude, FetchFails,
         DisturbIf, environment, transport
<1>2. \A t \in Session \ {s} : /\ pc'[t] = pc[t] /\ startedAt'[t] = startedAt[t]
                               /\ signed'[t] = signed[t] /\ reasons'[t] = reasons[t]
  BY DEF Pay, Begin, FetchSettles, FailToParse, ThrowOnPayload, Evaluate, Conclude, FetchFails,
         IInv, TypeOK
<1>3. \A t \in Session : Challenged(t) => startedAt'[t] = startedAt[t]
  BY DEF Pay, Begin, FetchSettles, FailToParse, ThrowOnPayload, Evaluate, Conclude, FetchFails,
         Challenged, IInv, TypeOK
<1>4. OneHost'
  BY <1>1 DEF FairInv, OneHost
<1>5. ASSUME NEW t \in Session \ {s}, pc'[t] = "awaiting", t \notin disturbed'
      PROVE  Steady(t)'
  BY <1>1, <1>2, <1>5 DEF FairInv, Steady
<1>6. CASE Evaluate(s)
  <2>1. /\ startedAt' = startedAt
        /\ asked' \subseteq asked \cup {[url |-> Payee[s], challenge |-> Challenge(s)]}
    BY <1>6 DEF Evaluate
  <2>2. PICK d \in Disclosures(s) :
          /\ signed' = [signed EXCEPT ![s] = {d}]
          /\ reasons' = [reasons EXCEPT ![s] =
               EvaluateDisclosure(d, PayPolicy, PolicyNow(startedAt[s]), oracle)]
          /\ DisturbIf(s, StaleDisclosure(s, d))
    BY <1>6 DEF Evaluate
  <2>3. AskedAsMade'
    <3>1. Challenge(s).nonce = s /\ \A t : Challenge(t)' = Challenge(t)
      BY <2>1 DEF Challenge, CreateChallenge, RandomNonce
    <3>2. QED
      BY <2>1, <3>1 DEF FairInv, AskedAsMade
  <2>4. AnsweredAsMade'
    BY <1>1, <2>1 DEF FairInv, AnsweredAsMade, Challenge, Clock
  <2>5. signed'[s] = {d}
        /\ reasons'[s] = EvaluateDisclosure(d, PayPolicy, PolicyNow(startedAt[s]), oracle)
    BY <2>2 DEF IInv, TypeOK
  <2>6. s \notin disturbed' => \E h \in hosts[Payee[s]] : d = h.signed
    BY <2>2 DEF DisturbIf, StaleDisclosure
  <2>7. s \notin disturbed' => Steady(s)'
    BY <1>1, <2>1, <2>5, <2>6 DEF Steady
  <2>8. QED
    BY <1>4, <1>5, <2>3, <2>4, <2>7 DEF FairInv
<1>7. CASE ~Evaluate(s)
  <2>1. asked' = asked
    BY <1>7 DEF Pay, Begin, FetchSettles, FailToParse, ThrowOnPayload, Conclude, FetchFails, transport
  <2>2. pc'[s] # "awaiting"
    BY <1>7 DEF Pay, Begin, FetchSettles, FailToParse, ThrowOnPayload, Conclude, FetchFails,
                Decision, IInv, TypeOK
  <2>3. AskedAsMade' /\ AnsweredAsMade'
    BY <1>1, <1>3, <2>1, MadeFrame DEF FairInv
  <2>4. QED
    BY <1>4, <1>5, <2>2, <2>3 DEF FairInv
<1>8. QED
  BY <1>6, <1>7

LEMMA FairStep == IInv /\ FairInv /\ [Next]_vars => FairInv'
<1> SUFFICES ASSUME IInv, FairInv, [Next]_vars PROVE FairInv'
  OBVIOUS
<1>1. CASE \E a \in Agent : StartReferenceAgent(a) \/ Stop(a) \/ Rotate(a)
  BY <1>1, HostFair
<1>2. CASE \/ \E a \in Agent : ServeDisclosure(a) \/ Respond(a) \/ Revoke(a)
           \/ LoadRevocationOracle
           \/ Tick
           \/ UNCHANGED vars
  BY <1>2, SurroundingFair
<1>3. CASE \E s \in Session : Pay(s) \/ FetchSettles(s)
  BY <1>3, CallFair
<1>4. QED
  BY <1>1, <1>2, <1>3 DEF Next, AgentNext

LEMMA FairInvariant == Spec => []FairInv
<1>1. Init => FairInv
  BY DEF Init, FairInv, OneHost, AskedAsMade, AnsweredAsMade
<1>2. QED
  BY <1>1, FairStep, InvariantHolds, PTL DEF Spec

(* The answer of the host that serves the document under evaluation is accepted,  *)
(* when that document is under the host's own key and the clocks are in step.     *)
LEMMA FairAnswer ==
  ASSUME IInv, FairInv, NEW s \in Session, NEW h \in hosts[Payee[s]], InTime(s),
         h.key = h.signed.disclosure.agentId, signed[s] = {h.signed},
         NEW r \in Responses(s), ~StaleResponse(s, r)
  PROVE  VerifyChallengeResponse(r, Challenge(s), h.signed.disclosure.agentId,
                                 PolicyNow(startedAt[s]), {})
<1>1. PICK m \in answered : m.url = Payee[s] /\ m.response = r
  BY DEF Responses
<1>2. r.nonce = s /\ r.agentId = h.key
  <2>1. PICK g \in hosts[Payee[s]] : <<r.nonce, r.agentId>> = <<RandomNonce(s), g.key>>
    BY DEF StaleResponse
  <2>2. g = h
    BY CounterpartyAssumption DEF FairInv, OneHost
  <2>3. QED
    BY <2>1, <2>2 DEF RandomNonce
<1>3. AnswersChallenge(r, Challenge(s)) /\ r.signedAt <= Clock(Payee[s])
  BY <1>1, <1>2 DEF FairInv, AnsweredAsMade
<1>4. Timely(r, PolicyNow(startedAt[s]))
  <2>1. startedAt[s] + Drift[Payee[s]] <= r.signedAt
    BY <1>1, <1>2 DEF IInv, AnswersItsCall, AnswerAfterCall
  <2>2. startedAt[s] \in Nat /\ Drift[Payee[s]] \in Nat /\ r.signedAt \in Nat /\ now \in Nat
    BY <1>1, CounterpartyAssumption DEF IInv, TypeOK
  <2>3. Clock(Payee[s]) <= startedAt[s] + Skew /\ Skew - Drift[Payee[s]] <= MaxAge
    BY DEF InTime
  <2>4. QED
    BY <1>3, <2>1, <2>2, <2>3, CounterpartyAssumption, MaxAgeAssumption
       DEF Timely, PolicyNow, Clock
<1>5. QED
  BY <1>2, <1>3, <1>4 DEF VerifyChallengeResponse, Supported

(* A call that ran undisturbed against a payee whose disclosure is fit and under  *)
(* its own key, with its clock inside the tolerance, is not refused and does not  *)
(* throw, whatever other calls, payees and replies do.                            *)
THEOREM FitPayeeNotRefused == Spec => HonestPayeeNotRefused
<1>1. ASSUME IInv, FairInv, Next, NEW s \in Session, RefusedThoughFit(s),
             \A h \in hosts[Payee[s]] : h.key = h.signed.disclosure.agentId
      PROVE  FALSE
  <2> USE <1>1
  <2>1. FetchSettles(s)
    <3>1. pc[s] \in Open /\ pc'[s] \in {"refused", "thrown"}
      BY DEF RefusedThoughFit
    <3>2. pc'[s] # pc[s]
      BY <3>1 DEF Open
    <3>3. \A t \in Session : Pay(t) => pc'[s] = pc[s]
      BY <3>1 DEF Pay, Begin, Open, IInv, TypeOK
    <3>4. \A t \in Session \ {s} : FetchSettles(t) => pc'[s] = pc[s]
      BY DEF FetchSettles, FailToParse, ThrowOnPayload, Evaluate, Conclude, FetchFails, IInv, TypeOK
    <3>5. (\E a \in Agent : AgentNext(a)) \/ LoadRevocationOracle \/ Tick => pc' = pc
      BY DEF AgentNext, StartReferenceAgent, Stop, Rotate, ServeDisclosure, Respond, Revoke,
             LoadRevocationOracle, Tick, call
    <3>6. QED
      BY <3>2, <3>3, <3>4, <3>5 DEF Next
  <2>2. PICK h \in hosts[Payee[s]] : Acceptable(s, h.signed)
    BY DEF RefusedThoughFit
  <2>3. Payee[s] \in Agent /\ \A g \in hosts[Payee[s]] : g = h
    BY CounterpartyAssumption DEF FairInv, OneHost
  <2>4. \A d : ~StaleDisclosure(s, d) => d = h.signed
    BY <2>3 DEF StaleDisclosure
  <2>5. h.signed.disclosure.version = 1
    BY <2>2 DEF Acceptable
  <2>6. EvaluateDisclosure(h.signed, PayPolicy, PolicyNow(startedAt[s]), oracle) = {}
    BY <2>2, AcceptablePasses
  <2>7. s \notin disturbed' /\ pc'[s] \in {"refused", "thrown"}
    BY DEF RefusedThoughFit
  <2>8. ~FetchFails(s)
    BY <2>7 DEF FetchFails
  <2>9. ~FailToParse(s) /\ ~ThrowOnPayload(s)
    BY <2>4, <2>5, <2>7 DEF FailToParse, ThrowOnPayload, DisturbIf, Parses, GetDisclosureThrows
  <2>10. ~Evaluate(s)
    <3> SUFFICES ASSUME Evaluate(s) PROVE FALSE
      OBVIOUS
    <3>1. PICK d \in Disclosures(s) :
            /\ pc' = [pc EXCEPT ![s] =
                 IF LiveHandshake THEN "awaiting"
                 ELSE Decision(EvaluateDisclosure(d, PayPolicy, PolicyNow(startedAt[s]), oracle))]
            /\ DisturbIf(s, StaleDisclosure(s, d))
      BY DEF Evaluate
    <3>2. d = h.signed
      BY <2>4, <2>7, <3>1 DEF DisturbIf
    <3>3. QED
      BY <2>6, <2>7, <3>1, <3>2 DEF Decision, IInv, TypeOK
  <2>11. ~Conclude(s)
    <3> SUFFICES ASSUME Conclude(s) PROVE FALSE
      OBVIOUS
    <3>1. pc[s] = "awaiting" /\ disturbed \subseteq disturbed'
      BY DEF Conclude, DisturbIf
    <3>2. Steady(s)
      BY <2>7, <3>1 DEF FairInv
    <3>3. signed[s] = {h.signed} /\ reasons[s] = {}
      BY <2>3, <2>6, <3>2 DEF Steady
    <3>4. PICK r \in Responses(s), d \in signed[s] :
            LET ok == VerifyChallengeResponse(r, Challenge(s), d.disclosure.agentId,
                                              PolicyNow(startedAt[s]), {})
            IN  /\ pc' = [pc EXCEPT ![s] =
                     Decision(reasons[s] \cup (IF ok THEN {} ELSE {"handshake"}))]
                /\ DisturbIf(s, StaleResponse(s, r))
      BY DEF Conclude
    <3>5. d = h.signed /\ ~StaleResponse(s, r)
      BY <2>7, <3>3, <3>4 DEF DisturbIf
    <3>6. VerifyChallengeResponse(r, Challenge(s), d.disclosure.agentId,
                                  PolicyNow(startedAt[s]), {})
      BY <3>3, <3>5, FairAnswer DEF RefusedThoughFit
    <3>7. pc'[s] = "settled"
      BY <3>3, <3>4, <3>6 DEF Decision, IInv, TypeOK
    <3>8. QED
      BY <2>7, <3>7
  <2>12. QED
    BY <2>1, <2>8, <2>9, <2>10, <2>11 DEF FetchSettles
<1>2. IInv /\ FairInv /\ [Next]_vars =>
        [\A s \in Session : RefusedThoughFit(s) =>
           \E h \in hosts[Payee[s]] : h.key # h.signed.disclosure.agentId]_vars
  BY <1>1
<1>3. QED
  BY <1>2, FairInvariant, InvariantHolds, PTL DEF Spec, HonestPayeeNotRefused
=============================================================================
