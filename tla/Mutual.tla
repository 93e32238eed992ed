------------------------------- MODULE Mutual -------------------------------
(***************************************************************************)
(* mutualVerify (mutual.ts): two legs of verifyCounterparty in flight at     *)
(* once, each side's policy against the other's agent, joined by Promise.all *)
(* and combineMutual (guard.ts).  The legs are sessions of Counterparty,     *)
(* a leg's "settled" is a transact.  Both sides ask the same policy here.    *)
(***************************************************************************)
EXTENDS Counterparty

CONSTANTS
  Exchange,   \* calls of mutualVerify
  Leg         \* Leg[x]: the two sessions that are the legs of x

Side == {"ours", "theirs"}

ASSUME MutualAssumption ==
  /\ Leg \in [Exchange -> [Side -> Session]]
  /\ \A x, y \in Exchange : \A i, j \in Side : Leg[x][i] = Leg[y][j] => x = y /\ i = j

VARIABLE exchange   \* exchange[x]: "idle", "pending", or how the promise of x settled

mutualVars == <<vars, exchange>>

Legs(x) == {Leg[x][i] : i \in Side}

MutualInit == Init /\ exchange = [x \in Exchange |-> "idle"]

(* Both legs are started before the first await of either. *)
MutualVerify(x) ==
  /\ exchange[x] = "idle"
  /\ exchange' = [exchange EXCEPT ![x] = "pending"]
  /\ Begin(Legs(x))

(* A slip: one side's transact is enough. *)
CombineEither(x) == IF \E s \in Legs(x) : pc[s] = "settled" THEN "transact" ELSE "refuse"

Combine(x) == IF \A s \in Legs(x) : pc[s] = "settled" THEN "transact" ELSE "refuse"

BothFulfilled(x) ==
  /\ exchange[x] = "pending"
  /\ \A s \in Legs(x) : pc[s] \in {"settled", "refused"}
  /\ exchange' = [exchange EXCEPT ![x] = Combine(x)]
  /\ UNCHANGED vars

(* A slip: the rejection is waited out, as with allSettled, and nobody handles it. *)
NoneRejected(x) ==
  /\ exchange[x] = "pending" /\ \A s \in Legs(x) : pc[s] = "thrown"
  /\ exchange' = [exchange EXCEPT ![x] = "rejected"]
  /\ UNCHANGED vars

(* The first leg to throw rejects the exchange; the other runs on for nobody. *)
OneRejected(x) ==
  /\ exchange[x] = "pending" /\ \E s \in Legs(x) : pc[s] = "thrown"
  /\ exchange' = [exchange EXCEPT ![x] = "rejected"]
  /\ UNCHANGED vars

LegStep ==
  /\ \/ \E a \in Agent : AgentNext(a)
     \/ \E s \in Session : FetchSettles(s)
     \/ LoadRevocationOracle
     \/ Tick
  /\ UNCHANGED exchange

MutualNext ==
  \/ LegStep
  \/ \E x \in Exchange : MutualVerify(x) \/ BothFulfilled(x) \/ OneRejected(x)

MutualSpec == MutualInit /\ [][MutualNext]_mutualVars

(* As for one call, and a settled promise runs its continuation. *)
MutualFairSpec ==
  /\ MutualSpec
  /\ \A s \in Session : WF_mutualVars(FetchSettles(s) /\ UNCHANGED exchange)
  /\ \A x \in Exchange : WF_mutualVars(BothFulfilled(x) \/ OneRejected(x))

---------------------------------------------------------------------------
MutualTypeOK ==
  /\ TypeOK
  /\ exchange \in [Exchange -> {"idle", "pending", "transact", "refuse", "rejected"}]

(* An exchange goes through only between two agents that were both live in it: *)
(* each answered the challenge of its own leg after the exchange began, under  *)
(* the agentId that cleared the other's policy.  A reply to one leg serves not *)
(* the other, and no leg that refused or threw is outvoted (mutual.ts:25-31).  *)
NeverOneSided ==
  LiveHandshake =>
    \A x \in Exchange : exchange[x] = "transact" =>
      \A s \in Legs(x) : \E d \in signed[s], r \in Responses(s) : AnsweredLive(s, d, r)

(* Every exchange is decided or rejected. *)
EveryExchangeEnds == \A x \in Exchange : exchange[x] = "pending" ~> exchange[x] # "pending"

(* Mutual verification implements MutualConsent: a side consents by the verdict *)
(* of its leg, and an exchange that is refused or rejected is no deal.          *)
Outcome(x) == IF exchange[x] \in {"refuse", "rejected"} THEN "none" ELSE exchange[x]

Consent(x) == {i \in Side : pc[Leg[x][i]] = "settled"}

Promise == INSTANCE MutualConsent WITH
  outcome <- [x \in Exchange |-> Outcome(x)], consent <- [x \in Exchange |-> Consent(x)]

ImplementsMutualConsent == Promise!Spec

(* The calls of an exchange that has not begun have not begun either. *)
LegsWait == \A x \in Exchange : exchange[x] = "idle" => \A s \in Legs(x) : pc[s] = "idle"

MutualInv == IInv /\ MutualTypeOK /\ LegsWait /\ NeverOneSided
=============================================================================
