--------------------------- MODULE MutualConsent ---------------------------
(***************************************************************************)
(* What mutual verification promises: an exchange between two sides is      *)
(* decided once, and goes through only with the consent of both.            *)
(***************************************************************************)
CONSTANTS Exchange, Side

VARIABLES
  outcome,    \* outcome[x]: where exchange x stands
  consent     \* consent[x]: the sides that agreed to it

vars == <<outcome, consent>>

Init ==
  /\ outcome = [x \in Exchange |-> "idle"]
  /\ consent = [x \in Exchange |-> {}]

Begin(x) ==
  /\ outcome[x] = "idle"
  /\ outcome' = [outcome EXCEPT ![x] = "pending"]
  /\ UNCHANGED consent

(* A side may agree when the exchange is off already. *)
Agree(x, side) ==
  /\ outcome[x] # "idle"
  /\ consent' = [consent EXCEPT ![x] = @ \cup {side}]
  /\ UNCHANGED outcome

Deal(x) ==
  /\ outcome[x] = "pending" /\ consent[x] = Side
  /\ outcome' = [outcome EXCEPT ![x] = "transact"]
  /\ UNCHANGED consent

NoDeal(x) ==
  /\ outcome[x] = "pending"
  /\ outcome' = [outcome EXCEPT ![x] = "none"]
  /\ UNCHANGED consent

Next ==
  \E x \in Exchange :
    \/ Begin(x) \/ Deal(x) \/ NoDeal(x)
    \/ \E side \in Side : Agree(x, side)

Spec == Init /\ [][Next]_vars
=============================================================================
