-------------------------- MODULE VerifyBeforePay --------------------------
(***************************************************************************)
(* What the settlement guard promises, with no keys, clocks or messages:   *)
(* a payment is made to an identity only after that identity has vouched   *)
(* for itself to this very payment, and a payment is decided once.         *)
(***************************************************************************)
CONSTANTS Payment, Identity

VARIABLES
  status,     \* status[p]: where payment p stands
  vouched,    \* <<p, id>>: id has proved itself present to payment p
  paid        \* <<p, id>>: payment p was made, to identity id

vars == <<status, vouched, paid>>

Init ==
  /\ status = [p \in Payment |-> "idle"]
  /\ vouched = {}
  /\ paid = {}

Request(p) ==
  /\ status[p] = "idle"
  /\ status' = [status EXCEPT ![p] = "pending"]
  /\ UNCHANGED <<vouched, paid>>

Vouch(p, id) ==
  /\ status[p] # "idle"
  /\ vouched' = vouched \cup {<<p, id>>}
  /\ UNCHANGED <<status, paid>>

Settle(p, id) ==
  /\ status[p] = "pending"
  /\ <<p, id>> \in vouched
  /\ status' = [status EXCEPT ![p] = "settled"]
  /\ paid' = paid \cup {<<p, id>>}
  /\ UNCHANGED vouched

Decline(p) ==
  /\ status[p] = "pending"
  /\ status' = [status EXCEPT ![p] = "declined"]
  /\ UNCHANGED <<vouched, paid>>

Next ==
  \E p \in Payment :
    \/ Request(p)
    \/ Decline(p)
    \/ \E id \in Identity : Vouch(p, id) \/ Settle(p, id)

Spec == Init /\ [][Next]_vars
=============================================================================
