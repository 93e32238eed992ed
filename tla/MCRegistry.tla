----------------------------- MODULE MCRegistry -----------------------------
(* A small instance of Registry for TLC: an agent's claim to a wallet, and a    *)
(* copy of it with another registry in it.                                      *)
EXTENDS Registry, TLC

CONSTANTS c1, c2, t1, t2, k1, k2, w1

MCBinding ==
  LET signed == BindWallet(k1, w1, "registry")
  IN  c1 :> signed @@ c2 :> [signed EXCEPT !.registry = "another"]
=============================================================================
