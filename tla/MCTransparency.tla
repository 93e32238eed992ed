--------------------------- MODULE MCTransparency ---------------------------
(* Small instances of Transparency for TLC. *)
EXTENDS Transparency, TLC

CONSTANTS a1, d1, d2, v1, v2

Doc(digest) == [digest |-> digest, agentId |-> a1, issuedAt |-> 0]

MCDisclosure == {Doc(d1), Doc(d2)}

(* An entry is edited to another issuedAt, under its own digest or the other's. *)
MCForgery == {[d EXCEPT !.issuedAt = 1] : d \in MCDisclosure}

Symmetric == Permutations({d1, d2})
=============================================================================
