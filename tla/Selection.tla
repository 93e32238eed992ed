----------------------------- MODULE Selection -----------------------------
(***************************************************************************)
(* What is left of a list when only some of its elements are kept, in their  *)
(* order: SelectSeq with a set for its test.                                 *)
(***************************************************************************)
EXTENDS Integers, Sequences

Selected(s, S) ==
  LET kept[n \in 0..Len(s)] ==
        IF n = 0 THEN <<>>
        ELSE IF s[n] \in S THEN Append(kept[n - 1], s[n]) ELSE kept[n - 1]
  IN kept[Len(s)]
=============================================================================
