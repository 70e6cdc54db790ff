----------------------------- MODULE FailureLog -----------------------------
(***************************************************************************)
(* What the failure recorder promises (README.md:513): the last Size       *)
(* failures, newest first.                                                 *)
(***************************************************************************)
EXTENDS Naturals, Sequences

CONSTANTS Events, Size

VARIABLE kept

Least(a, b) == IF a <= b THEN a ELSE b

Init == kept = <<>>

Record(e) ==
  kept' = [i \in 1..Least(Len(kept) + 1, Size) |-> IF i = 1 THEN e ELSE kept[i - 1]]

Next == \E e \in Events : Record(e)

Spec == Init /\ [][Next]_kept
=============================================================================
