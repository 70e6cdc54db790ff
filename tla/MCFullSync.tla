----------------------------- MODULE MCFullSync -----------------------------
(* Instances of FullSync for TLC.                                           *)
EXTENDS FullSync, TLC

CONSTANTS sA, sB, sC, eA, eB, o1, o2, x, y

\* Every rebuild is of the whole table, or the second one starts after row 1.
Whole == [s \in Syncs |-> 0]
Mixed == [s \in Syncs |-> IF s = sB THEN 1 ELSE 0]

\* Runs, bootstraps and contents are interchangeable (safety runs only).
Symmetry == Permutations(Syncs) \cup Permutations(Ensures)
              \cup Permutations(Contents)
=============================================================================
