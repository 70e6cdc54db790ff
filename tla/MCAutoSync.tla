------------------------------ MODULE MCAutoSync ------------------------------
(* Instances of AutoSync for TLC.                                           *)
EXTENDS AutoSync, TLC

CONSTANTS s1, s2, title, body, deleted_at

\* Every soft delete handling, whole documents and changed fields.
Three == {[softDelete |-> "none", fullDoc |-> TRUE],
          [softDelete |-> "update", fullDoc |-> FALSE],
          [softDelete |-> "delete", fullDoc |-> FALSE]}

\* Sessions are interchangeable, and so are the columns nothing else depends on.
Symmetry == Permutations(Sessions) \cup Permutations(Columns \ {SoftColumn})
=============================================================================
