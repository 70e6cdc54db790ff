--------------------------- MODULE MCOutboxRelay ---------------------------
(* Instances of OutboxRelay for TLC.                                        *)
EXTENDS OutboxRelay, TLC

CONSTANTS w1, w2, d1, d2

OneRow == {1}
TwoRows == {1, 2}

\* Every row is about a document of its own.
OwnDoc1 == [r \in OneRow |-> d1]
OwnDocs == [r \in TwoRows |-> IF r = 1 THEN d1 ELSE d2]
SameDoc == [r \in TwoRows |-> d1]

AllIndex1 == [r \in OneRow |-> "index"]
AllIndex == [r \in TwoRows |-> "index"]
IndexThenOther == [r \in TwoRows |-> IF r = 1 THEN "index" ELSE "truncate"]
IndexThenDelete == [r \in TwoRows |-> IF r = 1 THEN "index" ELSE "delete"]

\* Workers are interchangeable (safety runs only).
WorkerSymmetry == Permutations(Workers)
============================================================================
