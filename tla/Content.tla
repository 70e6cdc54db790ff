------------------------------ MODULE Content ------------------------------
(***************************************************************************)
(* What the modules of full sync, reconcile and search share: how many     *)
(* rows a table has, how many of them the index behind its alias has been  *)
(* given, and how many of those got lost on the way.  Rows only come;      *)
(* they come by statements whose rows the callbacks cannot name            *)
(* (failures.go:132-147), so that nothing but a rebuild adds them to the   *)
(* index.                                                                  *)
(***************************************************************************)
EXTENDS Naturals

CONSTANTS
  Models,      \* models, with one table and one alias each
  MaxRows      \* the rows each table may get (bound of the instance)

ASSUME ContentAssumption == MaxRows \in [Models -> Nat]

VARIABLES
  rows,   \* of each table
  docs,   \* those the index behind the alias has been given, from the first on
  lost    \* those of them that its bulk indexer has failed to index

content == <<rows, docs, lost>>

\* What readers find.
Found(m) == docs[m] - lost[m]

ContentTypeOK ==
  /\ rows \in [Models -> Nat]
  /\ docs \in [Models -> Nat]
  /\ lost \in [Models -> Nat]
  /\ \A m \in Models : lost[m] <= docs[m] /\ docs[m] <= rows[m]

Counts == [Models -> UNION {0..MaxRows[m] : m \in Models}]

ContentInit ==
  /\ rows \in {f \in Counts : \A m \in Models : f[m] <= MaxRows[m]}
  /\ docs \in {f \in Counts : \A m \in Models : f[m] <= rows[m]}
  /\ lost = [m \in Models |-> 0]

Insert(m) ==
  /\ rows[m] < MaxRows[m]
  /\ rows' = [rows EXCEPT ![m] = @ + 1]
  /\ UNCHANGED <<docs, lost>>
=============================================================================
