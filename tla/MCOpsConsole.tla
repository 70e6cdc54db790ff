---------------------------- MODULE MCOpsConsole ----------------------------
(* Instances of OpsConsole for TLC.                                         *)
EXTENDS OpsConsole, TLC

CONSTANTS m1, m2, m3, relay, q1, q2, t1, t2

Tables == (m1 :> 1) @@ (m2 :> 0) @@ (m3 :> 0)

\* m3 is registered in one of them, beside m1 and without a cursor.
Registered == {{}, {m1, m2}, {m1, m3}}

FullSyncOf(args) == [kind |-> "full-sync", args |-> args, repair |-> FALSE]
ReconcileOf(args, repair) == [kind |-> "reconcile", args |-> args, repair |-> repair]

\* Everything, a model named twice, one table; with and without repair.
CommandSet ==
  {FullSyncOf(<<>>), FullSyncOf(<<m1, m2, m1>>), FullSyncOf(<<m1>>),
   ReconcileOf(<<m2, m1>>, TRUE), ReconcileOf(<<>>, TRUE), ReconcileOf(<<m1>>, FALSE)}

OneTable == {<<FullSyncOf(<<m1>>), {m1, m2}>>}
Twice == {FullSyncOf(<<m1, m2, m1>>)}
FewStates == CommandSet \ {FullSyncOf(<<m1>>), FullSyncOf(<<m1, m2, m1>>), ReconcileOf(<<>>, TRUE)}

\* One query in two types that are printed alike, and one that cannot be marshalled.
SearchSet == {[query |-> q1, type |-> t1], [query |-> q1, type |-> t2], [query |-> q2, type |-> t1]}

PrintedAlike == (t1 :> "article.Doc") @@ (t2 :> "article.Doc")

QueryIndex == (q1 :> m1) @@ (q2 :> m1)
=============================================================================
