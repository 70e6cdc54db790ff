--------------------------- MODULE FullSync_proofs ---------------------------
(***************************************************************************)
(* Proofs about FullSync: however many rebuilds and bootstraps race, with  *)
(* requests lost or late, the alias stays sound and leaves no gap, nothing *)
(* but what it names is left behind, and the live copy differs from the    *)
(* table in no row that nobody touched while it was built.                 *)
(***************************************************************************)
EXTENDS FullSync, FiniteSetTheorems, WellFoundedInduction, TLAPS

(* Requests of one rebuild that touch only its own control state.           *)
LEMMA GotoType ==
  ASSUME TypeOK, NEW s \in Syncs,
         NEW l \in {"idle", "exists", "create", "scan", "close", "discard",
                    "switch", "delete", "ok", "failed"},
         Goto(s, l)
  PROVE  pc' \in [Syncs -> {"idle", "exists", "create", "scan", "close", "discard",
                            "switch", "delete", "ok", "failed"}]
BY DEF Goto, TypeOK

(* EnsureIndex goes from one of its places to another (syncer.go:354).      *)
LEMMA EnsureGotoType ==
  ASSUME TypeOK, NEW e \in Ensures,
         NEW l \in {"idle", "exists", "create", "ok", "failed"},
         EnsureGoto(e, l)
  PROVE  ensure' \in [Ensures -> {"idle", "exists", "create", "ok", "failed"}]
BY DEF EnsureGoto, TypeOK

(* A fault is counted against its bound.                                    *)
LEMMA FaultType ==
  ASSUME TypeOK, Fault
  PROVE  used' \in [{"write", "fault", "bulk"} -> Nat]
BY DEF Fault, TypeOK

(* What the alias and index requests do to Elasticsearch.                   *)
EsType == /\ indices \in SUBSET Names
          /\ docs \in [Names -> Rows]
          /\ alias \in SUBSET Names

(* Deleting indices leaves indices, documents and the alias what they are.  *)
LEMMA DeletedType ==
  ASSUME TypeOK, NEW gone, Deleted(gone)
  PROVE  EsType'
BY DEF TypeOK, EsType, Deleted, NoRows, Rows

(* The atomic alias update leaves them what they are.                       *)
LEMMA UpdateType ==
  ASSUME TypeOK, NEW s \in Syncs, UpdateAliases(s)
  PROVE  EsType'
<1>1. s \in Names /\ Alias \in Names
  BY DEF Names, Managed
<1>2. NoRows \in Rows
  BY DEF NoRows, Rows
<1> QED BY <1>1, <1>2 DEF TypeOK, EsType, UpdateAliases

(* Creating the first index with its alias leaves them what they are.       *)
LEMMA BootstrapType ==
  ASSUME TypeOK, NEW e \in Ensures, Bootstrap(e)
  PROVE  EsType'
BY DEF TypeOK, EsType, Bootstrap, Names, Managed

(* Every step keeps the shapes of the variables.                            *)
LEMMA TypeStep == TypeOK /\ [Next]_vars => TypeOK'
<1> SUFFICES ASSUME TypeOK, [Next]_vars PROVE TypeOK'
  OBVIOUS
<1>1. ASSUME NEW i \in Ids, NEW c \in Contents \cup {Absent}, Write(i, c) PROVE TypeOK'
  <2>1. table' \in Rows
    BY <1>1 DEF Write, TypeOK, Rows
  <2>2. touched' \in [Syncs -> SUBSET Ids]
    BY <1>1 DEF Write, TypeOK
  <2>3. used' \in [{"write", "fault", "bulk"} -> Nat]
    BY <1>1 DEF Write, TypeOK
  <2> QED BY <1>1, <2>1, <2>2, <2>3 DEF Write, TypeOK, es
<1>2. ASSUME NEW i \in Ids, Deliver(i) PROVE TypeOK'
  <2>1. table[i] \in Contents \cup {Absent}
    BY DEF TypeOK, Rows
  <2>2. \A n \in Names : [docs EXCEPT ![n][i] = table[i]] \in [Names -> Rows]
    BY <2>1 DEF TypeOK, Rows
  <2>3. Alias \in Names
    BY DEF Names
  <2>4. docs' \in [Names -> Rows]
    BY <1>2, <2>2, <2>3 DEF Deliver, TypeOK
  <2>5. indices' \in SUBSET Names
    BY <1>2, <2>3 DEF Deliver, TypeOK
  <2> QED BY <1>2, <2>4, <2>5 DEF Deliver, TypeOK
<1>3. ASSUME NEW s \in Syncs, SyncStep(s) PROVE TypeOK'
  <2>1. CASE ResolveAlias(s)
    BY <2>1, GotoType DEF ResolveAlias, TypeOK, db, es
  <2>2. CASE IndexExists(s)
    BY <2>2, GotoType DEF IndexExists, TypeOK, db, es, Names
  <2>3. CASE CreateIndex(s)
    BY <2>3, GotoType DEF CreateIndex, TypeOK, db, Names, Managed
  <2>4. CASE EarlyFailure(s)
    BY <2>4, GotoType, FaultType DEF EarlyFailure, TypeOK, db, Names, Managed
  <2>5. CASE ScanBatch(s)
    <3> DEFINE rows == Batch(s)
    <3>1. rows \subseteq Ids
      BY DEF Batch
    <3>2. PICK c \in Advanced(s, rows) :
            /\ cursor' = [cursor EXCEPT ![s] = c]
            /\ queue' = [queue EXCEPT ![s] =
                           [i \in Ids |-> IF i \in rows THEN table[i] ELSE queue[s][i]]]
            /\ Goto(s, AfterBatch(s, rows, c))
      BY <2>5 DEF ScanBatch
    <3> HIDE DEF rows
    <3>3. c \in Ids \cup {StartID[u] : u \in Syncs}
      BY <3>1 DEF Advanced, TypeOK
    <3>4. cursor' \in [Syncs -> Ids \cup {StartID[u] : u \in Syncs}]
      BY <3>2, <3>3 DEF TypeOK
    <3>5. [i \in Ids |-> IF i \in rows THEN table[i] ELSE queue[s][i]] \in Rows
      BY DEF TypeOK, Rows
    <3>6. queue' \in [Syncs -> Rows]
      BY <3>2, <3>5 DEF TypeOK
    <3>7. AfterBatch(s, rows, c) \in {"close", "discard", "scan"}
      BY DEF AfterBatch
    <3>8. pc' \in [Syncs -> {"idle", "exists", "create", "scan", "close", "discard",
                             "switch", "delete", "ok", "failed"}]
      BY <3>2, <3>7 DEF Goto, TypeOK
    <3> QED BY <2>5, <3>4, <3>6, <3>8 DEF ScanBatch, TypeOK, db, es
  <2>6. CASE CloseIndexer(s)
    BY <2>6, GotoType DEF CloseIndexer, TypeOK, db, es
  <2>7. CASE ScanFails(s)
    BY <2>7, GotoType, FaultType DEF ScanFails, TypeOK, db, es
  <2>8. CASE Discard(s)
    <3>1. EsType'
      BY <2>8, DeletedType DEF Discard, TypeOK, EsType, es
    <3>2. used' \in [{"write", "fault", "bulk"} -> Nat]
      BY <2>8, FaultType DEF Discard, TypeOK
    <3> QED BY <2>8, <3>1, <3>2, GotoType DEF Discard, TypeOK, EsType, db
  <2>9. CASE SwitchAlias(s)
    BY <2>9, UpdateType, GotoType DEF SwitchAlias, TypeOK, EsType, db
  <2>10. CASE SwitchRefused(s)
    <3>1. used' \in [{"write", "fault", "bulk"} -> Nat]
      BY <2>10, FaultType DEF SwitchRefused, TypeOK
    <3> QED BY <2>10, <3>1, GotoType DEF SwitchRefused, TypeOK, db, es
  <2>11. CASE SwitchUnanswered(s)
    BY <2>11, GotoType, FaultType DEF SwitchUnanswered, TypeOK, db, es, Managed
  <2>12. CASE DeleteReplaced(s)
    BY <2>12, DeletedType, GotoType DEF DeleteReplaced, TypeOK, EsType, db
  <2>13. CASE DeleteFails(s)
    <3>1. EsType'
      BY <2>13, DeletedType DEF DeleteFails, TypeOK, EsType, es
    <3>2. used' \in [{"write", "fault", "bulk"} -> Nat]
      BY <2>13, FaultType DEF DeleteFails, TypeOK
    <3> QED BY <2>13, <3>1, <3>2, GotoType DEF DeleteFails, TypeOK, EsType, db
  <2> QED BY <1>3, <2>1, <2>2, <2>3, <2>4, <2>5, <2>6, <2>7, <2>8, <2>9, <2>10,
             <2>11, <2>12, <2>13 DEF SyncStep
<1>4. ASSUME NEW s \in Syncs, NEW i \in Ids, FlushItem(s, i) \/ FlushFails(s, i)
      PROVE  TypeOK'
  <2>1. s \in Names
    BY DEF Names, Managed
  <2>2. queue[s][i] \in Contents \cup {Absent}
    BY DEF TypeOK, Rows
  <2>3. [docs EXCEPT ![s][i] = queue[s][i]] \in [Names -> Rows]
    BY <2>1, <2>2 DEF TypeOK, Rows
  <2>4. [queue EXCEPT ![s][i] = Absent] \in [Syncs -> Rows]
    BY DEF TypeOK, Rows
  <2>5. CASE FlushItem(s, i)
    BY <2>3, <2>4, <2>5 DEF FlushItem, TypeOK, db
  <2>6. CASE FlushFails(s, i)
    <3>1. used' \in [{"write", "fault", "bulk"} -> Nat]
      BY <2>6 DEF FlushFails, TypeOK
    <3> QED BY <2>4, <2>6, <3>1 DEF FlushFails, TypeOK, db, es
  <2> QED BY <1>4, <2>5, <2>6
<1>5. ASSUME NEW s \in Syncs, LateSwitch(s) PROVE TypeOK'
  BY <1>5, UpdateType DEF LateSwitch, TypeOK, EsType, db
<1>6. ASSUME NEW e \in Ensures, EnsureStep(e) PROVE TypeOK'
  <2>1. CASE EnsureResolve(e)
    BY <2>1, EnsureGotoType DEF EnsureResolve, TypeOK, db, es
  <2>2. CASE EnsureExists(e)
    BY <2>2, EnsureGotoType DEF EnsureExists, TypeOK, db, es
  <2>3. CASE EnsureCreate(e)
    <3>1. EsType'
      BY <2>3, BootstrapType DEF EnsureCreate, TypeOK, EsType, es
    <3>2. ensure' \in [Ensures -> {"idle", "exists", "create", "ok", "failed"}]
      BY <2>3, EnsureGotoType DEF EnsureCreate
    <3> QED BY <2>3, <3>1, <3>2 DEF EnsureCreate, TypeOK, EsType, db
  <2>4. CASE EnsureFails(e)
    BY <2>4, EnsureGotoType, FaultType DEF EnsureFails, TypeOK, db, es, Managed
  <2> QED BY <1>6, <2>1, <2>2, <2>3, <2>4 DEF EnsureStep
<1>7. ASSUME NEW e \in Ensures, LateBootstrap(e) PROVE TypeOK'
  BY <1>7, BootstrapType DEF LateBootstrap, TypeOK, EsType, db
<1>8. CASE UNCHANGED vars
  BY <1>8 DEF vars, TypeOK
<1> QED BY <1>1, <1>2, <1>3, <1>4, <1>5, <1>6, <1>7, <1>8 DEF Next, Flush

-----------------------------------------------------------------------------
(* The ways the alias can change: a part of it goes, or an index that has   *)
(* never been live takes its whole place.                                   *)
AliasShrinks == alias' \subseteq alias
AliasMovesTo(n) == NotLive(n) /\ ~NotLive(n)' /\ alias' = {n}

\* The alias is the one thing an update or a bootstrap leaves behind.
LEMMA UpdateMoves ==
  ASSUME RebuildInv, NEW s \in Syncs, UpdateAliases(s),
         alias \cap Old \subseteq targets[s]
  PROVE  /\ alias' = {s}
         /\ s \in indices'
         /\ Alias \notin indices'
<1>1. Alias \notin alias
  BY DEF RebuildInv, AliasSound
<1>2. alias \subseteq Managed \cup Old
  BY <1>1 DEF RebuildInv, TypeOK, Names
<1>3. alias \ Removed(s) = {}
  BY <1>2 DEF UpdateAliases, Updatable, Removed
<1>4. s # Alias
  BY FullSyncAssumption
<1> QED BY <1>3, <1>4 DEF UpdateAliases, Updatable

(* A bootstrap puts the alias on the index it creates when no old index has *)
(* it.                                                                      *)
LEMMA BootstrapMoves ==
  ASSUME RebuildInv, NEW e \in Ensures, Bootstrap(e), alias \cap Old = {}
  PROVE  /\ alias' = {e}
         /\ e \in indices'
         /\ Alias \notin indices'
<1>1. Alias \notin alias
  BY DEF RebuildInv, AliasSound
<1>2. alias \subseteq Managed \cup Old
  BY <1>1 DEF RebuildInv, TypeOK, Names
<1>3. alias = {}
  BY <1>2 DEF Bootstrap, Bootstrappable
<1> QED BY <1>3, FullSyncAssumption DEF Bootstrap, Bootstrappable

(* Where the control of the rebuilds may go.                                *)
LEMMA LateStep == TypeOK /\ LateFailed /\ [Next]_vars => LateFailed'
<1> SUFFICES ASSUME TypeOK, LateFailed, [Next]_vars PROVE LateFailed'
  OBVIOUS
<1> USE FullSyncAssumption DEF LateFailed
<1>1. ASSUME UNCHANGED <<late, ensure>>, NEW s \in Syncs, pc[s] # "failed",
             \A t \in Syncs \ {s} : pc'[t] = pc[t]
      PROVE  LateFailed'
  BY <1>1
<1>2. ASSUME late' \subseteq late, UNCHANGED <<pc, ensure>> PROVE LateFailed'
  BY <1>2
<1>3. ASSUME UNCHANGED <<late, pc>>, NEW e \in Ensures, ensure[e] # "failed",
             \A f \in Ensures \ {e} : ensure'[f] = ensure[f]
      PROVE  LateFailed'
  BY <1>3
<1>4. ASSUME NEW s \in Syncs, SyncStep(s) PROVE LateFailed'
  <2>1. CASE SwitchUnanswered(s)
    BY <2>1 DEF SwitchUnanswered, Goto, TypeOK
  <2>2. CASE ~SwitchUnanswered(s)
    <3>1. UNCHANGED <<late, ensure>> /\ pc[s] # "failed"
      BY <1>4, <2>2 DEF SyncStep, ResolveAlias, IndexExists, CreateIndex, EarlyFailure,
         ScanBatch, CloseIndexer, ScanFails, Discard, SwitchAlias, SwitchRefused,
         DeleteReplaced, DeleteFails
    <3>2. \A t \in Syncs \ {s} : pc'[t] = pc[t]
      BY <1>4, <2>2 DEF SyncStep, ResolveAlias, IndexExists, CreateIndex, EarlyFailure,
         ScanBatch, CloseIndexer, ScanFails, Discard, SwitchAlias, SwitchRefused,
         DeleteReplaced, DeleteFails, Goto, TypeOK
    <3> QED BY <3>1, <3>2, <1>1
  <2> QED BY <2>1, <2>2
<1>5. ASSUME NEW e \in Ensures, EnsureStep(e) PROVE LateFailed'
  <2>1. CASE EnsureFails(e)
    BY <2>1 DEF EnsureFails, EnsureGoto, TypeOK
  <2>2. CASE ~EnsureFails(e)
    <3>1. UNCHANGED <<late, pc>> /\ ensure[e] # "failed"
      BY <1>5, <2>2 DEF EnsureStep, EnsureResolve, EnsureExists, EnsureCreate
    <3>2. \A f \in Ensures \ {e} : ensure'[f] = ensure[f]
      BY <1>5, <2>2 DEF EnsureStep, EnsureResolve, EnsureExists, EnsureCreate, EnsureGoto, TypeOK
    <3> QED BY <3>1, <3>2, <1>3
  <2> QED BY <2>1, <2>2
<1>6. ASSUME late' \subseteq late, UNCHANGED <<pc, ensure>> PROVE LateFailed'
  BY <1>6
<1> QED BY <1>2, <1>4, <1>5
        DEF Next, Flush, Write, Deliver, FlushItem, FlushFails, LateSwitch, LateBootstrap, vars

(* A live or finished index is never again one that has not been live.      *)
LEMMA NotLiveStep ==
  ASSUME TypeOK, LateFailed, [Next]_vars, NEW n \in Managed, NotLive(n)'
  PROVE  NotLive(n)
<1> USE FullSyncAssumption DEF NotLive, Managed
<1>1. ASSUME NEW s \in Syncs, SyncStep(s) PROVE NotLive(n)
  <2>1. CASE SwitchUnanswered(s)
    BY <2>1 DEF SwitchUnanswered, Goto, TypeOK
  <2>2. CASE ~SwitchUnanswered(s)
    <3>1. UNCHANGED <<late, ensure>>
      BY <1>1, <2>2 DEF SyncStep, ResolveAlias, IndexExists, CreateIndex, EarlyFailure,
         ScanBatch, CloseIndexer, ScanFails, Discard, SwitchAlias, SwitchRefused,
         DeleteReplaced, DeleteFails
    <3>2. \A t \in Syncs \ {s} : pc'[t] = pc[t]
      BY <1>1, <2>2 DEF SyncStep, ResolveAlias, IndexExists, CreateIndex, EarlyFailure,
         ScanBatch, CloseIndexer, ScanFails, Discard, SwitchAlias, SwitchRefused,
         DeleteReplaced, DeleteFails, Goto, TypeOK
    <3>3. pc[s] \in {"delete", "ok", "failed"} => pc'[s] \in {"ok", "failed"}
      BY <1>1, <2>2 DEF SyncStep, ResolveAlias, IndexExists, CreateIndex, EarlyFailure,
         ScanBatch, CloseIndexer, ScanFails, Discard, SwitchAlias, SwitchRefused,
         DeleteReplaced, DeleteFails, Goto, TypeOK
    <3> QED BY <3>1, <3>2, <3>3
  <2> QED BY <2>1, <2>2
<1>2. ASSUME NEW e \in Ensures, EnsureStep(e) PROVE NotLive(n)
  <2>1. UNCHANGED pc
    BY <1>2 DEF EnsureStep, EnsureResolve, EnsureExists, EnsureCreate, EnsureFails
  <2>2. ensure[e] \notin {"ok", "failed"}
    BY <1>2 DEF EnsureStep, EnsureResolve, EnsureExists, EnsureCreate, EnsureFails
  <2>3. \A f \in Ensures \ {e} : ensure'[f] = ensure[f]
    BY <1>2 DEF EnsureStep, EnsureResolve, EnsureExists, EnsureCreate, EnsureFails,
                EnsureGoto, TypeOK
  <2>4. late' \subseteq late \cup {e}
    BY <1>2 DEF EnsureStep, EnsureResolve, EnsureExists, EnsureCreate, EnsureFails
  <2> QED BY <2>1, <2>2, <2>3, <2>4
<1>3. ASSUME late' \subseteq late, UNCHANGED <<pc, ensure>> PROVE NotLive(n)
  BY <1>3
<1> QED BY <1>1, <1>2, <1>3
        DEF Next, Flush, Write, Deliver, FlushItem, FlushFails, LateSwitch, LateBootstrap, vars

(* What a rebuild knows of the alias it learns before it creates its index. *)
LEMMA TargetsStep ==
  ASSUME TypeOK, [Next]_vars, NEW s \in Syncs
  PROVE  \/ targets'[s] = targets[s]
         \/ pc[s] \in {"idle", "exists"} /\ targets'[s] \subseteq alias \cup {Alias}
<1>1. ASSUME NEW t \in Syncs, SyncStep(t)
      PROVE  \/ targets'[s] = targets[s]
             \/ pc[s] \in {"idle", "exists"} /\ targets'[s] \subseteq alias \cup {Alias}
  BY <1>1 DEF SyncStep, ResolveAlias, IndexExists, CreateIndex, EarlyFailure, ScanBatch,
     CloseIndexer, ScanFails, Discard, SwitchAlias, SwitchRefused, SwitchUnanswered,
     DeleteReplaced, DeleteFails, TypeOK
<1>2. ASSUME UNCHANGED targets PROVE targets'[s] = targets[s]
  BY <1>2
<1> QED BY <1>1, <1>2
        DEF Next, Flush, Write, Deliver, FlushItem, FlushFails, LateSwitch, LateBootstrap,
            EnsureStep, EnsureResolve, EnsureExists, EnsureCreate, EnsureFails, vars

-----------------------------------------------------------------------------
(* Every step leaves the alias sound and readers with an index.             *)
AliasStepOK == /\ AliasShrinks \/ \E n \in Managed : AliasMovesTo(n)
               /\ AliasSound'
               /\ NameExists => NameExists'

(* A step that leaves the alias alone, and deletes nothing, is sound for    *)
(* readers.                                                                 *)
LEMMA QuietAlias ==
  ASSUME AliasSound, UNCHANGED alias, indices \subseteq indices',
         Alias \in indices' => Alias \in indices \/ alias = {}
  PROVE  AliasStepOK
BY DEF AliasSound, AliasStepOK, AliasShrinks, NameExists

(* A step that moves the alias to a new index is sound for readers.         *)
LEMMA MovedAlias ==
  ASSUME NEW n \in Managed, NotLive(n), ~NotLive(n)', alias' = {n},
         n \in indices', Alias \notin indices'
  PROVE  AliasStepOK
BY DEF AliasSound, AliasStepOK, AliasMovesTo, NameExists

(* Deleting indices the alias does not name is sound for readers.           *)
LEMMA DetachedDelete ==
  ASSUME AliasSound, NEW gone, Deleted(gone), gone \cap alias = {}, Alias \notin gone
  PROVE  AliasStepOK
BY DEF AliasSound, AliasStepOK, AliasShrinks, NameExists, Deleted

(* Every step of rebuilds and bootstraps is sound for readers.              *)
LEMMA AliasStep == RebuildInv /\ [Next]_vars => AliasStepOK
<1> SUFFICES ASSUME RebuildInv, [Next]_vars PROVE AliasStepOK
  OBVIOUS
<1> USE FullSyncAssumption
<1>0. AliasSound /\ Alias \notin alias
  BY DEF RebuildInv, AliasSound
<1>1. ASSUME UNCHANGED <<alias, indices>> PROVE AliasStepOK
  BY <1>0, <1>1, QuietAlias
<1>2. ASSUME NEW i \in Ids, Deliver(i) PROVE AliasStepOK
  BY <1>0, <1>2, QuietAlias DEF Deliver
<1>3. ASSUME NEW s \in Syncs, SyncStep(s) PROVE AliasStepOK
  <2>1. CASE CreateIndex(s) \/ EarlyFailure(s)
    BY <1>0, <2>1, QuietAlias DEF CreateIndex, EarlyFailure
  <2>2. CASE Discard(s)
    <3>1. {s} \cap alias = {} /\ Alias \notin {s}
      BY <2>2 DEF Discard, RebuildInv, NamesFresh, NotLive, Managed
    <3> QED BY <1>0, <1>1, <2>2, <3>1, DetachedDelete DEF Discard, es
  <2>3. CASE SwitchAlias(s)
    <3>1. alias \cap Old \subseteq targets[s]
      BY <2>3 DEF SwitchAlias, RebuildInv, OldCovered
    <3>2. NotLive(s)
      BY <2>3 DEF SwitchAlias, NotLive
    <3>3. pc'[s] = "delete" /\ s \notin late'
      BY <2>3 DEF SwitchAlias, Goto, RebuildInv, TypeOK, LateFailed
    <3>4. ~NotLive(s)'
      BY <3>3 DEF NotLive
    <3>5. /\ alias' = {s}
          /\ s \in indices'
          /\ Alias \notin indices'
      BY <2>3, <3>1, UpdateMoves DEF SwitchAlias
    <3> QED BY <3>2, <3>4, <3>5, MovedAlias DEF Managed
  <2>4. CASE DeleteReplaced(s) \/ DeleteFails(s)
    <3>1. Replaced(s) \cap alias = {}
      BY <2>4 DEF DeleteReplaced, DeleteFails, RebuildInv, Detached, Replaced
    <3>2. Deleted(Replaced(s)) \/ UNCHANGED <<alias, indices>>
      BY <2>4 DEF DeleteReplaced, DeleteFails, es
    <3>3. CASE Alias \notin Replaced(s)
      BY <1>0, <1>1, <3>1, <3>2, <3>3, DetachedDelete
    <3>4. CASE Alias \in Replaced(s)
      <4>1. Alias \in targets[s] /\ targets[s] # {Alias}
        BY <3>4 DEF Replaced, Legacy
      <4> QED BY <4>1 DEF RebuildInv, LegacyAlone
    <3> QED BY <3>3, <3>4
  <2>5. CASE ~(CreateIndex(s) \/ EarlyFailure(s) \/ Discard(s) \/ SwitchAlias(s)
               \/ DeleteReplaced(s) \/ DeleteFails(s))
    BY <1>1, <1>3, <2>5 DEF SyncStep, ResolveAlias, IndexExists, ScanBatch, CloseIndexer,
       ScanFails, SwitchRefused, SwitchUnanswered, es
  <2> QED BY <2>1, <2>2, <2>3, <2>4, <2>5
<1>4. ASSUME NEW s \in Syncs, LateSwitch(s) PROVE AliasStepOK
  <2>1. alias \cap Old \subseteq targets[s]
    BY <1>4 DEF LateSwitch, RebuildInv, OldCovered
  <2>2. NotLive(s)
    BY <1>4 DEF LateSwitch, NotLive
  <2>3. pc'[s] = "failed" /\ s \notin late'
    BY <1>4 DEF LateSwitch, RebuildInv, LateFailed
  <2>4. ~NotLive(s)'
    BY <2>3 DEF NotLive
  <2>5. /\ alias' = {s}
        /\ s \in indices'
        /\ Alias \notin indices'
    BY <1>4, <2>1, UpdateMoves DEF LateSwitch
  <2> QED BY <2>2, <2>4, <2>5, MovedAlias DEF Managed
<1>5. ASSUME NEW e \in Ensures, EnsureStep(e) PROVE AliasStepOK
  <2>1. CASE EnsureCreate(e) /\ Bootstrap(e) /\ EnsureGoto(e, "ok")
    <3>1. alias \cap Old = {}
      BY <2>1 DEF EnsureCreate, RebuildInv, OldCovered
    <3>2. NotLive(e)
      BY <2>1 DEF EnsureCreate, NotLive
    <3>3. ensure'[e] = "ok" /\ e \notin late'
      BY <2>1 DEF EnsureCreate, EnsureGoto, RebuildInv, TypeOK, LateFailed
    <3>4. ~NotLive(e)'
      BY <3>3 DEF NotLive
    <3> QED BY <2>1, <3>1, <3>2, <3>4, BootstrapMoves, MovedAlias DEF Managed
  <2>2. CASE ~(EnsureCreate(e) /\ Bootstrap(e) /\ EnsureGoto(e, "ok"))
    BY <1>1, <1>5, <2>2 DEF EnsureStep, EnsureResolve, EnsureExists, EnsureCreate,
       EnsureFails, es
  <2> QED BY <2>1, <2>2
<1>6. ASSUME NEW e \in Ensures, LateBootstrap(e) PROVE AliasStepOK
  <2>1. alias \cap Old = {}
    BY <1>6 DEF LateBootstrap, RebuildInv, OldCovered
  <2>2. NotLive(e)
    BY <1>6 DEF LateBootstrap, NotLive
  <2>3. ensure'[e] = "failed" /\ e \notin late'
    BY <1>6 DEF LateBootstrap, RebuildInv, LateFailed
  <2>4. ~NotLive(e)'
    BY <2>3 DEF NotLive
  <2> QED BY <1>6, <2>1, <2>2, <2>4, BootstrapMoves, MovedAlias DEF LateBootstrap, Managed
<1> QED BY <1>1, <1>2, <1>3, <1>4, <1>5, <1>6
        DEF Next, Flush, Write, FlushItem, FlushFails, vars, es

(* An index that has not been live has not been seen behind the alias.      *)
LEMMA FreshStep == RebuildInv /\ [Next]_vars => NamesFresh'
<1> SUFFICES ASSUME RebuildInv, [Next]_vars,
                    NEW n \in Managed, NotLive(n)'
             PROVE  n \notin alias' /\ \A s \in Syncs : n \notin targets'[s]
  BY DEF NamesFresh
<1>1. NotLive(n)
  BY NotLiveStep DEF RebuildInv
<1>2. n \notin alias /\ \A s \in Syncs : n \notin targets[s]
  BY <1>1 DEF RebuildInv, NamesFresh
<1>3. n \notin alias'
  BY <1>2, AliasStep DEF AliasStepOK, AliasShrinks, AliasMovesTo
<1>4. n # Alias
  BY FullSyncAssumption DEF Managed
<1>5. ASSUME NEW s \in Syncs PROVE n \notin targets'[s]
  BY <1>2, <1>4, TargetsStep DEF RebuildInv
<1> QED BY <1>3, <1>5

(* What a rebuild will delete stays off the alias: only fresh indices get   *)
(* there.                                                                   *)
LEMMA DetachedStep == RebuildInv /\ [Next]_vars => Detached'
<1> SUFFICES ASSUME RebuildInv, [Next]_vars, NEW s \in Syncs, pc'[s] = "delete"
             PROVE  targets'[s] \cap alias' = {}
  BY DEF Detached
<1>1. CASE pc[s] = "delete"
  <2>1. targets'[s] = targets[s]
    BY <1>1, TargetsStep DEF RebuildInv
  <2>2. targets[s] \cap alias = {}
    BY <1>1 DEF RebuildInv, Detached
  <2>3. \A n \in Managed : NotLive(n) => n \notin targets[s]
    BY DEF RebuildInv, NamesFresh
  <2> QED BY <2>1, <2>2, <2>3, AliasStep DEF AliasStepOK, AliasShrinks, AliasMovesTo
<1>2. CASE pc[s] # "delete"
  <2>1. SwitchAlias(s)
    <3>1. ASSUME NEW t \in Syncs, SyncStep(t) PROVE SwitchAlias(s)
      BY <1>2, <3>1 DEF SyncStep, ResolveAlias, IndexExists, CreateIndex, EarlyFailure,
         ScanBatch, AfterBatch, CloseIndexer, ScanFails, Discard, SwitchAlias, SwitchRefused,
         SwitchUnanswered, DeleteReplaced, DeleteFails, Goto, RebuildInv, TypeOK
    <3>2. ASSUME UNCHANGED pc PROVE FALSE
      BY <1>2, <3>2
    <3> QED BY <3>1, <3>2
        DEF Next, Flush, Write, Deliver, FlushItem, FlushFails, LateSwitch, LateBootstrap,
            EnsureStep, EnsureResolve, EnsureExists, EnsureCreate, EnsureFails, vars
  <2>2. alias \cap Old \subseteq targets[s]
    BY <2>1 DEF SwitchAlias, RebuildInv, OldCovered
  <2>3. alias' = {s} /\ targets'[s] = targets[s]
    BY <2>1, <2>2, UpdateMoves DEF SwitchAlias
  <2>4. s \notin targets[s]
    BY <2>1 DEF SwitchAlias, RebuildInv, NamesFresh, NotLive, Managed
  <2> QED BY <2>3, <2>4
<1> QED BY <1>1, <1>2

(* Old indices only ever leave the alias.                                   *)
LEMMA OldShrinks ==
  ASSUME RebuildInv, [Next]_vars
  PROVE  alias' \cap Old \subseteq alias \cap Old
BY AliasStep, FullSyncAssumption DEF AliasStepOK, AliasShrinks, AliasMovesTo, Managed

(* Every rebuild that may still switch knows of the old index under the     *)
(* alias, whatever the others do.                                           *)
LEMMA CoveredStep == RebuildInv /\ [Next]_vars => OldCovered'
<1> SUFFICES ASSUME RebuildInv, [Next]_vars PROVE OldCovered'
  OBVIOUS
<1>1. alias' \cap Old \subseteq alias \cap Old
  BY OldShrinks
<1> DEFINE Knows(s) == pc[s] \in {"create", "scan", "close", "switch"} \/ s \in late
<1>2. ASSUME NEW s \in Syncs, NEW t \in Syncs, SyncStep(t)
      PROVE  /\ pc'[s] = "exists" => alias' \cap Old = {}
             /\ Knows(s)' => alias' \cap Old \subseteq targets'[s]
  <2>1. CASE s # t
    <3>1. pc'[s] = pc[s] /\ targets'[s] = targets[s] /\ (s \in late' => s \in late)
      BY <1>2, <2>1 DEF SyncStep, ResolveAlias, IndexExists, CreateIndex, EarlyFailure,
         ScanBatch, CloseIndexer, ScanFails, Discard, SwitchAlias, SwitchRefused,
         SwitchUnanswered, DeleteReplaced, DeleteFails, Goto, RebuildInv, TypeOK
    <3> QED BY <1>1, <3>1 DEF RebuildInv, OldCovered
  <2>2. CASE s = t
    <3>1. CASE ResolveAlias(s)
      BY <3>1 DEF ResolveAlias, Goto, RebuildInv, TypeOK, es, LateFailed
    <3>2. CASE IndexExists(s)
      <4>1. alias \cap Old = {} /\ pc'[s] = "create"
        BY <3>2 DEF IndexExists, Goto, RebuildInv, OldCovered, TypeOK
      <4> QED BY <1>1, <4>1
    <3>3. CASE SwitchUnanswered(s)
      BY <1>1, <3>3 DEF SwitchUnanswered, Goto, RebuildInv, OldCovered, TypeOK
    <3>4. CASE ~(ResolveAlias(s) \/ IndexExists(s) \/ SwitchUnanswered(s))
      <4>1. targets'[s] = targets[s] /\ late' = late
        BY <1>2, <2>2, <3>4 DEF SyncStep, CreateIndex, EarlyFailure, ScanBatch, CloseIndexer,
           ScanFails, Discard, SwitchAlias, SwitchRefused, DeleteReplaced, DeleteFails
      <4>2. pc'[s] # "exists" /\ (Knows(s)' => Knows(s))
        BY <1>2, <2>2, <3>4, <4>1 DEF SyncStep, CreateIndex, EarlyFailure, ScanBatch,
           AfterBatch, CloseIndexer, ScanFails, Discard, SwitchAlias, SwitchRefused,
           DeleteReplaced, DeleteFails, Goto, RebuildInv, TypeOK
      <4> QED BY <1>1, <4>1, <4>2 DEF RebuildInv, OldCovered
    <3> QED BY <3>1, <3>2, <3>3, <3>4
  <2> QED BY <2>1, <2>2
<1>3. ASSUME NEW e \in Ensures,
             ensure'[e] \in {"exists", "create"} \/ e \in late'
      PROVE  alias' \cap Old = {}
  <2>1. ASSUME NEW f \in Ensures, EnsureStep(f) PROVE alias' \cap Old = {}
    <3>1. CASE e = f
      <4>1. CASE EnsureResolve(e)
        BY <1>3, <4>1 DEF EnsureResolve, EnsureGoto, RebuildInv, TypeOK, LateFailed, es
      <4>2. CASE EnsureExists(e) \/ EnsureCreate(e) \/ EnsureFails(e)
        <5>1. alias \cap Old = {} \/ (e \notin late' /\ ensure'[e] = "failed")
          BY <4>2 DEF EnsureExists, EnsureCreate, EnsureFails, EnsureGoto, RebuildInv,
             OldCovered, LateFailed, TypeOK
        <5> QED BY <1>1, <1>3, <5>1
      <4> QED BY <2>1, <3>1, <4>1, <4>2 DEF EnsureStep
    <3>2. CASE e # f
      <4>1. ensure'[e] = ensure[e] /\ (e \in late' => e \in late)
        BY <2>1, <3>2 DEF EnsureStep, EnsureResolve, EnsureExists, EnsureCreate, EnsureFails,
           EnsureGoto, RebuildInv, TypeOK
      <4> QED BY <1>1, <1>3, <4>1 DEF RebuildInv, OldCovered
    <3> QED BY <3>1, <3>2
  <2>2. ASSUME UNCHANGED ensure, e \in late' => e \in late PROVE alias' \cap Old = {}
    BY <1>1, <1>3, <2>2 DEF RebuildInv, OldCovered
  <2>3. ASSUME NEW s \in Syncs, SyncStep(s) PROVE UNCHANGED ensure /\ (e \in late' => e \in late)
    BY <2>3, FullSyncAssumption DEF SyncStep, ResolveAlias, IndexExists, CreateIndex,
       EarlyFailure, ScanBatch, CloseIndexer, ScanFails, Discard, SwitchAlias, SwitchRefused,
       SwitchUnanswered, DeleteReplaced, DeleteFails
  <2> QED BY <2>1, <2>2, <2>3
        DEF Next, Flush, Write, Deliver, FlushItem, FlushFails, LateSwitch, LateBootstrap, vars
<1>4. ASSUME UNCHANGED <<pc, targets>>, \A s \in Syncs : s \in late' => s \in late,
             NEW s \in Syncs
      PROVE  /\ pc'[s] = "exists" => alias' \cap Old = {}
             /\ Knows(s)' => alias' \cap Old \subseteq targets'[s]
  BY <1>1, <1>4 DEF RebuildInv, OldCovered
<1>5. ASSUME NEW s \in Syncs
      PROVE  /\ pc'[s] = "exists" => alias' \cap Old = {}
             /\ Knows(s)' => alias' \cap Old \subseteq targets'[s]
  <2>1. ASSUME NEW e \in Ensures, EnsureStep(e)
        PROVE  UNCHANGED <<pc, targets>> /\ \A t \in Syncs : t \in late' => t \in late
    BY <2>1, FullSyncAssumption DEF EnsureStep, EnsureResolve, EnsureExists, EnsureCreate,
       EnsureFails
  <2> QED BY <1>2, <1>4, <2>1
        DEF Next, Flush, Write, Deliver, FlushItem, FlushFails, LateSwitch, LateBootstrap, vars
<1> QED BY <1>3, <1>5 DEF OldCovered

(* A legacy index is found alone, never among others.                       *)
LEMMA LegacyStep == RebuildInv /\ [Next]_vars => LegacyAlone'
<1> SUFFICES ASSUME RebuildInv, [Next]_vars, NEW s \in Syncs, Alias \in targets'[s]
             PROVE  targets'[s] = {Alias}
  BY DEF LegacyAlone
<1>1. Alias \notin alias
  BY DEF RebuildInv, AliasSound
<1>2. ASSUME NEW t \in Syncs, SyncStep(t) PROVE targets'[s] = {Alias}
  BY <1>1, <1>2 DEF SyncStep, ResolveAlias, IndexExists, CreateIndex, EarlyFailure, ScanBatch,
     CloseIndexer, ScanFails, Discard, SwitchAlias, SwitchRefused, SwitchUnanswered,
     DeleteReplaced, DeleteFails, RebuildInv, TypeOK, LegacyAlone
<1>3. ASSUME UNCHANGED targets PROVE targets'[s] = {Alias}
  BY <1>3 DEF RebuildInv, LegacyAlone
<1> QED BY <1>2, <1>3
        DEF Next, Flush, Write, Deliver, FlushItem, FlushFails, LateSwitch, LateBootstrap,
            EnsureStep, EnsureResolve, EnsureExists, EnsureCreate, EnsureFails, vars

-----------------------------------------------------------------------------
(* The inductive invariant of rebuilds, bootstraps and late requests.       *)
THEOREM RebuildInvariant == Spec => []RebuildInv
<1>1. Init => RebuildInv
  <2> SUFFICES ASSUME Init PROVE RebuildInv
    OBVIOUS
  <2> USE FullSyncAssumption
  <2>1. TypeOK
    <3>1. NoRows \in Rows
      BY DEF NoRows, Rows
    <3>2. docs \in [Names -> Rows]
      BY <3>1 DEF Init
    <3>3. indices \in SUBSET Names /\ alias \in SUBSET Names
      BY DEF Init, Names
    <3> QED BY <3>1, <3>2, <3>3 DEF Init, TypeOK
  <2>2. AliasSound
    BY DEF Init, AliasSound, Managed
  <2>3. NamesFresh
    BY DEF Init, NamesFresh, Managed
  <2>4. OldCovered /\ LateFailed /\ Detached /\ LegacyAlone
    BY DEF Init, OldCovered, LateFailed, Detached, LegacyAlone
  <2> QED BY <2>1, <2>2, <2>3, <2>4 DEF RebuildInv
<1>2. RebuildInv /\ [Next]_vars => RebuildInv'
  <2> SUFFICES ASSUME RebuildInv, [Next]_vars PROVE RebuildInv'
    OBVIOUS
  <2>1. TypeOK' /\ LateFailed'
    BY TypeStep, LateStep DEF RebuildInv
  <2>2. AliasSound'
    BY AliasStep DEF AliasStepOK
  <2>3. NamesFresh' /\ OldCovered' /\ Detached' /\ LegacyAlone'
    BY FreshStep, CoveredStep, DetachedStep, LegacyStep
  <2> QED BY <2>1, <2>2, <2>3 DEF RebuildInv
<1> QED BY <1>1, <1>2, PTL DEF Spec

(* The variables keep their types.                                          *)
THEOREM TypeCorrect == Spec => []TypeOK
<1>1. RebuildInv => TypeOK
  BY DEF RebuildInv
<1> QED BY <1>1, RebuildInvariant, PTL

(* The alias names existing indices, and one made by the library alone.     *)
THEOREM AliasAlwaysSound == Spec => []AliasSound
<1>1. RebuildInv => AliasSound
  BY DEF RebuildInv
<1> QED BY <1>1, RebuildInvariant, PTL

(* Whoever can find an index under the name always can: no rebuild, however *)
(* late its requests arrive, deletes what the alias names.                  *)
THEOREM AlwaysServed == Spec => NoGap
<1>1. RebuildInv /\ [Next]_vars => [NameExists => NameExists']_vars
  BY AliasStep DEF AliasStepOK
<1> QED BY <1>1, RebuildInvariant, PTL DEF Spec, NoGap

-----------------------------------------------------------------------------
(* Nothing is left behind.                                                  *)

\* Whoever will delete an index, or the alias.
HasOwner(n) ==
  \/ n \in alias
  \/ n = Alias /\ alias = {}
  \/ n \in Syncs /\ pc[n] \notin {"idle", "delete", "ok"}
  \/ n # Alias /\ \E s \in Syncs : pc[s] \in {"delete", "failed"} /\ n \in targets[s]

OwnerInv ==
  /\ \A n \in indices : HasOwner(n)
  /\ \A s \in Syncs : pc[s] \in {"delete", "ok"} => alias # {}

(* An alias that names an index names one after every step.                 *)
LEMMA StaysNamed ==
  ASSUME RebuildInv, [Next]_vars, alias # {}
  PROVE  alias' # {}
<1>1. Alias \notin indices
  BY DEF RebuildInv, AliasSound
<1>2. Alias \notin indices'
  <2> USE FullSyncAssumption
  <2>1. ASSUME NEW i \in Ids, Deliver(i) PROVE Alias \notin indices'
    BY <1>1, <2>1 DEF Deliver, NameExists
  <2>2. ASSUME NEW s \in Syncs, SyncStep(s) PROVE Alias \notin indices'
    BY <1>1, <2>2 DEF SyncStep, ResolveAlias, IndexExists, CreateIndex, EarlyFailure, ScanBatch,
       CloseIndexer, ScanFails, Discard, SwitchAlias, SwitchRefused, SwitchUnanswered,
       DeleteReplaced, DeleteFails, UpdateAliases, Deleted, es
  <2>3. ASSUME NEW e \in Ensures, EnsureStep(e) \/ LateBootstrap(e) PROVE Alias \notin indices'
    BY <1>1, <2>3 DEF EnsureStep, EnsureResolve, EnsureExists, EnsureCreate, EnsureFails,
       LateBootstrap, Bootstrap, es
  <2> QED BY <1>1, <2>1, <2>2, <2>3
        DEF Next, Flush, Write, FlushItem, FlushFails, LateSwitch, UpdateAliases, vars, es
<1> QED BY <1>2, AliasStep DEF AliasStepOK, NameExists

(* Where a rebuild is about to delete, its switch has happened.             *)
LEMMA NamedStep ==
  ASSUME RebuildInv, OwnerInv, [Next]_vars, NEW s \in Syncs, pc'[s] \in {"delete", "ok"}
  PROVE  alias' # {}
<1>1. CASE pc[s] \in {"delete", "ok"}
  BY <1>1, StaysNamed DEF OwnerInv
<1>2. CASE pc[s] \notin {"delete", "ok"}
  <2>1. SwitchAlias(s)
    <3>1. ASSUME NEW t \in Syncs, SyncStep(t) PROVE SwitchAlias(s)
      BY <1>2, <3>1 DEF SyncStep, ResolveAlias, IndexExists, CreateIndex, EarlyFailure,
         ScanBatch, AfterBatch, CloseIndexer, ScanFails, Discard, SwitchAlias, SwitchRefused,
         SwitchUnanswered, DeleteReplaced, DeleteFails, Goto, RebuildInv, TypeOK
    <3>2. ASSUME UNCHANGED pc PROVE FALSE
      BY <1>2, <3>2
    <3> QED BY <3>1, <3>2
        DEF Next, Flush, Write, Deliver, FlushItem, FlushFails, LateSwitch, LateBootstrap,
            EnsureStep, EnsureResolve, EnsureExists, EnsureCreate, EnsureFails, vars
  <2> QED BY <2>1 DEF SwitchAlias, UpdateAliases
<1> QED BY <1>1, <1>2

(* The switch hands what the alias named to the rebuild that replaced it.   *)
LEMMA OwnerBySwitch ==
  ASSUME RebuildInv, \A n \in indices : HasOwner(n), NEW s \in Syncs, UpdateAliases(s),
         alias \cap Old \subseteq targets[s], UNCHANGED targets,
         pc'[s] \in {"delete", "failed"}, pc[s] \in {"switch", "failed"},
         pc' = [pc EXCEPT ![s] = pc'[s]], pc[s] = "failed" => pc'[s] = "failed"
  PROVE  \A n \in indices' : HasOwner(n)'
<1> SUFFICES ASSUME NEW n \in indices' PROVE HasOwner(n)'
  OBVIOUS
<1>1. alias' = {s} /\ Alias \notin indices'
  BY UpdateMoves
<1>2. CASE n = s
  BY <1>1, <1>2 DEF HasOwner
<1>3. CASE n # s
  <2>1. n \in indices /\ n # Alias
    BY <1>1 DEF UpdateAliases
  <2>2. \A t \in Syncs \ {s} : pc'[t] = pc[t]
    BY DEF RebuildInv, TypeOK
  <2>3. CASE n \in alias
    <3>1. n \in targets[s]
      BY <1>1, <1>3, <2>3 DEF UpdateAliases, Removed
    <3> QED BY <2>1, <3>1 DEF HasOwner
  <2>4. CASE n \in Syncs /\ pc[n] \notin {"idle", "delete", "ok"}
    BY <1>3, <2>2, <2>4 DEF HasOwner
  <2>5. ASSUME NEW t \in Syncs, pc[t] \in {"delete", "failed"}, n \in targets[t]
        PROVE  HasOwner(n)'
    <3>1. pc'[t] \in {"delete", "failed"} /\ n \in targets'[t]
      BY <2>2, <2>5
    <3> QED BY <2>1, <3>1 DEF HasOwner
  <2> QED BY <2>1, <2>3, <2>4, <2>5 DEF HasOwner
<1> QED BY <1>2, <1>3

(* A step that moves one rebuild on and takes no index from the alias       *)
(* leaves every index with its owner.                                       *)
LEMMA OwnerKept ==
  ASSUME RebuildInv, \A n \in indices : HasOwner(n), [Next]_vars, NEW n \in indices',
         n \in indices, alias \subseteq alias',
         n \in Syncs /\ pc[n] \notin {"idle", "delete", "ok"}
           => pc'[n] \notin {"idle", "delete", "ok"},
         \A s \in Syncs : pc[s] \in {"delete", "failed"} /\ n \in targets[s] /\ n # Alias
           => pc'[s] \in {"delete", "failed"} /\ targets'[s] = targets[s]
  PROVE  HasOwner(n)'
<1>1. CASE n = Alias
  BY <1>1, AliasStep DEF AliasStepOK, AliasSound, HasOwner
<1>2. CASE n # Alias
  BY <1>2 DEF HasOwner
<1> QED BY <1>1, <1>2

(* Every index has somebody to delete it, or the alias.                     *)
LEMMA OwnerStep == RebuildInv /\ OwnerInv /\ [Next]_vars => OwnerInv'
<1> SUFFICES ASSUME RebuildInv, OwnerInv, [Next]_vars PROVE OwnerInv'
  OBVIOUS
<1> USE FullSyncAssumption
<1>0. \A n \in indices : HasOwner(n)
  BY DEF OwnerInv
<1>1. ASSUME indices' \subseteq indices, alias \subseteq alias', UNCHANGED <<pc, targets>>
      PROVE  \A n \in indices' : HasOwner(n)'
  BY <1>0, <1>1, OwnerKept
<1>2. ASSUME NEW i \in Ids, Deliver(i) PROVE \A n \in indices' : HasOwner(n)'
  <2>1. CASE UNCHANGED indices
    BY <1>1, <1>2, <2>1 DEF Deliver
  <2>2. CASE alias = {} /\ indices' = indices \cup {Alias}
    <3>1. UNCHANGED <<alias, pc, targets>>
      BY <1>2 DEF Deliver
    <3>2. ASSUME NEW n \in indices', n # Alias PROVE HasOwner(n)'
      BY <1>0, <2>2, <3>1, <3>2, OwnerKept
    <3>3. HasOwner(Alias)'
      BY <2>2, <3>1 DEF HasOwner
    <3> QED BY <3>2, <3>3
  <2> QED BY <1>2, <2>1, <2>2 DEF Deliver
<1>3. ASSUME NEW s \in Syncs, SyncStep(s) PROVE \A n \in indices' : HasOwner(n)'
  <2>0. \A t \in Syncs \ {s} : pc'[t] = pc[t] /\ targets'[t] = targets[t]
    BY <1>3 DEF SyncStep, ResolveAlias, IndexExists, CreateIndex, EarlyFailure, ScanBatch,
       CloseIndexer, ScanFails, Discard, SwitchAlias, SwitchRefused, SwitchUnanswered,
       DeleteReplaced, DeleteFails, Goto, RebuildInv, TypeOK
  <2>1. CASE CreateIndex(s) \/ EarlyFailure(s)
    <3>1. /\ pc[s] \notin {"delete", "failed"} /\ pc'[s] \in {"scan", "failed"}
          /\ indices' \subseteq indices \cup {s} /\ alias' = alias
      BY <2>1 DEF CreateIndex, EarlyFailure, Goto, RebuildInv, TypeOK
    <3>2. HasOwner(s)'
      BY <3>1 DEF HasOwner
    <3>3. ASSUME NEW n \in indices', n # s PROVE HasOwner(n)'
      BY <1>0, <2>0, <3>1, <3>3, OwnerKept
    <3> QED BY <3>2, <3>3
  <2>2. CASE SwitchAlias(s)
    <3>1. UpdateAliases(s) /\ UNCHANGED targets /\ alias \cap Old \subseteq targets[s]
      BY <2>2 DEF SwitchAlias, RebuildInv, OldCovered
    <3>2. pc[s] = "switch" /\ pc'[s] = "delete" /\ pc' = [pc EXCEPT ![s] = pc'[s]]
      BY <2>2 DEF SwitchAlias, Goto, RebuildInv, TypeOK
    <3> QED BY <1>0, <3>1, <3>2, OwnerBySwitch
  <2>3. CASE DeleteReplaced(s)
    <3>1. pc[s] = "delete" /\ targets[s] \cap alias = {}
      BY <2>3 DEF DeleteReplaced, RebuildInv, Detached
    <3>2. alias' = alias /\ indices' = indices \ Replaced(s)
      BY <2>3, <3>1 DEF DeleteReplaced, Deleted, Replaced
    <3>3. ASSUME NEW n \in indices' PROVE n # Alias => n \notin targets[s]
      BY <3>2, <3>3 DEF Replaced, Legacy
    <3> QED BY <1>0, <2>0, <3>1, <3>2, <3>3, OwnerKept
  <2>4. CASE DeleteFails(s)
    <3>1. pc[s] = "delete" /\ targets[s] \cap alias = {} /\ pc'[s] = "failed"
          /\ targets' = targets
      BY <2>4 DEF DeleteFails, RebuildInv, Detached, Goto, TypeOK
    <3>2. alias' = alias /\ indices' \subseteq indices
      BY <2>4, <3>1 DEF DeleteFails, Deleted, Replaced, es
    <3> QED BY <1>0, <2>0, <3>1, <3>2, OwnerKept
  <2>5. CASE Discard(s)
    <3>1. s \notin alias
      BY <2>5 DEF Discard, RebuildInv, NamesFresh, NotLive, Managed
    <3>2. alias' = alias /\ indices' \subseteq indices
      BY <2>5, <3>1 DEF Discard, Deleted, es
    <3>3. pc[s] = "discard" /\ pc'[s] = "failed"
      BY <2>5 DEF Discard, Goto, RebuildInv, TypeOK
    <3> QED BY <1>0, <2>0, <3>2, <3>3, OwnerKept
  <2>6. CASE ~(CreateIndex(s) \/ EarlyFailure(s) \/ SwitchAlias(s) \/ DeleteReplaced(s)
               \/ DeleteFails(s) \/ Discard(s))
    <3>1. /\ indices' = indices /\ alias' = alias
          /\ pc[s] \notin {"delete", "failed", "ok"}
          /\ pc[s] # "idle" => pc'[s] \notin {"idle", "delete", "ok"}
      BY <1>3, <2>6 DEF SyncStep, ResolveAlias, IndexExists, ScanBatch, AfterBatch, CloseIndexer,
         ScanFails, SwitchRefused, SwitchUnanswered, Goto, es, RebuildInv, TypeOK
    <3> QED BY <1>0, <2>0, <3>1, OwnerKept
  <2> QED BY <2>1, <2>2, <2>3, <2>4, <2>5, <2>6
<1>4. ASSUME NEW s \in Syncs, LateSwitch(s) PROVE \A n \in indices' : HasOwner(n)'
  <2>1. UpdateAliases(s) /\ UNCHANGED targets /\ alias \cap Old \subseteq targets[s]
    BY <1>4 DEF LateSwitch, RebuildInv, OldCovered
  <2>2. pc[s] = "failed" /\ pc'[s] = "failed" /\ pc' = [pc EXCEPT ![s] = pc'[s]]
    BY <1>4 DEF LateSwitch, RebuildInv, LateFailed, TypeOK
  <2> QED BY <1>0, <2>1, <2>2, OwnerBySwitch
<1>5. ASSUME NEW e \in Ensures, EnsureStep(e) \/ LateBootstrap(e)
      PROVE  \A n \in indices' : HasOwner(n)'
  <2>1. UNCHANGED <<pc, targets>>
    BY <1>5 DEF EnsureStep, EnsureResolve, EnsureExists, EnsureCreate, EnsureFails, LateBootstrap
  <2>2. CASE UNCHANGED <<indices, alias>>
    BY <1>1, <2>1, <2>2
  <2>3. CASE Bootstrap(e)
    <3>1. alias \subseteq alias' /\ e \in alias' /\ indices' = indices \cup {e}
      BY <2>3 DEF Bootstrap
    <3>2. HasOwner(e)'
      BY <3>1 DEF HasOwner
    <3>3. ASSUME NEW n \in indices', n # e PROVE HasOwner(n)'
      BY <1>0, <2>1, <3>1, <3>3, OwnerKept
    <3> QED BY <3>2, <3>3
  <2> QED BY <1>5, <2>2, <2>3 DEF EnsureStep, EnsureResolve, EnsureExists, EnsureCreate,
          EnsureFails, LateBootstrap, es
<1>6. \A n \in indices' : HasOwner(n)'
  BY <1>1, <1>2, <1>3, <1>4, <1>5
        DEF Next, Flush, Write, FlushItem, FlushFails, vars, es
<1>7. \A s \in Syncs : pc'[s] \in {"delete", "ok"} => alias' # {}
  BY NamedStep
<1> QED BY <1>6, <1>7 DEF OwnerInv

(* README.md:500: when every rebuild that started succeeded, whatever they  *)
(* raced with, the indices are those the alias names.                       *)
THEOREM NothingLeftBehind == Spec => []NothingLeft
<1>1. Init => OwnerInv
  BY DEF Init, OwnerInv, HasOwner
<1>2. RebuildInv /\ OwnerInv /\ [Next]_vars => OwnerInv'
  BY OwnerStep
<1>3. RebuildInv /\ OwnerInv => NothingLeft
  BY DEF RebuildInv, AliasSound, OwnerInv, HasOwner, NothingLeft
<1> QED BY <1>1, <1>2, <1>3, RebuildInvariant, PTL DEF Spec

-----------------------------------------------------------------------------
(* What one query of the scan returns.                                      *)

\* The rows a scan has still to copy.
After(s) == {i \in Ids : i > cursor[s] /\ table[i] # Absent}

(* A set of primary keys has a least one.                                   *)
LEMMA LeastKey ==
  ASSUME NEW K \in SUBSET Nat, K # {}
  PROVE  \E k \in K : \A j \in K : ~(j < k)
<1>1. \E k \in K : \A j \in K : <<j, k>> \notin OpToRel(<, Nat)
  BY NatLessThanWellFounded, WFMin
<1>2. PICK k \in K : \A j \in K : <<j, k>> \notin OpToRel(<, Nat)
  BY <1>1
<1>3. ASSUME NEW j \in K, j < k PROVE <<j, k>> \in OpToRel(<, Nat)
  BY <1>3 DEF OpToRel
<1> QED BY <1>2, <1>3

(* A query skips no row: with one that it returns it returns every earlier  *)
(* one that the scan has still to copy (fullsync_strategy.go:70-76).        *)
LEMMA BatchPrefix ==
  ASSUME NEW s, NEW i \in After(s), NEW j \in Batch(s), i <= j
  PROVE  i \in Batch(s)
<1> DEFINE Less(k) == {l \in After(s) : l < k}
<1>0. After(s) \subseteq Nat /\ i \in Nat /\ j \in Nat
  BY FullSyncAssumption DEF After, Batch
<1>1. Less(j) \in SUBSET Ids /\ Less(i) \in SUBSET Less(j)
  <2>1. Less(j) \in SUBSET Ids
    BY DEF After
  <2>2. \A l \in After(s) : l < i => l < j
    BY <1>0
  <2> QED BY <2>1, <2>2
<1>2. IsFiniteSet(Less(j))
  BY <1>1, FS_Subset, FullSyncAssumption
<1>3. Cardinality(Less(i)) <= Cardinality(Less(j)) /\ IsFiniteSet(Less(i))
  BY <1>1, <1>2, FS_Subset
<1>4. Cardinality(Less(i)) \in Nat /\ Cardinality(Less(j)) \in Nat
  BY <1>2, <1>3, FS_CardinalityType
<1>5. Cardinality(Less(j)) < BatchSize
  BY DEF Batch, After
<1>6. Cardinality(Less(i)) < BatchSize
  BY <1>3, <1>4, <1>5, FullSyncAssumption
<1> QED BY <1>6 DEF Batch, After

(* A query that returns less than a batch returns everything there is       *)
(* (fullsync.go:287).                                                       *)
LEMMA BatchComplete ==
  ASSUME NEW s, Cardinality(Batch(s)) < BatchSize
  PROVE  After(s) \subseteq Batch(s)
<1> SUFFICES ASSUME After(s) \ Batch(s) # {} PROVE FALSE
  OBVIOUS
<1>1. After(s) \in SUBSET Ids /\ Batch(s) \in SUBSET Ids
  BY DEF After, Batch
<1>2. (After(s) \ Batch(s)) \in SUBSET Nat
  BY <1>1, FullSyncAssumption
<1>3. PICK m \in After(s) \ Batch(s) : \A j \in After(s) \ Batch(s) : ~(j < m)
  BY <1>2, LeastKey
<1> DEFINE Less == {l \in After(s) : l < m}
<1>4. Less \in SUBSET Batch(s)
  BY <1>3
<1>5. IsFiniteSet(Batch(s))
  BY <1>1, FS_Subset, FullSyncAssumption
<1>6. Cardinality(Less) <= Cardinality(Batch(s)) /\ IsFiniteSet(Less)
  BY <1>4, <1>5, FS_Subset
<1>7. Cardinality(Less) \in Nat /\ Cardinality(Batch(s)) \in Nat
  BY <1>5, <1>6, FS_CardinalityType
<1>8. Cardinality(Less) < BatchSize
  BY <1>6, <1>7, FullSyncAssumption
<1>9. m \in Batch(s)
  BY <1>8 DEF Batch, After
<1> QED BY <1>3, <1>9

(* The scan ends only when there is nothing more to copy.                   *)
LEMMA ScanComplete ==
  ASSUME BatchSize # 0, NEW s, NEW c, AfterBatch(s, Batch(s), c) = "close"
  PROVE  After(s) \subseteq Batch(s)
<1>1. CASE Batch(s) = {}
  <2>1. Cardinality(Batch(s)) = 0
    BY <1>1, FS_EmptySet
  <2> QED BY <2>1, BatchComplete, FullSyncAssumption
<1>2. CASE Batch(s) # {}
  BY <1>2, BatchComplete DEF AfterBatch
<1> QED BY <1>1, <1>2

-----------------------------------------------------------------------------
(* What a rebuild has copied.                                               *)

\* The rows in the range of a rebuild that nobody changed since it has an
\* index and is not live.
Untouched(s) == {i \in Ids : i > StartID[s]} \ touched[s]

\* The copy of a row that the rebuild has sent or will send.
Sent(s, i) == IF queue[s][i] # Absent THEN queue[s][i] ELSE docs[s][i]

NotStarted(s) == pc[s] \in {"idle", "exists", "create"} =>
  /\ s \notin indices /\ docs[s] = NoRows /\ queue[s] = NoRows
  /\ touched[s] = {} /\ cursor[s] = StartID[s]

\* It may still be switched to.
Building(s) == pc[s] \in {"scan", "close", "switch"} \/ s \in late

Scanned(s) == pc[s] = "scan" => \A i \in Untouched(s) :
  /\ i <= cursor[s] => Sent(s, i) = table[i]
  /\ Sent(s, i) \in {Absent, table[i]}

Closing(s) == pc[s] = "close" => \A i \in Untouched(s) : Sent(s, i) = table[i]

Complete(s) == pc[s] = "switch" \/ s \in late =>
  \A i \in Untouched(s) : docs[s][i] = table[i]

Served(s) == s \in alias => \A i \in Untouched(s) : docs[s][i] = table[i] \/ i \in lag

\* No document of a bulk request has got lost.
NoLoss == used.bulk = 0

CopyOK(s) ==
  /\ NotStarted(s)
  /\ Building(s) => s \in indices
  /\ NoLoss => Scanned(s) /\ Closing(s) /\ Complete(s) /\ Served(s)

CopyInv == \A s \in Syncs : CopyOK(s)

\* What a step elsewhere leaves alone.
SameCopy(s) ==
  /\ pc'[s] = pc[s] /\ queue'[s] = queue[s] /\ cursor'[s] = cursor[s]
  /\ touched'[s] = touched[s] /\ docs'[s] = docs[s]
  /\ table' = table /\ lag \subseteq lag'
  /\ s \in late' => s \in late
  /\ s \in alias' => s \in alias
  /\ s \in indices' <=> s \in indices

(* What happens elsewhere leaves the copy of a rebuild what it is.          *)
LEMMA CopyFrame ==
  ASSUME NEW s, CopyOK(s), SameCopy(s), NoLoss' => NoLoss
  PROVE  CopyOK(s)'
<1>1. NotStarted(s)'
  BY DEF CopyOK, NotStarted, SameCopy, NoRows
<1>2. (Building(s) => s \in indices)'
  BY DEF CopyOK, Building, SameCopy
<1>3. Untouched(s)' = Untouched(s) /\ \A i \in Ids : Sent(s, i)' = Sent(s, i)
  BY DEF Untouched, Sent, SameCopy
<1>4. Untouched(s) \subseteq Ids
  BY DEF Untouched
<1>5. ASSUME NoLoss' PROVE (Scanned(s) /\ Closing(s) /\ Complete(s) /\ Served(s))'
  <2>1. Scanned(s) /\ Closing(s) /\ Complete(s) /\ Served(s)
    BY <1>5 DEF CopyOK
  <2>2. Scanned(s)'
    BY <1>3, <1>4, <2>1 DEF Scanned, SameCopy
  <2>3. Closing(s)'
    BY <1>3, <1>4, <2>1 DEF Closing, SameCopy
  <2>4. Complete(s)'
    BY <1>3, <1>4, <2>1 DEF Complete, SameCopy
  <2>5. Served(s)'
    BY <1>3, <1>4, <2>1 DEF Served, SameCopy
  <2> QED BY <2>2, <2>3, <2>4, <2>5
<1> QED BY <1>1, <1>2, <1>5 DEF CopyOK

(* A rebuild that has ended and is not behind the alias promises nothing.   *)
LEMMA CopyEnded ==
  ASSUME NEW s, pc'[s] \in {"discard", "delete", "ok", "failed"}, s \notin late', s \notin alias'
  PROVE  CopyOK(s)'
BY DEF CopyOK, NotStarted, Building, Scanned, Closing, Complete, Served

(* Bulk faults are counted.                                                 *)
LEMMA LossKept == TypeOK /\ [Next]_vars => (NoLoss' => NoLoss)
<1> SUFFICES ASSUME TypeOK, [Next]_vars, NoLoss' PROVE NoLoss
  OBVIOUS
<1>1. ASSUME UNCHANGED used \/ Fault PROVE NoLoss
  BY <1>1 DEF Fault, NoLoss, TypeOK
<1>2. ASSUME NEW i \in Ids, NEW c, Write(i, c) PROVE NoLoss
  BY <1>2 DEF Write, NoLoss, TypeOK
<1>3. ASSUME NEW s \in Syncs, NEW i \in Ids, FlushFails(s, i) PROVE NoLoss
  <2>1. used'.bulk = used.bulk + 1 /\ used.bulk \in Nat
    BY <1>3 DEF FlushFails, TypeOK
  <2> QED BY <2>1 DEF NoLoss
<1>4. ASSUME NEW s \in Syncs, SyncStep(s) PROVE NoLoss
  BY <1>1, <1>4 DEF SyncStep, ResolveAlias, IndexExists, CreateIndex, EarlyFailure, ScanBatch,
     CloseIndexer, ScanFails, Discard, SwitchAlias, SwitchRefused, SwitchUnanswered,
     DeleteReplaced, DeleteFails
<1> QED BY <1>1, <1>2, <1>3, <1>4
        DEF Next, Flush, Deliver, FlushItem, LateSwitch, LateBootstrap,
            EnsureStep, EnsureResolve, EnsureExists, EnsureCreate, EnsureFails, vars

(* A row that changes while a rebuild is not live is counted as touched, and *)
(* one that changes under a live rebuild is the relay's.                    *)
LEMMA CopyByWrite ==
  ASSUME RebuildInv, NEW s \in Syncs, CopyOK(s), NEW i \in Ids,
         NEW c \in Contents \cup {Absent}, Write(i, c), NoLoss' => NoLoss
  PROVE  CopyOK(s)'
<1>1. /\ UNCHANGED <<indices, docs, alias, late, pc, cursor, queue>>
      /\ lag' = lag \cup {i}
  BY DEF Write, es
<1>2. \A j \in Ids \ {i} : table'[j] = table[j]
  BY DEF Write, RebuildInv, TypeOK, Rows
<1>3. touched'[s] = IF s \in indices /\ s \notin alias THEN touched[s] \cup {i} ELSE touched[s]
  BY DEF Write
<1>4. NotStarted(s)'
  BY <1>1, <1>3 DEF CopyOK, NotStarted, NoRows
<1>5. (Building(s) => s \in indices)'
  BY <1>1 DEF CopyOK, Building
<1>6. Building(s) => NotLive(s)
  BY DEF Building, NotLive
<1>7. Building(s) => s \in indices /\ s \notin alias
  BY <1>6 DEF CopyOK, RebuildInv, NamesFresh, Managed
<1>8. Untouched(s)' \subseteq Untouched(s) /\ (Building(s) => i \notin Untouched(s)')
      /\ Untouched(s) \subseteq Ids
  BY <1>3, <1>7 DEF Untouched
<1>9. \A j \in Ids : Sent(s, j)' = Sent(s, j)
  BY <1>1 DEF Sent
<1>10. ASSUME NoLoss' PROVE (Scanned(s) /\ Closing(s) /\ Complete(s) /\ Served(s))'
  <2>1. Scanned(s) /\ Closing(s) /\ Complete(s) /\ Served(s)
    BY <1>10 DEF CopyOK
  <2>2. Scanned(s)'
    BY <1>1, <1>2, <1>8, <1>9, <2>1 DEF Scanned, Building
  <2>3. Closing(s)'
    BY <1>1, <1>2, <1>8, <1>9, <2>1 DEF Closing, Building
  <2>4. Complete(s)'
    BY <1>1, <1>2, <1>8, <2>1 DEF Complete, Building
  <2>5. Served(s)'
    BY <1>1, <1>2, <1>8, <2>1 DEF Served
  <2> QED BY <2>2, <2>3, <2>4, <2>5
<1> QED BY <1>4, <1>5, <1>10 DEF CopyOK

(* The relay writes to the live index only, and what the table says.        *)
LEMMA CopyByDeliver ==
  ASSUME RebuildInv, NEW s \in Syncs, CopyOK(s), NEW i \in Ids, Deliver(i), NoLoss' => NoLoss
  PROVE  CopyOK(s)'
<1>1. /\ UNCHANGED <<table, touched, alias, late, pc, cursor, queue>>
      /\ lag' = lag \ {i}
      /\ s \in indices' <=> s \in indices
  BY FullSyncAssumption DEF Deliver
<1>2. Building(s) => NotLive(s)
  BY DEF Building, NotLive
<1>3. pc[s] \in {"idle", "exists", "create"} => NotLive(s)
  BY DEF NotLive
<1>4. NotLive(s) => s \notin alias
  BY DEF RebuildInv, NamesFresh, Managed
<1>5. s \in Names /\ Alias # s
  BY FullSyncAssumption DEF Names, Managed
<1>6. s \notin alias => docs'[s] = docs[s]
  BY <1>5 DEF Deliver, RebuildInv, TypeOK
<1>7. \A j \in Ids : docs'[s][j] = docs[s][j] \/ (j = i /\ docs'[s][j] = table[j])
  BY <1>5 DEF Deliver, RebuildInv, TypeOK, Rows
<1>8. s \in alias => docs'[s][i] = table[i]
  BY <1>5 DEF Deliver, NameExists, RebuildInv, TypeOK, Rows
<1>9. NotStarted(s)'
  BY <1>1, <1>3, <1>4, <1>6 DEF CopyOK, NotStarted, NoRows
<1>10. (Building(s) => s \in indices)'
  BY <1>1 DEF CopyOK, Building
<1>11. Untouched(s)' = Untouched(s) /\ Untouched(s) \subseteq Ids
  BY <1>1 DEF Untouched
<1>12. Building(s) => \A j \in Ids : Sent(s, j)' = Sent(s, j)
  BY <1>1, <1>2, <1>4, <1>6 DEF Sent
<1>13. ASSUME NoLoss' PROVE (Scanned(s) /\ Closing(s) /\ Complete(s) /\ Served(s))'
  <2>1. Scanned(s) /\ Closing(s) /\ Complete(s) /\ Served(s)
    BY <1>13 DEF CopyOK
  <2>2. Scanned(s)'
    BY <1>1, <1>11, <1>12, <2>1 DEF Scanned, Building
  <2>3. Closing(s)'
    BY <1>1, <1>11, <1>12, <2>1 DEF Closing, Building
  <2>4. Complete(s)'
    BY <1>1, <1>2, <1>4, <1>6, <1>11, <2>1 DEF Complete, Building
  <2>5. Served(s)'
    BY <1>1, <1>7, <1>8, <1>11, <2>1 DEF Served
  <2> QED BY <2>2, <2>3, <2>4, <2>5
<1> QED BY <1>9, <1>10, <1>13 DEF CopyOK

(* A query copies the rows it returns; after it everything up to the cursor *)
(* is copied, and everything when it was the last (fullsync.go:252-291).    *)
LEMMA CopyByScan ==
  ASSUME RebuildInv, BatchSize # 0, NEW s \in Syncs, CopyOK(s), ScanBatch(s), NoLoss' => NoLoss
  PROVE  CopyOK(s)'
<1> DEFINE rows == Batch(s)
<1>0. PICK c \in Advanced(s, rows) :
        /\ cursor' = [cursor EXCEPT ![s] = c]
        /\ queue' = [queue EXCEPT ![s] =
                       [i \in Ids |-> IF i \in rows THEN table[i] ELSE queue[s][i]]]
        /\ Goto(s, AfterBatch(s, rows, c))
  BY DEF ScanBatch
<1>1. UNCHANGED <<table, lag, touched, indices, docs, alias, late>> /\ pc[s] = "scan"
  BY DEF ScanBatch, db, es
<1>2. pc'[s] = AfterBatch(s, rows, c) /\ cursor'[s] = c
  BY <1>0 DEF Goto, RebuildInv, TypeOK
<1>3. \A i \in Ids : queue'[s][i] = IF i \in rows THEN table[i] ELSE queue[s][i]
  BY <1>0 DEF RebuildInv, TypeOK
<1>4. AfterBatch(s, rows, c) \in {"scan", "close", "discard"}
  BY DEF AfterBatch
<1>5. s \notin alias /\ s \notin late
  BY <1>1 DEF RebuildInv, NamesFresh, LateFailed, NotLive, Managed
<1>6. NotStarted(s)' /\ (Building(s) => s \in indices)'
  BY <1>1, <1>2, <1>4, <1>5 DEF NotStarted, Building, CopyOK
<1>7. Complete(s)' /\ Served(s)'
  BY <1>1, <1>2, <1>4, <1>5 DEF Complete, Served
<1>8. Untouched(s)' = Untouched(s) /\ Untouched(s) \subseteq Ids
  BY <1>1 DEF Untouched
<1>9. rows \subseteq After(s)
  BY DEF Batch, After
<1>10. \A i \in Ids : i \in rows => Sent(s, i)' = table[i]
  BY <1>3, <1>9 DEF Sent, After
<1>11. \A i \in Ids : i \notin rows => Sent(s, i)' = Sent(s, i)
  BY <1>1, <1>3 DEF Sent
<1>12. ASSUME NoLoss', NEW i \in Untouched(s)
       PROVE  /\ Sent(s, i)' \in {Absent, table[i]}
              /\ i <= cursor[s] \/ i \notin After(s) \/ i \in rows => Sent(s, i)' = table[i]
  <2>1. i \in Ids /\ i \in Nat /\ cursor[s] \in Nat
    BY <1>8, FullSyncAssumption DEF RebuildInv, TypeOK
  <2>2. /\ i <= cursor[s] => Sent(s, i) = table[i]
        /\ Sent(s, i) \in {Absent, table[i]}
    BY <1>1, <1>12 DEF CopyOK, Scanned
  <2>3. i \notin After(s) => i <= cursor[s] \/ table[i] = Absent
    BY <2>1 DEF After
  <2> QED BY <1>10, <1>11, <2>1, <2>2, <2>3
<1>13. ASSUME NoLoss' PROVE Scanned(s)'
  <2>1. ASSUME NEW i \in Untouched(s), i <= c, c \in rows PROVE i \notin After(s) \/ i \in rows
    BY <2>1, BatchPrefix
  <2>2. c \in rows \/ c = cursor[s]
    BY DEF Advanced
  <2>3. \A i \in Untouched(s) : i <= c => Sent(s, i)' = table[i]
    BY <1>12, <1>13, <2>1, <2>2
  <2> QED BY <1>1, <1>2, <1>8, <1>12, <1>13, <2>3 DEF Scanned
<1>14. ASSUME NoLoss' PROVE Closing(s)'
  <2>1. pc'[s] = "close" => After(s) \subseteq rows
    BY <1>2, ScanComplete
  <2> QED BY <1>1, <1>8, <1>12, <1>14, <2>1 DEF Closing
<1> QED BY <1>6, <1>7, <1>13, <1>14 DEF CopyOK

(* The bulk indexer sends what was added, or loses it and counts it.        *)
LEMMA CopyByFlush ==
  ASSUME RebuildInv, NEW s \in Syncs, CopyOK(s), NEW i \in Ids,
         FlushItem(s, i) \/ FlushFails(s, i), NoLoss' => NoLoss
  PROVE  CopyOK(s)'
<1>1. /\ UNCHANGED <<table, lag, touched, indices, alias, late, pc, cursor>>
      /\ pc[s] \in {"scan", "close"}
  BY DEF FlushItem, FlushFails, db, es
<1>2. s \notin alias /\ s \notin late
  BY <1>1 DEF RebuildInv, NamesFresh, LateFailed, NotLive, Managed
<1>3. NotStarted(s)' /\ (Building(s) => s \in indices)' /\ Complete(s)' /\ Served(s)'
  BY <1>1, <1>2 DEF NotStarted, Building, Complete, Served, CopyOK
<1>4. Untouched(s)' = Untouched(s) /\ Untouched(s) \subseteq Ids
  BY <1>1 DEF Untouched
<1>5. CASE FlushFails(s, i)
  <2>1. ~NoLoss'
    <3>1. used'.bulk = used.bulk + 1 /\ used.bulk \in Nat
      BY <1>5 DEF FlushFails, RebuildInv, TypeOK
    <3> QED BY <3>1 DEF NoLoss
  <2> QED BY <1>3, <2>1 DEF CopyOK
<1>6. CASE FlushItem(s, i)
  <2>0. s \in Names
    BY DEF Names, Managed
  <2>1. docs'[s][i] = queue[s][i] /\ queue'[s][i] = Absent /\ queue[s][i] # Absent
    BY <1>6, <2>0 DEF FlushItem, RebuildInv, TypeOK, Rows
  <2>2. \A j \in Ids \ {i} : docs'[s][j] = docs[s][j] /\ queue'[s][j] = queue[s][j]
    BY <1>6, <2>0 DEF FlushItem, RebuildInv, TypeOK, Rows
  <2>3. \A j \in Ids : Sent(s, j)' = Sent(s, j)
    BY <2>1, <2>2 DEF Sent
  <2>4. ASSUME NoLoss' PROVE (Scanned(s) /\ Closing(s))'
    BY <1>1, <1>4, <2>3, <2>4 DEF CopyOK, Scanned, Closing
  <2> QED BY <1>3, <2>4 DEF CopyOK
<1> QED BY <1>5, <1>6

(* The other requests of a rebuild.                                         *)
LEMMA CopyOwn ==
  ASSUME RebuildInv, BatchSize # 0, NEW s \in Syncs, CopyOK(s), SyncStep(s), NoLoss' => NoLoss
  PROVE  CopyOK(s)'
<1> USE FullSyncAssumption
<1>0. s \in Names /\ s # Alias
  BY DEF Names, Managed
<1>1. NotLive(s) => s \notin alias
  BY DEF RebuildInv, NamesFresh, Managed
<1>2. pc[s] # "failed" => s \notin late
  BY DEF RebuildInv, LateFailed
<1>3. CASE ResolveAlias(s) \/ IndexExists(s)
  <2>1. /\ UNCHANGED <<table, lag, touched, indices, docs, alias, late, cursor, queue>>
        /\ pc[s] \in {"idle", "exists"} /\ pc'[s] \in {"exists", "create"}
    BY <1>3 DEF ResolveAlias, IndexExists, Goto, RebuildInv, TypeOK, db, es
  <2>2. s \notin alias' /\ s \notin late'
    BY <1>1, <1>2, <2>1 DEF NotLive
  <2>3. NotStarted(s)'
    BY <2>1 DEF CopyOK, NotStarted, NoRows
  <2> QED BY <2>1, <2>2, <2>3 DEF CopyOK, Building, Scanned, Closing, Complete, Served
<1>4. CASE CreateIndex(s)
  <2>1. /\ UNCHANGED <<table, lag, touched, docs, alias, late, cursor, queue>>
        /\ pc[s] = "create" /\ pc'[s] = "scan" /\ s \in indices'
    BY <1>4 DEF CreateIndex, Goto, RebuildInv, TypeOK, db
  <2>2. s \notin alias' /\ s \notin late'
    BY <1>1, <1>2, <2>1 DEF NotLive
  <2>3. docs[s] = NoRows /\ queue[s] = NoRows /\ cursor[s] = StartID[s]
    BY <2>1 DEF CopyOK, NotStarted
  <2>4. \A i \in Ids : Sent(s, i)' = Absent
    BY <2>1, <2>3 DEF Sent, NoRows
  <2>5. \A i \in Untouched(s)' : i \in Ids /\ i \in Nat /\ ~(i <= StartID[s])
    BY DEF Untouched
  <2>6. Scanned(s)'
    BY <2>1, <2>3, <2>4, <2>5 DEF Scanned
  <2> QED BY <2>1, <2>2, <2>6 DEF CopyOK, NotStarted, Building, Closing, Complete, Served
<1>5. CASE EarlyFailure(s) \/ ScanFails(s) \/ SwitchRefused(s)
  <2>1. /\ UNCHANGED <<alias, late>> /\ pc[s] \notin {"delete", "ok", "failed"}
        /\ pc'[s] \in {"discard", "failed"}
    BY <1>5 DEF EarlyFailure, ScanFails, SwitchRefused, Goto, RebuildInv, TypeOK, es
  <2> QED BY <1>1, <1>2, <2>1, CopyEnded DEF NotLive
<1>6. CASE ScanBatch(s)
  BY <1>6, CopyByScan
<1>7. CASE CloseIndexer(s)
  <2>1. /\ UNCHANGED <<table, lag, touched, indices, docs, alias, late, cursor, queue>>
        /\ pc[s] = "close" /\ pc'[s] = "switch" /\ queue[s] = NoRows
    BY <1>7 DEF CloseIndexer, Goto, RebuildInv, TypeOK, db, es
  <2>2. s \notin alias' /\ s \notin late'
    BY <1>1, <1>2, <2>1 DEF NotLive
  <2>3. \A i \in Ids : Sent(s, i) = docs[s][i]
    BY <2>1 DEF Sent, NoRows
  <2>4. Untouched(s)' = Untouched(s) /\ Untouched(s) \subseteq Ids
    BY <2>1 DEF Untouched
  <2>5. ASSUME NoLoss' PROVE Complete(s)'
    BY <2>1, <2>3, <2>4, <2>5 DEF Complete, CopyOK, Closing
  <2> QED BY <2>1, <2>2, <2>5 DEF CopyOK, NotStarted, Building, Scanned, Closing, Served
<1>8. CASE Discard(s)
  <2>1. pc[s] = "discard" /\ pc'[s] = "failed" /\ late' = late
    BY <1>8 DEF Discard, Goto, RebuildInv, TypeOK
  <2>2. alias' \subseteq alias
    BY <1>8 DEF Discard, Deleted, es
  <2> QED BY <1>1, <1>2, <2>1, <2>2, CopyEnded DEF NotLive
<1>9. CASE SwitchAlias(s)
  <2>1. /\ UNCHANGED <<table, lag, touched, late>>
        /\ pc[s] = "switch" /\ pc'[s] = "delete" /\ docs'[s] = docs[s]
    BY <1>0, <1>9 DEF SwitchAlias, UpdateAliases, Goto, RebuildInv, TypeOK, db
  <2>2. s \notin late'
    BY <1>2, <2>1
  <2>3. Untouched(s)' = Untouched(s) /\ Untouched(s) \subseteq Ids
    BY <2>1 DEF Untouched
  <2>4. ASSUME NoLoss' PROVE Served(s)'
    BY <2>1, <2>3, <2>4 DEF Served, CopyOK, Complete
  <2> QED BY <2>1, <2>2, <2>4 DEF CopyOK, NotStarted, Building, Scanned, Closing, Complete
<1>10. CASE SwitchUnanswered(s)
  <2>1. /\ UNCHANGED <<table, lag, touched, indices, docs, alias>>
        /\ pc[s] = "switch" /\ pc'[s] = "failed"
    BY <1>10 DEF SwitchUnanswered, Goto, RebuildInv, TypeOK, db, es
  <2>2. s \notin alias'
    BY <1>1, <2>1 DEF NotLive
  <2>3. s \in indices'
    BY <2>1 DEF CopyOK, Building
  <2>4. Untouched(s)' = Untouched(s) /\ Untouched(s) \subseteq Ids
    BY <2>1 DEF Untouched
  <2>5. ASSUME NoLoss' PROVE Complete(s)'
    BY <2>1, <2>4, <2>5 DEF Complete, CopyOK
  <2> QED BY <2>1, <2>2, <2>3, <2>5 DEF CopyOK, NotStarted, Building, Scanned, Closing, Served
<1>11. CASE DeleteReplaced(s) \/ DeleteFails(s)
  <2>1. /\ UNCHANGED <<table, lag, touched, late>>
        /\ pc[s] = "delete" /\ pc'[s] \in {"ok", "failed"}
    BY <1>11 DEF DeleteReplaced, DeleteFails, Goto, RebuildInv, TypeOK, db
  <2>2. s \notin late'
    BY <1>2, <2>1
  <2>3. s \in alias' => s \in alias /\ docs'[s] = docs[s]
    BY <1>0, <1>11 DEF DeleteReplaced, DeleteFails, Deleted, es
  <2>4. Untouched(s)' = Untouched(s) /\ Untouched(s) \subseteq Ids
    BY <2>1 DEF Untouched
  <2>5. ASSUME NoLoss' PROVE Served(s)'
    BY <2>1, <2>3, <2>4, <2>5 DEF Served, CopyOK
  <2> QED BY <2>1, <2>2, <2>5 DEF CopyOK, NotStarted, Building, Scanned, Closing, Complete
<1> QED BY <1>3, <1>4, <1>5, <1>6, <1>7, <1>8, <1>9, <1>10, <1>11 DEF SyncStep

(* A rebuild deletes what it found behind the alias when it started, and    *)
(* nothing that another one is still building.                              *)
LEMMA CopyByDelete ==
  ASSUME RebuildInv, NEW s \in Syncs, NEW t \in Syncs, s # t, CopyOK(s),
         DeleteReplaced(t) \/ DeleteFails(t), NoLoss' => NoLoss
  PROVE  CopyOK(s)'
<1>0. s \in Names
  BY DEF Names, Managed
<1>1. UNCHANGED <<table, lag, touched, late, cursor, queue>> /\ pc'[s] = pc[s]
  BY DEF DeleteReplaced, DeleteFails, Goto, RebuildInv, TypeOK, db
<1>2. CASE UNCHANGED es
  BY <1>1, <1>2, CopyFrame DEF SameCopy, es
<1>3. CASE Deleted(Replaced(t))
  <2>1. CASE s \in Replaced(t)
    <3>1. s \in targets[t]
      BY <2>1 DEF Replaced
    <3>2. ~NotLive(s)
      BY <3>1 DEF RebuildInv, NamesFresh, Managed
    <3>3. s \notin alias'
      BY <1>3, <2>1 DEF Deleted
    <3>4. pc[s] \in {"delete", "ok", "failed"} /\ s \notin late
      BY <3>2 DEF NotLive
    <3> QED BY <1>1, <3>3, <3>4, CopyEnded
  <2>2. CASE s \notin Replaced(t)
    <3>1. /\ docs'[s] = docs[s]
          /\ s \in alias' => s \in alias
          /\ s \in indices' <=> s \in indices
      BY <1>0, <1>3, <2>2 DEF Deleted
    <3> QED BY <1>1, <3>1, CopyFrame DEF SameCopy
  <2> QED BY <2>1, <2>2
<1> QED BY <1>2, <1>3 DEF DeleteReplaced, DeleteFails

(* The requests of another rebuild.                                         *)
LEMMA CopyByOther ==
  ASSUME RebuildInv, NEW s \in Syncs, NEW t \in Syncs, s # t, CopyOK(s),
         SyncStep(t) \/ Flush(t) \/ LateSwitch(t), NoLoss' => NoLoss
  PROVE  CopyOK(s)'
<1> USE FullSyncAssumption
<1>0. s \in Names /\ s # Alias
  BY DEF Names, Managed
<1>1. CASE DeleteReplaced(t) \/ DeleteFails(t)
  BY <1>1, CopyByDelete
<1>2. CASE Discard(t)
  <2>1. UNCHANGED <<table, lag, touched, late, cursor, queue>> /\ pc'[s] = pc[s]
    BY <1>2 DEF Discard, Goto, RebuildInv, TypeOK, db
  <2>2. /\ docs'[s] = docs[s]
        /\ s \in alias' => s \in alias
        /\ s \in indices' <=> s \in indices
    BY <1>0, <1>2 DEF Discard, Deleted, es
  <2> QED BY <2>1, <2>2, CopyFrame DEF SameCopy
<1>3. CASE SwitchAlias(t) \/ LateSwitch(t)
  <2>1. UNCHANGED <<table, lag, touched, cursor, queue>> /\ pc'[s] = pc[s]
    BY <1>3 DEF SwitchAlias, LateSwitch, Goto, RebuildInv, TypeOK, db
  <2>2. /\ docs'[s] = docs[s]
        /\ s \in alias' => s \in alias
        /\ s \in indices' <=> s \in indices
    BY <1>0, <1>3 DEF SwitchAlias, LateSwitch, UpdateAliases, RebuildInv, TypeOK
  <2>3. s \in late' => s \in late
    BY <1>3 DEF SwitchAlias, LateSwitch
  <2> QED BY <2>1, <2>2, <2>3, CopyFrame DEF SameCopy
<1>4. CASE SwitchUnanswered(t)
  <2>1. UNCHANGED <<table, lag, touched, cursor, queue, docs, alias, indices>> /\ pc'[s] = pc[s]
    BY <1>4 DEF SwitchUnanswered, Goto, RebuildInv, TypeOK, db, es
  <2>2. s \in late' => s \in late
    BY <1>4 DEF SwitchUnanswered
  <2> QED BY <2>1, <2>2, CopyFrame DEF SameCopy
<1>5. CASE CreateIndex(t) \/ EarlyFailure(t)
  <2>1. UNCHANGED <<table, lag, touched, late, cursor, queue, docs, alias>> /\ pc'[s] = pc[s]
    BY <1>5 DEF CreateIndex, EarlyFailure, Goto, RebuildInv, TypeOK, db
  <2>2. s \in indices' <=> s \in indices
    BY <1>5 DEF CreateIndex, EarlyFailure
  <2> QED BY <2>1, <2>2, CopyFrame DEF SameCopy
<1>6. CASE ScanBatch(t)
  <2>1. UNCHANGED <<table, lag, touched, late, indices, docs, alias>>
    BY <1>6 DEF ScanBatch, db, es
  <2>2. pc'[s] = pc[s] /\ cursor'[s] = cursor[s] /\ queue'[s] = queue[s]
    BY <1>6 DEF ScanBatch, Goto, RebuildInv, TypeOK
  <2> QED BY <2>1, <2>2, CopyFrame DEF SameCopy
<1>7. CASE Flush(t)
  <2>1. PICK i \in Ids : FlushItem(t, i) \/ FlushFails(t, i)
    BY <1>7 DEF Flush
  <2>2. UNCHANGED <<table, lag, touched, late, indices, alias, pc, cursor>>
    BY <2>1 DEF FlushItem, FlushFails, db, es
  <2>3. docs'[s] = docs[s] /\ queue'[s] = queue[s]
    BY <1>0, <2>1 DEF FlushItem, FlushFails, RebuildInv, TypeOK, es
  <2> QED BY <2>2, <2>3, CopyFrame DEF SameCopy
<1>8. CASE ResolveAlias(t) \/ IndexExists(t) \/ CloseIndexer(t) \/ ScanFails(t) \/ SwitchRefused(t)
  <2>1. UNCHANGED <<table, lag, touched, late, indices, docs, alias, cursor, queue>>
    BY <1>8 DEF ResolveAlias, IndexExists, CloseIndexer, ScanFails, SwitchRefused, db, es
  <2>2. pc'[s] = pc[s]
    BY <1>8 DEF ResolveAlias, IndexExists, CloseIndexer, ScanFails, SwitchRefused, Goto,
                RebuildInv, TypeOK
  <2> QED BY <2>1, <2>2, CopyFrame DEF SameCopy
<1> QED BY <1>1, <1>2, <1>3, <1>4, <1>5, <1>6, <1>7, <1>8 DEF SyncStep

(* A late switch still finds the index as the scan left it.                 *)
LEMMA CopyByLateSwitch ==
  ASSUME RebuildInv, NEW s \in Syncs, CopyOK(s), LateSwitch(s), NoLoss' => NoLoss
  PROVE  CopyOK(s)'
<1>0. s \in Names /\ s # Alias
  BY FullSyncAssumption DEF Names, Managed
<1>1. /\ UNCHANGED <<table, lag, touched, pc>> /\ pc[s] = "failed"
      /\ s \in late /\ s \notin late' /\ docs'[s] = docs[s]
  BY <1>0 DEF LateSwitch, UpdateAliases, RebuildInv, LateFailed, TypeOK, db
<1>2. Untouched(s)' = Untouched(s) /\ Untouched(s) \subseteq Ids
  BY <1>1 DEF Untouched
<1>3. ASSUME NoLoss' PROVE Served(s)'
  BY <1>1, <1>2, <1>3 DEF Served, CopyOK, Complete
<1> QED BY <1>1, <1>3 DEF CopyOK, NotStarted, Building, Scanned, Closing, Complete

(* Every step keeps the copies of the rebuilds what they are.               *)
LEMMA CopyStep == BatchSize # 0 /\ RebuildInv /\ CopyInv /\ [Next]_vars => CopyInv'
<1> SUFFICES ASSUME BatchSize # 0, RebuildInv, CopyInv, [Next]_vars, NEW s \in Syncs
             PROVE  CopyOK(s)'
  BY DEF CopyInv
<1>1. CopyOK(s) /\ (NoLoss' => NoLoss)
  BY LossKept DEF CopyInv, RebuildInv
<1>2. ASSUME NEW i \in Ids, NEW c \in Contents \cup {Absent}, Write(i, c) PROVE CopyOK(s)'
  BY <1>1, <1>2, CopyByWrite
<1>3. ASSUME NEW i \in Ids, Deliver(i) PROVE CopyOK(s)'
  BY <1>1, <1>3, CopyByDeliver
<1>4. ASSUME NEW t \in Syncs, SyncStep(t) \/ Flush(t) \/ LateSwitch(t) PROVE CopyOK(s)'
  <2>1. CASE s # t
    BY <1>1, <1>4, <2>1, CopyByOther
  <2>2. CASE s = t
    BY <1>1, <1>4, <2>2, CopyOwn, CopyByFlush, CopyByLateSwitch DEF Flush
  <2> QED BY <2>1, <2>2
<1>5. ASSUME NEW e \in Ensures, EnsureStep(e) \/ LateBootstrap(e) PROVE CopyOK(s)'
  <2>1. UNCHANGED <<table, lag, touched, docs, pc, cursor, queue>>
    BY <1>5 DEF EnsureStep, EnsureResolve, EnsureExists, EnsureCreate, EnsureFails,
                LateBootstrap, Bootstrap, db, es
  <2>2. indices' \subseteq indices \cup {e} /\ indices \subseteq indices'
        /\ alias' \subseteq alias \cup {e} /\ late' \subseteq late \cup {e}
    BY <1>5 DEF EnsureStep, EnsureResolve, EnsureExists, EnsureCreate, EnsureFails,
                LateBootstrap, Bootstrap, es
  <2>3. s # e
    BY FullSyncAssumption
  <2> QED BY <1>1, <2>1, <2>2, <2>3, CopyFrame DEF SameCopy
<1>6. CASE UNCHANGED vars
  BY <1>1, <1>6, CopyFrame DEF SameCopy, vars
<1> QED BY <1>2, <1>3, <1>4, <1>5, <1>6 DEF Next

(* README.md:501: unless a bulk request lost a document, the live index of  *)
(* a rebuild differs from the table, after the rebuild's checkpoint, only   *)
(* in rows that changed between the creation of the index and the switch,   *)
(* with any number of rebuilds from any checkpoints, of writers, failures   *)
(* and late requests around it (fullsync.go:214-303).                       *)
THEOREM DriftOnlyInWindow ==
  ASSUME BatchSize # 0
  PROVE  Spec => [](used.bulk = 0 => OnlyWindowDrift)
<1>1. Init => CopyInv
  <2> SUFFICES ASSUME Init, NEW s \in Syncs PROVE CopyOK(s)
    BY DEF CopyInv
  <2>1. s \notin indices /\ s \notin alias /\ s \notin late /\ s \in Names
    BY FullSyncAssumption DEF Init, Names, Managed
  <2> QED BY <2>1 DEF Init, CopyOK, NotStarted, Building, Scanned, Closing, Complete, Served
<1>2. RebuildInv /\ CopyInv /\ [Next]_vars => CopyInv'
  BY CopyStep
<1>3. CopyInv => (used.bulk = 0 => OnlyWindowDrift)
  BY DEF CopyInv, CopyOK, NoLoss, Served, Untouched, OnlyWindowDrift
<1> QED BY <1>1, <1>2, <1>3, RebuildInvariant, PTL DEF Spec
==============================================================================
