------------------------------- MODULE FullSync -------------------------------
(***************************************************************************)
(* Full rebuilds of the index of one model (fullsync.go:132-372,           *)
(* fullsync_strategy.go:64-90, index_alias.go): resolve the alias, create  *)
(* a rebuild index, scan the table by primary key into a bulk indexer,     *)
(* close the indexer, move the alias, delete what it named before.         *)
(* Rebuilds run concurrently with each other, with EnsureIndex             *)
(* (syncer.go:345-365), with writers of the table and with the relay,      *)
(* which writes through the alias.                                         *)
(*                                                                         *)
(* An element of Syncs is one call of FullSyncTable,                       *)
(* FullSyncWithCheckpoint or of a worker of FullSync, and also the name of *)
(* its rebuild index; an element of Ensures is one call of EnsureIndex and *)
(* the name of its bootstrap index (both names carry a nanosecond time).   *)
(***************************************************************************)
EXTENDS Naturals, FiniteSets

CONSTANTS
  Ids,            \* the primary keys
  Contents,       \* what a row may contain
  Absent,         \* no such row (or not in the query's scope), no such document
  Syncs, Ensures,
  Old,            \* indices the alias may name at first
  Alias,          \* the alias, and the name of a concrete index in its place
  StartID,        \* of each rebuild: its checkpoint (FullSyncWithCheckpoint), or 0
  BatchSize,
  CustomCursor,   \* a custom scan strategy may fail to advance
  MaxWrites, MaxFaults, MaxBulkFaults   \* bounds of the instance

ASSUME FullSyncAssumption ==
  /\ Ids \subseteq Nat /\ IsFiniteSet(Ids)
  /\ StartID \in [Syncs -> Nat]
  /\ BatchSize \in Nat
  /\ CustomCursor \in BOOLEAN
  /\ MaxWrites \in Nat /\ MaxFaults \in Nat /\ MaxBulkFaults \in Nat
  /\ Absent \notin Contents
  /\ Syncs \cap Ensures = {}
  /\ Old \cap (Syncs \cup Ensures) = {}
  /\ Alias \notin Syncs \cup Ensures \cup Old

Managed == Syncs \cup Ensures       \* created with is_write_index
Names == Managed \cup Old \cup {Alias}
Rows == [Ids -> Contents \cup {Absent}]
NoRows == [i \in Ids |-> Absent]

VARIABLES
  table,     \* the source rows
  lag,       \* rows whose last change the relay has not delivered
  indices,   \* the indices that exist
  docs,      \* their documents
  alias,     \* the indices the alias names
  late,      \* requests nobody waits for any more but that may arrive
  pc,        \* where each rebuild is
  targets,   \* what it found behind the alias
  cursor,    \* the checkpoint of its scan
  queue,     \* documents added to its bulk indexer and not yet sent
  ensure,    \* where each EnsureIndex is
  touched,   \* history: rows changed while the rebuild index was not live
  used       \* writes, faults and bulk faults so far (bounds)

vars == <<table, lag, indices, docs, alias, late, pc, targets, cursor, queue,
          ensure, touched, used>>
es == <<indices, docs, alias>>
db == <<table, lag, touched>>

TypeOK ==
  /\ table \in Rows
  /\ lag \in SUBSET Ids
  /\ indices \in SUBSET Names
  /\ docs \in [Names -> Rows]
  /\ alias \in SUBSET Names
  /\ late \in SUBSET Managed
  /\ pc \in [Syncs -> {"idle", "exists", "create", "scan", "close", "discard",
                       "switch", "delete", "ok", "failed"}]
  /\ targets \in [Syncs -> SUBSET Names]
  /\ cursor \in [Syncs -> Ids \cup {StartID[s] : s \in Syncs}]
  /\ queue \in [Syncs -> Rows]
  /\ ensure \in [Ensures -> {"idle", "exists", "create", "ok", "failed"}]
  /\ touched \in [Syncs -> SUBSET Ids]
  /\ used \in [{"write", "fault", "bulk"} -> Nat]

\* The alias names nothing, old indices, or a concrete index has its name.
Init ==
  /\ table \in Rows
  /\ lag = {}
  /\ \/ indices = {} /\ alias = {}
     \/ indices = Old /\ alias = Old
     \/ indices = {Alias} /\ alias = {}
  /\ docs = [n \in Names |-> IF n \in indices THEN table ELSE NoRows]
  /\ late = {}
  /\ pc = [s \in Syncs |-> "idle"]
  /\ targets = [s \in Syncs |-> {}]
  /\ cursor = StartID
  /\ queue = [s \in Syncs |-> NoRows]
  /\ ensure = [e \in Ensures |-> "idle"]
  /\ touched = [s \in Syncs |-> {}]
  /\ used = [b \in {"write", "fault", "bulk"} |-> 0]

Goto(s, label) == pc' = [pc EXCEPT ![s] = label]
EnsureGoto(e, label) == ensure' = [ensure EXCEPT ![e] = label]

Fault == used.fault < MaxFaults /\ used' = [used EXCEPT !.fault = @ + 1]

\* What a HEAD request for the name, or a reader of it, finds.
NameExists == alias # {} \/ Alias \in indices

-----------------------------------------------------------------------------
(* The table and the relay.                                                 *)

\* A committed change, with its outbox event.
Write(i, c) ==
  /\ used.write < MaxWrites
  /\ c # table[i]
  /\ table' = [table EXCEPT ![i] = c]
  /\ lag' = lag \cup {i}
  /\ touched' = [s \in Syncs |-> IF s \in indices /\ s \notin alias
                                 THEN touched[s] \cup {i} ELSE touched[s]]
  /\ used' = [used EXCEPT !.write = @ + 1]
  /\ UNCHANGED <<es, late, pc, targets, cursor, queue, ensure>>

\* The relay sends the last event of row i to the alias (how events are
\* leased, retried and ordered is OutboxRelay's).  With neither alias nor
\* index of that name Elasticsearch creates a concrete index for a document,
\* and has nothing to delete.
Deliver(i) ==
  /\ i \in lag
  /\ lag' = lag \ {i}
  /\ \/ \E n \in alias : /\ alias = {n}
                         /\ docs' = [docs EXCEPT ![n][i] = table[i]]
                         /\ UNCHANGED indices
     \/ /\ alias = {}
        /\ NameExists \/ table[i] # Absent
        /\ indices' = indices \cup {Alias}
        /\ docs' = [docs EXCEPT ![Alias][i] = table[i]]
     \/ /\ ~NameExists /\ table[i] = Absent
        /\ UNCHANGED <<indices, docs>>
  /\ UNCHANGED <<table, touched, alias, late, pc, targets, cursor, queue,
                 ensure, used>>

-----------------------------------------------------------------------------
(* resolveAliasState: GetAlias, and after a 404 a second request, which     *)
(* answers yes to an alias as well as to an index.                          *)

ResolveAlias(s) ==
  /\ pc[s] = "idle"
  /\ \/ alias # {} /\ Goto(s, "create")
     \/ alias = {} /\ Goto(s, "exists")
  /\ targets' = [targets EXCEPT ![s] = alias]
  /\ UNCHANGED <<db, es, late, cursor, queue, ensure, used>>

IndexExists(s) ==
  /\ pc[s] = "exists"
  /\ targets' = [targets EXCEPT ![s] = IF NameExists THEN {Alias} ELSE {}]
  /\ Goto(s, "create")
  /\ UNCHANGED <<db, es, late, cursor, queue, ensure, used>>

Legacy(s) == targets[s] = {Alias}

\* createManagedIndex, without the alias.
CreateIndex(s) ==
  /\ pc[s] = "create"
  /\ indices' = indices \cup {s}
  /\ Goto(s, "scan")
  /\ UNCHANGED <<db, docs, alias, late, targets, cursor, queue, ensure, used>>

\* An error before the scan, or a panic in it (fullSyncTableGuarded), ends the
\* rebuild without cleaning up; a creation whose answer got lost may have
\* happened.
EarlyFailure(s) ==
  /\ pc[s] \in {"idle", "exists", "create", "scan"}
  /\ Fault
  /\ Goto(s, "failed")
  /\ \/ UNCHANGED indices
     \/ pc[s] = "create" /\ indices' = indices \cup {s}
  /\ UNCHANGED <<db, docs, alias, late, targets, cursor, queue, ensure>>

-----------------------------------------------------------------------------
(* fullSyncFrom.                                                            *)

\* MUTANT: the row after the checkpoint is skipped.
BatchMutant(s) ==
  LET after == {i \in Ids : i > cursor[s] + 1 /\ table[i] # Absent}
  IN {i \in after : Cardinality({j \in after : j < i}) < BatchSize}

\* WHERE pk > checkpoint ORDER BY pk LIMIT batchSize.
Batch(s) ==
  LET after == {i \in Ids : i > cursor[s] /\ table[i] # Absent}
  IN {i \in after : Cardinality({j \in after : j < i}) < BatchSize}

\* MUTANT: pages by offset, from a key.
AdvancedMutant(s, rows) == {cursor[s] + BatchSize}

\* Where the cursor may be after the rows of a batch.
Advanced(s, rows) ==
  {i \in rows : \A j \in rows : j <= i}
    \cup {c \in {cursor[s]} : CustomCursor \/ rows = {}}

\* MUTANT: a cursor that stands still is not noticed.
AfterBatchMutant(s, rows, c) ==
  IF rows = {} \/ Cardinality(rows) < BatchSize THEN "close" ELSE "scan"

AfterBatch(s, rows, c) ==
  IF rows = {} THEN "close"
  ELSE IF Cardinality(rows) = BatchSize /\ c = cursor[s] THEN "discard"
  ELSE IF Cardinality(rows) < BatchSize THEN "close" ELSE "scan"

\* One query, every row of it added to the bulk indexer.
ScanBatch(s) ==
  /\ pc[s] = "scan"
  /\ LET rows == Batch(s)
     IN \E c \in Advanced(s, rows) :
          /\ cursor' = [cursor EXCEPT ![s] = c]
          /\ queue' = [queue EXCEPT ![s] =
                         [i \in Ids |-> IF i \in rows THEN table[i] ELSE @[i]]]
          /\ Goto(s, AfterBatch(s, rows, c))
  /\ UNCHANGED <<db, es, late, targets, ensure, used>>

\* The bulk indexer's workers send what was added, in any order.
FlushItem(s, i) ==
  /\ pc[s] \in {"scan", "close"}
  /\ queue[s][i] # Absent
  /\ docs' = [docs EXCEPT ![s][i] = queue[s][i]]
  /\ queue' = [queue EXCEPT ![s][i] = Absent]
  /\ UNCHANGED <<db, indices, alias, late, pc, targets, cursor, ensure, used>>

\* Elasticsearch refuses an item, or the whole request fails: the first is told
\* to OnFailure, which is not set, the second to OnError, which records it.
FlushFails(s, i) ==
  /\ pc[s] \in {"scan", "close"}
  /\ queue[s][i] # Absent
  /\ used.bulk < MaxBulkFaults
  /\ used' = [used EXCEPT !.bulk = @ + 1]
  /\ queue' = [queue EXCEPT ![s][i] = Absent]
  /\ UNCHANGED <<db, es, late, pc, targets, cursor, ensure>>

\* MUTANT: the alias moves while documents are still queued.
CloseIndexerMutant(s) ==
  /\ pc[s] = "close"
  /\ Goto(s, "switch")
  /\ UNCHANGED <<db, es, late, targets, cursor, queue, ensure, used>>

\* MUTANT: what the alias names is deleted before the alias moves.
DeleteFirstMutant(s) ==
  /\ pc[s] = "close"
  /\ queue[s] = NoRows
  /\ Goto(s, "delete")
  /\ UNCHANGED <<db, es, late, targets, cursor, queue, ensure, used>>

\* Close returns when everything has been sent.
CloseIndexer(s) ==
  /\ pc[s] = "close"
  /\ queue[s] = NoRows
  /\ Goto(s, "switch")
  /\ UNCHANGED <<db, es, late, targets, cursor, queue, ensure, used>>

\* A query, a row or the closing fails, or the context is done.
ScanFails(s) ==
  /\ pc[s] \in {"scan", "close"}
  /\ Fault
  /\ Goto(s, "discard")
  /\ UNCHANGED <<db, es, late, targets, cursor, queue, ensure>>

-----------------------------------------------------------------------------
(* The alias.                                                               *)

\* Deleting an index takes it out of the alias as well.
Deleted(gone) ==
  /\ indices' = indices \ gone
  /\ alias' = alias \ gone
  /\ docs' = [n \in Names |-> IF n \in gone THEN NoRows ELSE docs[n]]

\* cleanupDetachedIndex.  Its failure is only logged.
Discard(s) ==
  /\ pc[s] = "discard"
  /\ \/ Deleted({s}) /\ UNCHANGED used
     \/ Fault /\ UNCHANGED es
  /\ Goto(s, "failed")
  /\ UNCHANGED <<db, late, targets, cursor, queue, ensure>>

\* MUTANT: the old indices stay behind the alias.
RemovedMutant(s) == {}

\* The removals of buildAliasUpdateBody.
Removed(s) == targets[s]

\* Elasticsearch applies an alias update as a whole or refuses it: what it
\* removes must exist, an index to remove must not be an alias, an alias has
\* at most one write index and no index of its name.
Updatable(s) ==
  /\ s \in indices
  /\ Removed(s) \subseteq indices
  /\ (alias \ Removed(s)) \cap Managed = {}
  /\ Alias \in indices => Alias \in Removed(s)

UpdateAliases(s) ==
  /\ Updatable(s)
  /\ alias' = (alias \ Removed(s)) \cup {s}
  /\ indices' = indices \ (Removed(s) \cap {Alias})
  /\ docs' = IF Alias \in Removed(s) THEN [docs EXCEPT ![Alias] = NoRows] ELSE docs

SwitchAlias(s) ==
  /\ pc[s] = "switch"
  /\ UpdateAliases(s)
  /\ Goto(s, "delete")
  /\ UNCHANGED <<db, late, targets, cursor, queue, ensure, used>>

\* The rebuild ends; its index stays.
SwitchRefused(s) ==
  /\ pc[s] = "switch"
  /\ \/ ~Updatable(s) /\ UNCHANGED used
     \/ Fault
  /\ Goto(s, "failed")
  /\ UNCHANGED <<db, es, late, targets, cursor, queue, ensure>>

SwitchUnanswered(s) ==
  /\ pc[s] = "switch"
  /\ Fault
  /\ late' = late \cup {s}
  /\ Goto(s, "failed")
  /\ UNCHANGED <<db, es, targets, cursor, queue, ensure>>

LateSwitch(s) ==
  /\ s \in late
  /\ UpdateAliases(s)
  /\ late' = late \ {s}
  /\ UNCHANGED <<db, pc, targets, cursor, queue, ensure, used>>

Replaced(s) == IF Legacy(s) THEN {} ELSE targets[s]

\* MUTANT: nothing is deleted.
DeleteReplacedMutant(s) ==
  /\ pc[s] = "delete"
  /\ Goto(s, "ok")
  /\ UNCHANGED <<db, es, late, targets, cursor, queue, ensure, used>>

\* deleteReplacedIndices: one request, refused if an index is missing.
DeleteReplaced(s) ==
  /\ pc[s] = "delete"
  /\ Replaced(s) \subseteq indices
  /\ Deleted(Replaced(s))
  /\ Goto(s, "ok")
  /\ UNCHANGED <<db, late, targets, cursor, queue, ensure, used>>

DeleteFails(s) ==
  /\ pc[s] = "delete"
  /\ Replaced(s) # {}
  /\ \/ ~(Replaced(s) \subseteq indices) /\ UNCHANGED <<es, used>>
     \/ Fault /\ UNCHANGED es
     \/ Fault /\ Replaced(s) \subseteq indices /\ Deleted(Replaced(s))
  /\ Goto(s, "failed")
  /\ UNCHANGED <<db, late, targets, cursor, queue, ensure>>

-----------------------------------------------------------------------------
(* ensureIndexEntry.                                                        *)

EnsureResolve(e) ==
  /\ ensure[e] = "idle"
  /\ EnsureGoto(e, IF alias # {} THEN "ok" ELSE "exists")
  /\ UNCHANGED <<db, es, late, pc, targets, cursor, queue, used>>

EnsureExists(e) ==
  /\ ensure[e] = "exists"
  /\ EnsureGoto(e, IF NameExists THEN "ok" ELSE "create")
  /\ UNCHANGED <<db, es, late, pc, targets, cursor, queue, used>>

\* Creating an index together with its alias, under the rules of Updatable.
Bootstrappable == alias \cap Managed = {} /\ Alias \notin indices

Bootstrap(e) ==
  /\ Bootstrappable
  /\ indices' = indices \cup {e}
  /\ alias' = alias \cup {e}
  /\ UNCHANGED docs

EnsureCreate(e) ==
  /\ ensure[e] = "create"
  /\ \/ Bootstrap(e) /\ EnsureGoto(e, "ok")
     \/ ~Bootstrappable /\ EnsureGoto(e, "failed") /\ UNCHANGED es
  /\ UNCHANGED <<db, late, pc, targets, cursor, queue, used>>

EnsureFails(e) ==
  /\ ensure[e] \in {"idle", "exists", "create"}
  /\ Fault
  /\ EnsureGoto(e, "failed")
  /\ \/ UNCHANGED late
     \/ ensure[e] = "create" /\ late' = late \cup {e}
  /\ UNCHANGED <<db, es, pc, targets, cursor, queue>>

LateBootstrap(e) ==
  /\ e \in late
  /\ Bootstrap(e)
  /\ late' = late \ {e}
  /\ UNCHANGED <<db, pc, targets, cursor, queue, ensure, used>>

-----------------------------------------------------------------------------
SyncStep(s) ==
  \/ ResolveAlias(s) \/ IndexExists(s) \/ CreateIndex(s) \/ EarlyFailure(s)
  \/ ScanBatch(s) \/ CloseIndexer(s) \/ ScanFails(s) \/ Discard(s)
  \/ SwitchAlias(s) \/ SwitchRefused(s) \/ SwitchUnanswered(s)
  \/ DeleteReplaced(s) \/ DeleteFails(s)

Flush(s) == \E i \in Ids : FlushItem(s, i) \/ FlushFails(s, i)

EnsureStep(e) ==
  EnsureResolve(e) \/ EnsureExists(e) \/ EnsureCreate(e) \/ EnsureFails(e)

Next ==
  \/ \E i \in Ids : Deliver(i) \/ \E c \in Contents \cup {Absent} : Write(i, c)
  \/ \E s \in Syncs : SyncStep(s) \/ Flush(s) \/ LateSwitch(s)
  \/ \E e \in Ensures : EnsureStep(e) \/ LateBootstrap(e)

Spec == Init /\ [][Next]_vars

\* A rebuild is sequential code over requests with time limits; the workers
\* of its bulk indexer flush by size, by time and on Close.
FairSpec == Spec /\ \A s \in Syncs : /\ WF_vars(SyncStep(s) /\ pc[s] # "idle")
                                     /\ WF_vars(Flush(s))

-----------------------------------------------------------------------------
(* Properties.                                                              *)

(* The alias names only indices that exist, an index made here alone, and   *)
(* never besides a concrete index of its name (README.md:492, 499), with    *)
(* rebuilds, bootstraps and late requests racing.                           *)
AliasSound ==
  /\ alias \subseteq indices
  /\ \A m, n \in alias : m \in Managed => m = n
  /\ alias # {} => Alias \notin indices

(* README.md:499, "no window of unavailability": once readers find an index *)
(* under the alias's name they always do.  A rebuild deletes the indices it *)
(* found when it started, long ago (fullsync.go:204).                       *)
NoGap == [][NameExists => NameExists']_vars

(* When the relay has caught up, the live rebuild index differs from the    *)
(* table, after its own checkpoint, only in rows that changed between its   *)
(* creation and the switch: the constraint README.md:501 tells users to     *)
(* live with, and nothing worse.  The scan by key under concurrent changes, *)
(* the bulk queue and the switch are what it takes.                         *)
OnlyWindowDrift ==
  \A s \in Syncs : s \in alias /\ lag = {} =>
    \A i \in Ids : i > StartID[s] /\ docs[s][i] # table[i] => i \in touched[s]

(* When every rebuild that started succeeded, nothing is left but what the  *)
(* alias names (README.md:500).                                             *)
NothingLeft ==
  /\ \A s \in Syncs : pc[s] \in {"idle", "ok"}
  /\ \E s \in Syncs : pc[s] = "ok"
  => indices = alias

(* Every rebuild ends, also with a scan strategy that does not advance      *)
(* (fullsync.go:275-285).                                                   *)
RebuildEnds == \A s \in Syncs : pc[s] = "scan" ~> pc[s] \in {"ok", "failed"}

(* README.md:498: when resolving, creating or switching fails, the          *)
(* temporary index is cleaned up and the alias stays.                       *)
CleanFailure == \A s \in Syncs : pc[s] = "failed" => s \notin indices \/ s \in alias

-----------------------------------------------------------------------------
(* The inductive invariant behind AliasSound and NoGap.                     *)

\* An index that has been behind the alias in no state so far, but may be.
NotLive(n) ==
  \/ n \in late
  \/ n \in Syncs /\ pc[n] \notin {"delete", "ok", "failed"}
  \/ n \in Ensures /\ ensure[n] \notin {"ok", "failed"}

\* Nobody has found such an index behind the alias.
NamesFresh == \A n \in Managed : NotLive(n) =>
  n \notin alias /\ \A s \in Syncs : n \notin targets[s]

\* The old indices behind the alias are among those an update will remove.
OldCovered ==
  /\ \A s \in Syncs :
       /\ pc[s] = "exists" => alias \cap Old = {}
       /\ pc[s] \in {"create", "scan", "close", "switch"} \/ s \in late
            => alias \cap Old \subseteq targets[s]
  /\ \A e \in Ensures :
       ensure[e] \in {"exists", "create"} \/ e \in late => alias \cap Old = {}

\* A request that nobody waits for belongs to a call that has failed.
LateFailed == /\ \A s \in Syncs : s \in late => pc[s] = "failed"
              /\ \A e \in Ensures : e \in late => ensure[e] = "failed"

\* What is about to be deleted is not behind the alias any more.
Detached == \A s \in Syncs : pc[s] = "delete" => targets[s] \cap alias = {}

\* The concrete index in the alias's place is found alone.
LegacyAlone == \A s \in Syncs : Alias \in targets[s] => targets[s] = {Alias}

RebuildInv == /\ TypeOK /\ AliasSound /\ NamesFresh
              /\ OldCovered /\ LateFailed /\ Detached /\ LegacyAlone
=============================================================================
