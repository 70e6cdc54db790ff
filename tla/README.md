# A TLA+ development for essyncer

essyncer keeps an Elasticsearch index in step with a relational database.
GORM callbacks write an *outbox* row in the transaction of every business
write; a *relay* leases those rows and sends them to Elasticsearch; a *full
sync* rebuilds an index from the table and moves an alias; operators repair,
replay and clean up by hand. This directory models that machinery, checks it
with TLC on small instances and proves its main safety properties with TLAPS.
Paths like `outbox_store.go:95` are relative to the repository root.

## Inventory

| Component (files) | State it keeps | Operations | Interacts with |
|---|---|---|---|
| Outbox table (`outbox_store.go`, `outbox_model.go`) | rows: status, attempts, next_retry_at, leased_until, lease_token | insertFromEvents, claimPending/tryClaimRow, markSent, markRetry, markDead | written by callbacks and document commands inside transactions; read and written by any number of relays and drains; rewritten by operators |
| Relay (`outbox_relay.go`) | the batch in hand, the answer of the current request | runOutboxBatch, processOutboxRow, sendOutboxRow | outbox table, Elasticsearch document API, failure recorder |
| Relay and syncer lifecycle (`outbox_relay.go`, `syncer.go`) | stopped, relayRunning, relayCancel, the wait group, relayPanic | StartOutboxRelay, RunOutboxRelay, Shutdown, Health | relay loop, bulk indexer, host goroutines |
| Operator commands (`ops.go`) | none (ids selected between two statements) | ListOutbox, CleanupOutbox, ReplayOutbox, DrainOutbox, ReconcileCounts | outbox table |
| Full sync (`fullsync.go`, `fullsync_strategy.go`, `index_alias.go`) | scan cursor, rebuild index, bulk indexer, task and result channels | FullSync, FullSyncTable, FullSyncWithCheckpoint, EnsureIndex | source table, Elasticsearch index and alias API |
| Auto sync (`callback.go`, `autosync_tx.go`) | per-model enable flags, per-statement event list | EnableAutoSync, DisableAutoSync, after create/update/delete, Transaction | GORM transactions, outbox table, registry |
| Document commands (`doc_ops.go`, `cobra_ops.go`) | none | Enqueue create/update/delete, inspect | source table, outbox table |
| Failure recorder (`failures.go`) | ring buffer, last failure | record, recent, summary | every component |
| Metrics (`metrics.go`, `GetMetrics`) | atomic counters | snapshot | every component, failure recorder |
| Registry and mappings (`model.go`) | registered models | Register, lookup, entriesForModels | everything |
| Search (`searcher/`) | one singleflight group | Do, DoAgg, Count, query building | Elasticsearch search API |
| Command line (`cobra_ops.go`) | none (counts and verdicts while a command runs) | full-sync, reconcile, outbox and document commands | full sync, ops, registry |
| Config, options, log, version | settings | load, validate | everything |

### What is hard, and what makes each part correct

- **Outbox and relay.** Several processes claim the same rows with nothing but
  a conditional UPDATE between them; the clock value a claim is decided on is
  captured before the query; a lease can expire while a request is under way;
  requests are lost, applied without an answer, or arrive late; processes die
  with leased rows; operators rewrite rows somebody holds. Correct means: at
  most one usable lease per row; a row is acknowledged only for a delivery made
  under its own lease; leases and backoffs are waited for; the retry budget is
  counted correctly; every row is settled in the end; documents converge.
- **Lifecycle.** Start, Run, Shutdown and a panicking loop race. Correct means:
  one loop at a time; after Shutdown returned without an error no loop runs;
  a panic is visible to Health.
- **Full sync.** Index creation, scanning, bulk flushing, alias switch and
  clean-up fail one by one, run concurrently with themselves and with the
  relay. Correct means: the alias always names exactly one existing index, a
  failed rebuild leaves the old one in place, a successful one holds every row
  of the snapshot.
- **Auto sync.** Events must commit or roll back with the business write, in
  nested transactions and savepoints, whatever models are enabled. 
- **The pool of FullSync.** Fail, panic and cancellation meet in a few workers.
  Correct means: no model is worked on twice, the call returns, every model
  taken has its result, and a result without an error is true.
- **Failure recorder and metrics.** A ring buffer with a capacity, a limit and
  a wrap, written by everybody. Correct means: it is the log of the last
  failures, and what a monitor reads of it fits the counters it has read.
- **Search.** Callers share one request. Correct means: one request per key,
  nobody waits for ever, nobody gets another's documents or an answer that was
  over when it asked.
- **Reconcile.** Two counts of moving data per model, and results matched with
  arguments by position. Correct means: what differs is what is repaired.

`PROJECT.json` lists each hazard at its line with the properties that guard it.

## Plan

Written:

1. `OutboxRelay` (the core) with the abstract `OutboxQueue`, its TLC instances
   `MCOutboxRelay` and its proofs `OutboxRelay_proofs`.
2. `RelayLifecycle`, `MCRelayLifecycle`, `RelayLifecycle_proofs`: start, run,
   shutdown, panic, health.
3. `FullSync`, `MCFullSync`, `FullSync_proofs`: rebuild, bulk flush, alias
   switch, clean-up, concurrent rebuilds, bootstraps and relay writes.
4. `AutoSync`, `MCAutoSync`, `AutoSync_proofs`: callbacks, transactions,
   switching auto sync on and off, operators' documents.
5. `FailureRecorder` (the ring buffer) with the abstract `FailureLog`.
6. `FullSyncPool`: the workers of `FullSync` over several models, with the
   recorder and the counters; `Content`, the tables and indices it shares with
   the next two.
7. `SharedSearch`: the singleflight of `searcher/search.go`.
8. `OpsConsole`: the commands full-sync and reconcile, composing 6 and 7, with
   `MCOpsConsole`. Each of 5 to 8 has its module of proofs.

Every safety and action property that a passing run checks is also a theorem.
Left, in this order:

9. An abstract specification of a served name (readers see one complete index
   after another) that `FullSync` implements without bulk losses.
10. An abstract specification of the outbox as `AutoSync` needs it (events
    appear and vanish with their transactions), so that `AutoSync` and
    `OutboxRelay` meet in one module.
11. Statements on several rows at once in `AutoSync`.

## Modules

### OutboxRelay

The outbox table `row` (one record per id, with the columns that control
anything), the clock `now`, and a set of `Workers`, each a goroutine that runs
`runOutboxBatch`: a relay loop, the relay loop of another process, or a drain.

| Definition | Code |
|---|---|
| `Insert`, `InTurn` | a committed transaction's row (`insertFromEvents`). The captured events of one document commit in the order of their ids, because their transactions exclude each other on its source row; a row of an Enqueue command may commit out of order and counts as an operator's command |
| `QueryCandidates`, `Candidates` | the SELECT of `claimPending`: captures `now`, the ids, and their `attempts` |
| `TryClaim`, `NextCandidate` | the loop over the candidates: `tryClaimRow`'s UPDATE on the captured clock, a fresh token, stop when the batch is full |
| `ClaimError`, `Crash`, `Drop` | a failing statement or a dying process: the batch is forgotten, the leases stay |
| `Send`, `EsHandles`, `EsHandlesAnswerLost`, `EsHandlesRepeated`, `EsRefuses`, `NoResponse`, `EsHandlesOrphan` | `sendOutboxRow`: request and answer are separate steps; a request without an answer may be lost, applied, applied and sent again by the client's own retries (`syncer.go:94-98`), or applied later |
| `MarkSent`, `MarkRetry`, `MarkDead`, `WriteBack` | `processOutboxRow` after the answer, through `updateClaimedRow`: written, refused because the lease is gone, or a database error that may or may not have taken effect; the last two abandon the batch |
| `ReplayAtOnce`, `SelectForReplay`, `ReplaySelected`, `CleanupAtOnce`, `SelectForCleanup`, `CleanupSelected` | `ReplayOutbox` and `CleanupOutbox`; with a limit they are two statements. Ids given together with a limit act like `ReplayAtOnce`, later |

Abstractions. A lease token is the number of the claim of its row (the code
draws 128 random bits; only equality matters, and it is compared together with
the id). SQL NULL in a time column is 0. Payloads are abstracted to "the content of row
r". Statuses of the answer are the classes the code distinguishes: 2xx, 404,
429/502/503/504 (`busy`), any other refusal (`bad`), none, and an action the
relay does not know. All workers read one clock. `accepted` and `failed` are
history variables, read by properties only.

`OutboxQueue` is what the table promises: an event is queued until it is
settled, delivered only if Elasticsearch took it, and moves otherwise only by
an operator's command. `OutboxRelay` maps pending and processing rows to
queued ones and implements it (`ImplementsQueue`).

### RelayLifecycle

Each element of `Starts`, `Runs` and `Stops` is one call of
`StartOutboxRelay`, `RunOutboxRelay` or `Shutdown`, and names the loop it may
bring into being. `relayMu` is the call inside the lock, `relayWG` the set of
loops that have added themselves, `relayCancel` whose context the stored
`CancelFunc` cancels.

| Definition | Code |
|---|---|
| `StartLock`, `StartCheck`, `StartNoop`, `StartSpawn`, `StartUnlock` | `StartOutboxRelay`: `stopped` is read under the lock; the goroutine begins before the lock is released |
| `RunCheck`, `RunBegin` | `RunOutboxRelay`: `stopped` is read, then the lock is taken; `stopped` is not read again |
| `Tick`, `BatchDone`, `BatchPanics`, `LoopReturns`, `HostCancel` | the loop, its batches and its context |
| `Recover`, `Reset`, `Done` | the three deferred functions, in the order they run; only a background loop recovers |
| `StopStore`, `StopRead`, `StopCancel`, `StopDrained`, `StopTimeout`, `StopClose` | `Shutdown`: set `stopped`, take the `CancelFunc` under the lock, cancel, wait for the group or the deadline, close the indexer |
| `Healthy` | `Health`, without its ping |

`behind` is a history variable: the Run loops that began after a Shutdown had
read the `CancelFunc` and before its wait was over. `ShutdownReturns` excepts
only a Shutdown that such a loop, cancelled by nobody, keeps waiting; a loop
that was there before must be cancelled.

Left out: refusals of a nil context or a syncer without database, and what the
indexer does when it is closed twice.

### FullSync

One model and its alias. An element of `Syncs` is one rebuild and the name of
its index, an element of `Ensures` one `EnsureIndex`; `pc` and `ensure` say
where each is, and other rebuilds, writers and the relay step in between.

| Definition | Code |
|---|---|
| `ResolveAlias`, `IndexExists`, `Legacy` | `resolveAliasState`: two requests, and a name that turns out to be a concrete index |
| `CreateIndex`, `EarlyFailure` | `createManagedIndex`, and whatever fails or panics before the switch |
| `Batch`, `Advanced`, `AfterBatch`, `ScanBatch` | the scan: a page by primary key, the cursor, the three ways on |
| `FlushItem`, `FlushFails`, `CloseIndexer`, `ScanFails` | the bulk indexer: documents go out one by one, may be lost, and are all out when `Close` returns |
| `SwitchAlias`, `SwitchRefused`, `SwitchUnanswered`, `LateSwitch` | `switchAliasToIndex`: done, refused as a whole, or unanswered and then applied never, at once or later |
| `Discard`, `DeleteReplaced`, `DeleteFails` | `cleanupDetachedIndex`, `deleteReplacedIndices` |
| `EnsureResolve`, `EnsureExists`, `EnsureCreate`, `EnsureFails`, `LateBootstrap` | `ensureIndexEntry` |
| `Write`, `Deliver` | a committed change and its delivery through the alias |

Abstractions. The rules of Elasticsearch's alias API (an update that removes an
index that is gone is refused as a whole; an index cannot be created with the
name of an alias) are external. Two indices never get one name (they carry
nanoseconds). The order of events of one row is left to `OutboxRelay`: here the
relay delivers the row's last content. `StartID` gives every call its
checkpoint. `touched` is a history variable.

### FullSyncPool, FailureRecorder, FailureLog and Content

`FullSync` over several models. `taskCh` is `entries` and the number of tasks
`taken`; `resultCh` is `sent`, which has room for every result, so that a
worker never blocks on it. Each of `Pool` is one goroutine. A rebuild is three
steps (scan, switch, delete): the module `FullSync` has all of it, and here
only what the pool's promises depend on is kept (`Content`): how many `rows` a
table has, how many of them the index behind its alias has been given (`docs`),
how many of those its bulk indexer `lost`, and so how many readers find
(`Found`).

| Definition | Code |
|---|---|
| `EntriesFor`, `Unknown` | `entriesForModels`: the named models once each in their order, or the registry in the order of its map |
| `Refuse`, `RefuseInvalid`, `Begin` | `FullSync` up to its goroutines: unknown model or empty registry, a model without a cursor, the channels |
| `Receive`, `NoMoreTasks`, `GiveUp`, `Report` | a worker's loop; at a cancelled context it answers for one model and leaves |
| `StartRebuild`, `SwitchIndex`, `Succeed`, `Losses` | `fullSyncTableAt`; the alias moves whatever number of documents the bulk indexer failed to index, and the result has no error |
| `Fail` | a recorded error, or a panic that `fullSyncTableGuarded` turns into a result |
| `FailSilently` | an error nobody records: a context that ends during the scan, a bulk indexer that cannot be made or closed |
| `CloseResults`, `Return`, `Cancel` | the goroutine behind the wait group, the caller's loop, the caller's context |
| `RecordFailure`, `CountFailure`, `FailElsewhere` | `recordFailure`: the ring, then the counter, also for failures of relay, callbacks and bulk indexers |
| `ReadCounters`, `ReadSummary` | `GetMetrics` |
| `Record`, `Recent`, `Slot` | the ring buffer; its methods hold one mutex throughout |

`FailureLog` is what the recorder promises, the last `Size` failures; the ring
implements it (`ImplementsLog`). Rows only come, and by statements whose rows
the callbacks cannot name, so that nothing but a rebuild brings them into the
index; what a relay does meanwhile is `FullSync`'s. `SuccessMeansRebuilt` is
stated with the lost documents as its exception (observation 3): a result
without an error means that every row of the beginning is found or was lost in
the bulk indexer, and that nothing else went wrong. `base` and `recorded` are
history variables; `recorded` has every failure there has ever been, and
`RecentAreNewest` compares what `RecentFailures` returns with it, for every
limit.

### SharedSearch

Callers of `Do`. `leader` is the group's map from keys to calls, by who makes
the call.

| Definition | Code |
|---|---|
| `Key` | `cacheKey`: client, type as it is printed (`TypeName`), index, hash; requests that cannot be marshalled share a key |
| `Lead`, `Join`, `AskAlone` | `sfGroup.Do` with a new key, with a known one, and `Do` without singleflight, `DoAgg` and `Count` |
| `EsSearches` | Elasticsearch executes the request; one that cannot be marshalled is never sent |
| `SearchReturns`, `SearchFails`, `Served` | the answer or the error, for the leader and those who wait; only the leader's context counts |
| `Handed` | the type assertion: a follower whose type is another one under the same printed name gets an error |

An answer is the number of documents the index had been given, which never
shrinks, so that older and newer answers can be told apart; `floor` and `least`
are history variables. Refresh delays and replicas that lag are outside: a real
index may show less than it showed before, and one whose documents were lost
shows less than it was given. Eight bytes of a hash are taken to identify a
request.

### OpsConsole

One command of an operator on top of `FullSyncPool` and `SharedSearch`.

| Definition | Code |
|---|---|
| `FullSyncCommand` | `full-sync [model ...]` without a checkpoint (that is `FullSync`'s) |
| `ReconcileRefused`, `ReconcileCommand` | `reconcile`: unknown models, the list |
| `CountRows`, `CountDocs`, `CountFails` | `ReconcileCounts`: for each model a query of the table and then one of the alias, or an error and the next model |
| `Differ`, `Mismatched`, `Repair`, `NothingToRepair`, `ToRepair` | the comparison and `--repair`: the i-th result is taken for the i-th argument; without arguments everything is rebuilt whatever the counts say |

A document that is not expected in the index (observation 21) is left out, so
equal counts mean equal content. `RepairRepairs` holds for a command that is
over, whether its full sync returned or was refused, and names what it excepts:
models with an error of their own, a cancelled command, documents lost in the
bulk indexer, and a repair that was turned down as a whole (`TurnedDown`,
observation 23).

### AutoSync

One row and the sessions that write to it. A column is 0 or 1, and 1 in
`SoftColumn` is any deletion time. `table` and `outbox` are the database:
`outbox` has the events by id, with the session whose open transaction
inserted them, and `lastId` is the auto-increment counter, which a rollback does
not take back; `held` is a row lock and `work` the row as its transaction sees
it; `model` is the struct the application holds.

| Definition | Code |
|---|---|
| `Create`, `Save`, `Update`, `UpdateWhere`, `Delete` | statements of the application as GORM executes them (external), up to the callback; `Keyed`: `resolveModels` found a primary key |
| `AfterCreate`, `AfterUpdate`, `AfterDelete` | the callbacks' choice of action and payload. `Update` by struct leaves nothing for `extractChangedFields`: GORM has set the model by then |
| `Inserted`, `Persist` | `insertFromEvents`, and `persistSyncEvents` through the statement's connection |
| `CallbackOff`, `CallbackUnidentified`, `CallbackPersists`, `CallbackFails` | the ways a callback ends: not registered or off, no primary key (`recordUnidentifiedRows`), outbox row in the statement's transaction, failed insert and `AddError` |
| `Commit`, `Rollback` | the end of the statement's own transaction or of the application's |
| `EnableAll`, `EnableModel`, `DisableAll`, `DisableModel`, `SwitchStep`, `SwitchFails` | `EnableAutoSync` and `DisableAutoSync`, step by step; a statement runs the callbacks that were there when it began and reads the flag in the callback |
| `RequestLoads`, `RequestById`, `RequestEnqueued` | the Enqueue commands: load, then insert, without a transaction around both |
| `Deliver` | a relay without faults: the committed event with the lowest id |
| `Expected` | the document a rebuild would write (`fullSyncQuery`'s scope) |

`NoUnexplainedDrift` needs a list of causes. `cause` and `excused` are history
variables that record which of them has struck; when everything is delivered
and index and table agree, `excused` is emptied. Each of the seven is needed:
without any one of them the property fails.

`Save` of a row that is gone is one step with one event. GORM makes it an
UPDATE of no row and an INSERT, each with its callback and event; both carry the
same whole document in the same transaction.

Left out: statements on several rows (each row gets the events it would get
alone), savepoints (the database reverts row and outbox row together),
connections with `SkipDefaultTransaction`, columns GORM or the database fills by
itself, and the counter `OutboxEventsPersisted`.

## Runs

Bounds (`MaxTime`, `MaxClaims`, `MaxFaults`, `MaxAdmin`, `MaxWrites`,
`MaxBulkFaults`, `MaxStatements`, `MaxEvents`, and the sets of calls) appear in
guards only. Every instance stops at its bounds or when its calls have
returned, so deadlock is not checked.

| Run | Question | Instance |
|---|---|---|
| `relay_protocol` | do leases exclude and protect, is a row acknowledged only for its own delivery, are backoff and budget kept, is the table the queue it should be | 2 workers, 2 rows of 2 documents (one with an unsupported action), clock to 3 with a lease of 1, 2 claims per row, 2 faults, 1 operator command in two statements: a worker can hold an expired lease while another claims, delivers, retries and kills the row |
| `relay_settles` | is every row settled, and are a document's events delivered in order while nothing goes wrong | 1 fair worker, 2 rows of one document, 6 claims, 2 faults, 1 operator command |
| `lifecycle_calls` | one loop, flags of the right loop, nobody waits for ever, panics are seen, shutdown drains | 2 Starts, 1 Run, 1 Shutdown, fair: a loop may die and be followed by another while Shutdown passes |
| `fullsync_alias` | is the alias always sound and served, is nothing left behind | 3 rebuilds, 1 bootstrap, 2 old indices, 1 row, 1 write, 1 fault: three rebuilds are needed for one to resolve, the second to switch and delete, and the third to come in between |
| `fullsync_copy` | does the live index hold the table, does every rebuild end | 2 rebuilds, one of the whole table and one from a checkpoint behind the first row, 2 rows in pages of one, 2 writes, a scan strategy that may stand still, fair |
| `autosync_drift` | what can make the index differ from the table | 2 sessions, 2 statements (in one transaction or two), a row of 3 columns, 3 registrations, and one of: failed insert or commit, switching call, operator's request |
| `ops_console` | do `FullSync`, `reconcile --repair`, the recorder and shared searches keep their promises together | 6 commands (everything, a model named twice, models in either order, with and without repair), 3 registries (of no model, of two, and of two of which one cannot be scanned), one document lost by a rebuild under the commands that repair or rebuild everything, 2 workers, one row that comes during the command, a ring of 2, 1 failure from elsewhere and 1 reading of `GetMetrics` beside the command that names a model twice, 2 callers and 2 searches (one query in two types that are printed alike, one query that cannot be marshalled) beside the command on one model; the bounds `SearchBeside`, `WatchBeside` and `LoseBeside` say beside which commands |
| `relay_reorders`, `relay_transport_budget`, `fullsync_bulk_loss`, `fullsync_leftover`, `lifecycle_late_run` | disagreements between the code and its documentation; see below | the smallest instances that show them |

Two of everything is where the protocols can go wrong: a lease has a holder and
a contender, an alias a switch and a rival, a row a writer and a stale reader.
In `ops_console` two models keep both workers busy, three failures wrap a ring
of two, and the searches and monitors run beside one command each, because they
touch the pool through the index, the ring and the counter alone. Documents get
lost under the commands without these neighbours. The proofs
below hold for any number.

Fairness.

- `OutboxRelay`: the clock advances, and a worker's next step without a fault
  happens in the end. The relay loop's timer fires again after every batch,
  whatever the batch returned (`outbox_relay.go:168-183`). Faults and operator
  commands are finitely many. In `relay_settles` timestamps saturate at
  `Horizon = MaxTime`, so that when the clock has reached the end of the
  instance everything scheduled is due; in every other run the horizon is out
  of reach. Two fair workers are not claimed to settle every row: with every
  request slower than the lease they can take a row from each other for ever.
- `RelayLifecycle`: a goroutine that can go on does; a batch ends, because each
  of its requests and statements has a time limit. `LoopReturns` is strongly
  fair: the loop's `select` picks at random among ready cases, so it does not
  take its timer instead of the done context for ever. The host's
  cancellation, panics and the deadline of `Shutdown` are not fair.
- `FullSync`: a rebuild that has begun is sequential code over requests with
  time limits, and the workers of its bulk indexer flush by size, by time and
  on `Close`.

- `FullSyncPool` (`PoolFairness`): goroutines that can go on do, and a rebuild
  ends one way or another, which is what `RebuildEnds` of `FullSync` says.
  Cancellations, failures elsewhere and monitors are not fair.
- `SharedSearch` (`SearchFairness`): a request ends, with an answer or with an
  error of the transport. Nothing is assumed of those who wait.

## Proofs

For any constants that satisfy the modules' assumptions: any rows, workers,
calls, indices, configuration and bounds. `Workers` of `OutboxRelay` and `Ids` of
`FullSync` are finite sets, because the code counts them (a lone worker, a page
of rows); the value that stands for "no row" is not a row. Where a theorem needs
more, its hypothesis is stated below.

`OutboxRelay_proofs`

- `TypeCorrect`: `Spec => []TypeOK`.
- `FencingInvariant`: `FencingInv` is inductive. Mutual exclusion alone is not:
  it needs that tokens are unique among workers (`TokensUnique`), which needs
  that no held token is ahead of the row's claim counter (`TokensIssued`);
  acknowledgements need that a 2xx in a worker's hands belongs to the request
  made under the token it will write back with (`AnswersBacked`); lease and
  backoff need that the captured clock is not ahead (`ClocksBehind`).
- `LeasesExclude`, `NoFalseAcknowledgement`, `LeasesProtect`, `RetriesWait`:
  the corresponding properties, from the invariant and `RowStep`, a lemma that
  names the four ways a row can change. `LeasesProtect` says who changes a
  leased row: an operator, or the worker that holds the lease, by writing the
  outcome of its own request back (`WritesBack`).
- `RelayImplementsQueue`: the refinement of `OutboxQueue`, step by step. A
  worker's write-back maps to a step of the queue only if its row was inserted
  and its acknowledgement belongs to it (`RowsKnown` and the fencing invariant);
  everything else a worker does is a stutter.
- `SnapshotsFresh`, `BudgetSpent`: `FreshSnapshot` and `DeadMeansBudgetSpent`,
  if `MaxTime < Horizon`, that is, as long as timestamps do not saturate (a
  saturated retry would be due at once; only `relay_settles` uses that).
  `AttemptsInv` is inductive: the attempts a candidate query read are those of
  the row as long as the worker may still claim it, because whoever counted one
  more postponed the row behind the query's clock.
- `DeliveredInOrder`: `InOrderUnlessDisturbed`, if every action is known and an
  update follows an event that leaves its document there (`UpdatesFollow`;
  other rows die without an effect). An operator's command, an Enqueue row that
  commits out of order among them, disturbs. `OrderInv` says that the settled
  rows of a document come before the others, that the worker's candidates leave
  no earlier row of a document out, although the query looks at four batches
  only, and that the document is what its last handled row made of it.

`RelayLifecycle_proofs`

- `LifecycleInvariant`: `LifecycleInv` is inductive: a Start call between Lock
  and Unlock holds the lock, the flags belong to the loop that has not reset
  them, the wait group covers a loop until its last deferred function, and once
  a Shutdown has been through the lock no Start is about to make a loop.
- `TypeCorrect`, `FlagsBelong`, `LoopsExclude`, `ShutdownIsFinal`: type
  correctness, `FlagsMatchOwner`, `OneLoop` and `ShutdownDrainsStarted` from it.

`FullSync_proofs`

- `RebuildInvariant`: `RebuildInv` is inductive. A sound alias alone is not: a
  rebuild deletes what it resolved long ago, so the proof needs that an index
  that has not been live yet is in nobody's list (`NamesFresh`), that old
  indices still behind the alias are in every list an update will remove
  (`OldCovered`), that late requests belong to failed calls (`LateFailed`), that
  what is about to be deleted has left the alias (`Detached`) and that a
  concrete index in the alias's place is found alone (`LegacyAlone`).
- `TypeCorrect`, `AliasAlwaysSound`, `AlwaysServed`: type correctness,
  `AliasSound` and `NoGap`.
- `NothingLeftBehind`: `NothingLeft`. `OwnerInv` says that every index has the
  alias, or somebody who will remove it or has failed: an index is in the hands
  of its rebuild until the switch, and from then on either behind the alias or
  on the list of the rebuild that took its place.
- `DriftOnlyInWindow`: unless a bulk request lost a document (`used.bulk = 0`),
  `OnlyWindowDrift`, for every set of checkpoints. `fullsync_bulk_loss` shows
  that the exception is needed. `BatchSize # 0` is a hypothesis: a configured
  `DefaultBatchSize` of 0 is not normalised (`syncer.go:226-240` does so for the
  outbox only) and a rebuild then copies nothing (`fullsync.go:218-221`).
  `CopyInv` follows a row that nobody touches through the scan, the bulk queue
  and the index, and through alias updates that arrive late. That a page
  shorter than the batch size is the last one, and that a full page has
  everything up to the new cursor, is shown by the least counterexample, which
  a set of natural numbers has.

`AutoSync_proofs`

- `DriftInvariant`: `DriftInv` is inductive. `NoUnexplainedDrift` speaks only of
  moments with nothing left to deliver; in between, the committed events must
  lead from what the index holds to what it should hold (`Converging`), the
  events of an open transaction from the document of the committed row to that
  of the row the session has written (`SessionOK`, `Accounted`), and the first
  must come before the second (`InOrder`), so that a commit joins the two. The
  rest is needed to get there: one session writes the row at a time
  (`Exclusive`), and a statement finds its callback unless a switch is on record
  (`SwitchInv`, over the steps of `EnableAutoSync` and `DisableAutoSync`). What
  a statement's event does to the document is `StatementRuns`, by the kinds of
  statement.
- Where events lead is said without recursion: `Path` asks for a function that
  gives the document after every id (`Course`). The lemmas `PathAppend`,
  `PathTake`, `PathJoin`, `PathSame` and `PathEmpty` are what inserting,
  delivering, committing and ignoring rows do to it.
- `DriftExplained`, `TypeCorrect`: `NoUnexplainedDrift` and type correctness,
  without a hypothesis.

`FailureRecorder_proofs`

- `RecorderInvariant`: while the ring is not full `next` is `count`, and counted
  back from `next` the slots hold the last `count` of all the failures recorded.
- `NewestFirst`, `NewestForAnyLimit`, `RingImplementsLog`: `RecentAreNewest`,
  the same for every integer as the limit, and the refinement of `FailureLog`,
  for every buffer size.

`FullSyncPool_proofs` (extends `FailureRecorder_proofs`)

- `PoolInvariant`: `PoolInv` is inductive. Besides types and the ring it says
  that every task taken is either in one worker's hands or answered, once
  (`TaskInv`), what a closed channel and a returned call imply (`CallInv`),
  that a rebuild's copy and the index of a good result were given the rows of
  the beginning (`CopyInv`), and that the failures counted and being counted are no more than
  the ring can show for (`CountInv`).
- `NoModelTwice`, `EveryTaskAnswered`, `SuccessIsVisible`, `SamplesComeFirst`,
  `PoolKeepsTheLog`: `OneRebuildPerModel`, `Answered`, `SuccessMeansRebuilt`,
  `CountedIsRetained` and `ImplementsLog` with any number of writers and any
  losses in the bulk indexers.

`SharedSearch_proofs`

- `SearchInvariant`: the group's map and the callers agree (`Led`), and an
  answer in hand is at least what each of those waiting may expect (`Fresh`).
  The index may grow at any moment.
- `SharedOnce`, `EveryoneItsOwn`, `NeverReused`: `OneRequestPerKey`,
  `OwnAnswer` (whatever types are printed alike) and `NoReuse`.

`OpsConsole_proofs` (extends the two before)

- `ConsoleIsAPool`, `ConsoleIsASearch`: every step of the composition is a step
  or a stutter of each part, so the theorems about the parts hold of the whole.
- `ConsoleInvariant`, `ConsoleTypes`, `RepairIsComplete`: the verdicts are
  those of the listed models in order, a match means that the alias shows the
  rows of the beginning or its index was given them and lost some, and without
  duplicates the list of mismatches names exactly the models that differ; a
  repair that was refused had a model without a cursor in it. Hence
  `RepairRepairs` with its exceptions.

Only checked by TLC is what is out of the prover's reach: liveness
(`EventuallySettled`, `PanicReported`, `StartReturns`, `ShutdownReturns`,
`LoopEnds`, `RebuildEnds`, `FullSyncReturns`, `SearchesReturn`).

## Disagreements and observations

The first five are runs that TLC finds violated; the others are what modelling
showed besides, and the hazards in `PROJECT.json` refer to them by number.

1. Transport failures consume the retry budget (`relay_transport_budget`):
   `markRetry` counts every retry in the counter that is compared with
   `MaxAttempts`.
2. Events of one document are delivered out of order after a retry
   (`relay_reorders`), and nothing is left to repair it.
3. A rebuild that lost documents in the bulk indexer goes live and the complete
   index is deleted (`fullsync_bulk_loss`).
4. A rebuild whose alias switch fails leaves its index behind
   (`fullsync_leftover`).
5. A `RunOutboxRelay` that has looked at `stopped` begins its loop behind a
   completed `Shutdown` (`lifecycle_late_run`).
6. The same late loop makes a Shutdown that is still waiting wait until its
   deadline: nobody cancels the loop, hence the exception in `ShutdownReturns`,
   which covers loops that began behind that Shutdown and no others.
7. A delete whose answer was lost meets a 404 at its retry and ends dead,
   though it was applied (`outbox_relay.go:238`).
8. `CleanupOutbox` with a limit deletes selected ids without looking at their
   status again, rows replayed meanwhile included (`ops.go:97`).
9. A replay between a worker's candidate query and its claim is undone: the
   worker goes on with the old attempts (`outbox_store.go:130`).
   `FreshSnapshot` and `DeadMeansBudgetSpent` are stated without operators.
10. A rebuild from a checkpoint goes live without the rows up to the
    checkpoint (`fullsync.go:298-303`), and deletes the index that had them.
    `OnlyWindowDrift` speaks of the rows after it.
11. `Updates` with a struct sends the whole document from memory also without
    full-document updates, where the repository's `README.md:463` speaks of
    changed fields only: GORM sets the model before the callback compares
    (`callback.go:126-137`). Columns that are stale in memory overwrite newer
    ones in the index; cause `stale` in `AutoSync`.
12. `Updates` with a map sends the named columns only; a column GORM sets by
    itself (`updated_at`) keeps its old value in the index (`callback.go:345`).
13. With `SoftDeleteModeDelete` a row restored or deleted by an update of
    `deleted_at` is missing from the index or stays in it; cause `scope`.
14. `EnableAutoSync` for named models that meets an unregistered one returns an
    error with every model switched off (`callback.go:26-29`).
15. `reconcile --repair` with an argument given twice repairs the wrong model:
    `ReconcileCounts` lists each model once, `cobra_ops.go:425` takes the i-th
    result for the i-th argument, where the repository's `README.md:395` says
    that the models that differ are rebuilt. `RepairRepairs` is stated for
    arguments named once.
16. A cancelled `FullSync` returns fewer results than models: each worker
    answers for one and leaves, the rest stay in the channel
    (`fullsync.go:61-64`). `Answered` asks for the models taken.
17. A full sync that ends because its context is cancelled, or because its bulk
    indexer cannot be made or closed, is neither recorded nor counted
    (`fullsync.go:239-249`, `292-295`).
18. A `failureHook` that panics does so inside the deferred function that
    recovers from a rebuild's panic (`fullsync.go:91-108`) and takes the process
    with it.
19. A shared search runs with the context of whoever came first: when that
    caller gives up, all who wait fail, and their own deadlines are not looked
    at (`searcher/search.go:177-179`). They also get one and the same
    `*SearchResult`.
20. `buildQuery` appends the soft-delete filter to the builder's own slice of
    `mustNot` (`searcher/search.go:260`), so two searches derived from one
    builder may write into one array.
21. `ReconcileCounts` counts soft-deleted rows also where the index does not hold
    them: `Table` without a model knows no soft-delete scope (`ops.go:195-198`),
    and such a model never matches.
22. The Elasticsearch client retries requests by itself (`syncer.go:94-98`), so
    that a delete can meet its own 404 within one attempt
    (`EsHandlesRepeated`; compare 7).
23. One model without a cursor among those to repair turns the whole
    `reconcile --repair` down: `FullSync` returns a single result, for that model
    (`fullsync.go:35-47`), and the others that differ are neither rebuilt nor
    mentioned, where the repository's `README.md:395` says that the models that
    differ are rebuilt. `RepairRepairs` excepts it (`TurnedDown`).

## Not modelled

Reflection over struct tags and mapping documents (`model.go`), configuration
and options (`config.go`, `options.go`: settings that are loaded, normalised and
validated before anything runs, and setters that keep positive values; the
normalised results are the constants' assumptions), argument parsing and printing
and the commands that only print (`cobra_ops.go`), query construction and result
decoding (`searcher/query.go`, `result.go`, `agg.go` and the builder methods of
`search.go`), the counters no decision reads (`metrics.go`), logging, the
application's `failureHook`. None of these keeps state that several steps or
several actors share. Clock skew between hosts is outside the model; the lease
arguments assume one clock, as the code does. `relay_settles` has fewer rows than
the window of candidates (four batches), so that rows outside it are not part of
the liveness claim.
