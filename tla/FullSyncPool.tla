---------------------------- MODULE FullSyncPool ----------------------------
(***************************************************************************)
(* FullSync over several models (fullsync.go:26-121): validate all of      *)
(* them, queue one task per model in a closed channel, let a few workers   *)
(* rebuild them, gather the results from a second channel.  Failures go to *)
(* the recorder and its counter (failures.go:106-121), which other parts   *)
(* of the program write as well and GetMetrics reads (syncer.go:265-286).  *)
(*                                                                         *)
(* taskCh is entries and how many of them have been received, resultCh is  *)
(* sent: it has room for all, so that sending never blocks, and the caller *)
(* reads it until it is closed.  One rebuild is three steps here; the      *)
(* module FullSync has all of it.                                          *)
(***************************************************************************)
EXTENDS Content, FailureRecorder, FiniteSets

CONSTANTS
  Registries,     \* sets of models that may be registered
  Unscannable,    \* models whose scan strategy cannot make a cursor
  SyncWorkers,    \* Sync.Workers of the configuration
  Others,         \* failures that relay, callbacks and bulk indexers record
  MaxElsewhere,   \* how many of them (bound of the instance)
  MaxLosses       \* documents of one rebuild that get lost (likewise)

ASSUME PoolAssumption ==
  /\ Models \subseteq Events
  /\ Registries \subseteq SUBSET Models
  /\ \A r \in Registries : IsFiniteSet(r)
  /\ SyncWorkers \in Int
  /\ Others \subseteq Events
  /\ MaxElsewhere \in Nat
  /\ MaxLosses \in Nat

Pool == 1..(IF SyncWorkers < 1 THEN 1 ELSE SyncWorkers)
Caller == 0
Elsewhere == -1
Recorders == Pool \cup {Caller, Elsewhere}

VARIABLES
  registered,  \* the registry
  call,        \* where FullSync is
  entries,     \* what it was asked for
  taken,       \* tasks received from taskCh
  worker,      \* where each worker is
  task,        \* the position of its task in entries
  outcome,     \* the error of its result
  copied,      \* the rows its rebuild has read
  sent,        \* results sent to resultCh
  closed,      \* resultCh is closed
  cancelled,   \* the caller's context
  base         \* history: the rows there were when the call began

VARIABLES
  pending,     \* the failure each recorder is about to record
  counting,    \* those that have recorded it and not counted it
  errors,      \* FullSyncErrorsTotal
  elsewhere,   \* failures recorded by others so far (bound)
  monitor,     \* where GetMetrics is
  seen,        \* the counter it has read
  snapshot     \* what it returned last

call_vars == <<registered, call, entries, taken, sent, closed, cancelled, base>>
work_vars == <<worker, task, outcome, copied>>
failure_vars == <<pending, counting, errors, elsewhere>>
monitor_vars == <<monitor, seen, snapshot>>
pool_vars == <<call_vars, work_vars, failure_vars, monitor_vars, recorder, content>>

Results == [entry : Nat \ {0}, err : {"none", "failed", "cancelled"}]

PoolTypeOK ==
  /\ ContentTypeOK
  /\ RecorderTypeOK
  /\ registered \in Registries
  /\ call \in {"idle", "running", "returned", "refused"}
  /\ entries \in Seq(Models)
  /\ taken \in 0..Len(entries)
  /\ worker \in [Pool -> {"off", "receive", "check", "rebuild", "clean", "report", "done"}]
  /\ task \in [Pool -> 0..taken]
  /\ outcome \in [Pool -> {"none", "failed"}]
  /\ copied \in [Pool -> Nat]
  /\ sent \in Seq(Results)
  /\ closed \in BOOLEAN
  /\ cancelled \in BOOLEAN
  /\ base \in [Models -> Nat]
  /\ pending \in [Recorders -> Events \cup {NoEvent}]
  /\ counting \in SUBSET Recorders
  /\ errors \in Nat
  /\ elsewhere \in Nat
  /\ monitor \in {"idle", "summary", "done"}
  /\ seen \in Nat
  /\ snapshot \in [errors : Nat, retained : Nat, last : BOOLEAN]

PoolInit ==
  /\ ContentInit
  /\ RecorderInit
  /\ registered \in Registries
  /\ call = "idle"
  /\ entries = <<>> /\ taken = 0
  /\ worker = [w \in Pool |-> "off"]
  /\ task = [w \in Pool |-> 0]
  /\ outcome = [w \in Pool |-> "none"]
  /\ copied = [w \in Pool |-> 0]
  /\ sent = <<>>
  /\ closed = FALSE /\ cancelled = FALSE
  /\ base = rows
  /\ pending = [p \in Recorders |-> NoEvent]
  /\ counting = {}
  /\ errors = 0 /\ elsewhere = 0
  /\ monitor = "idle" /\ seen = 0
  /\ snapshot = [errors |-> 0, retained |-> 0, last |-> FALSE]

-----------------------------------------------------------------------------
(* recordFailure: the ring, then the counter of full sync failures.         *)

\* MUTANT: a failure is counted before its sample is kept.
RecordFailureMutant(p) ==
  /\ pending[p] # NoEvent /\ p \notin counting
  /\ counting' = counting \cup {p}
  /\ UNCHANGED <<call_vars, work_vars, monitor_vars, recorder, content, pending, errors, elsewhere>>

RecordFailure(p) ==
  /\ pending[p] # NoEvent /\ p \notin counting
  /\ Record(pending[p])
  /\ IF pending[p] \in Models
     THEN counting' = counting \cup {p} /\ UNCHANGED pending
     ELSE pending' = [pending EXCEPT ![p] = NoEvent] /\ UNCHANGED counting
  /\ UNCHANGED <<call_vars, work_vars, monitor_vars, content, errors, elsewhere>>

CountFailure(p) ==
  /\ p \in counting
  /\ errors' = errors + 1
  /\ counting' = counting \ {p}
  /\ pending' = [pending EXCEPT ![p] = NoEvent]
  /\ UNCHANGED <<call_vars, work_vars, monitor_vars, recorder, content, elsewhere>>

FailElsewhere(e) ==
  /\ pending[Elsewhere] = NoEvent
  /\ elsewhere < MaxElsewhere
  /\ elsewhere' = elsewhere + 1
  /\ pending' = [pending EXCEPT ![Elsewhere] = e]
  /\ UNCHANGED <<call_vars, work_vars, monitor_vars, recorder, content, counting, errors>>

\* GetMetrics: the counters first, the recorder's summary afterwards.  It
\* changes nothing, so that one reading at any moment is as good as many.
ReadCounters ==
  /\ monitor = "idle"
  /\ monitor' = "summary"
  /\ seen' = errors
  /\ UNCHANGED <<call_vars, work_vars, failure_vars, recorder, content, snapshot>>

ReadSummary ==
  /\ monitor = "summary"
  /\ monitor' = "done"
  /\ snapshot' = [errors |-> seen, retained |-> count, last |-> hasLast]
  /\ UNCHANGED <<call_vars, work_vars, failure_vars, recorder, content, seen>>

-----------------------------------------------------------------------------
(* The call.                                                                *)

\* S as sequences in which every member occurs once.
Listings(S) ==
  {s \in [1..Cardinality(S) -> S] : \A i, j \in DOMAIN s : s[i] = s[j] => i = j}

Named(models) == {models[i] : i \in DOMAIN models}

First(models, m) ==
  CHOOSE i \in DOMAIN models : models[i] = m /\ \A j \in 1..i - 1 : models[j] # m

\* MUTANT: a model named twice is done twice.
EntriesForMutant(models) == IF models = <<>> THEN Listings(registered) ELSE {models}

\* The named models once each in their order; without names, all of them in
\* whatever order the map has.
EntriesFor(models) ==
  IF models = <<>> THEN Listings(registered)
  ELSE {s \in Listings(Named(models)) : \A i, j \in DOMAIN s :
          i < j => First(models, s[i]) < First(models, s[j])}

Unknown(models) == Named(models) \ registered # {}

\* A model that is not registered, or nothing to do.
Refuse(models) ==
  /\ call = "idle"
  /\ Unknown(models) \/ (models = <<>> /\ registered = {})
  /\ call' = "refused"
  /\ UNCHANGED <<registered, entries, taken, sent, closed, cancelled, base>>
  /\ UNCHANGED <<work_vars, failure_vars, monitor_vars, recorder, content>>

\* The first model without a cursor ends the call before any work.
RefuseInvalid(models) ==
  /\ call = "idle" /\ ~Unknown(models)
  /\ \E s \in EntriesFor(models) : \E k \in DOMAIN s :
       /\ s[k] \in Unscannable
       /\ \A j \in 1..k - 1 : s[j] \notin Unscannable
       /\ pending' = [pending EXCEPT ![Caller] = s[k]]
  /\ call' = "refused"
  /\ UNCHANGED <<registered, entries, taken, sent, closed, cancelled, base>>
  /\ UNCHANGED <<work_vars, monitor_vars, recorder, content, counting, errors, elsewhere>>

Begin(models) ==
  /\ call = "idle" /\ ~Unknown(models)
  /\ \E s \in EntriesFor(models) :
       /\ s # <<>>
       /\ \A k \in DOMAIN s : s[k] \notin Unscannable
       /\ entries' = s
       /\ worker' = [w \in Pool |-> IF w <= Len(s) THEN "receive" ELSE "off"]
  /\ call' = "running"
  /\ base' = rows
  /\ UNCHANGED <<registered, taken, sent, closed, cancelled>>
  /\ UNCHANGED <<task, outcome, copied, failure_vars, monitor_vars, recorder, content>>

Cancel ==
  /\ call = "running" /\ ~cancelled
  /\ cancelled' = TRUE
  /\ UNCHANGED <<registered, call, entries, taken, sent, closed, base>>
  /\ UNCHANGED <<work_vars, failure_vars, monitor_vars, recorder, content>>

\* The goroutine behind the wait group.
CloseResults ==
  /\ call = "running" /\ ~closed
  /\ \A w \in Pool : worker[w] \in {"off", "done"}
  /\ closed' = TRUE
  /\ UNCHANGED <<registered, call, entries, taken, sent, cancelled, base>>
  /\ UNCHANGED <<work_vars, failure_vars, monitor_vars, recorder, content>>

\* The closed channel has been read to its end.
Return ==
  /\ call = "running" /\ closed
  /\ call' = "returned"
  /\ UNCHANGED <<registered, entries, taken, sent, closed, cancelled, base>>
  /\ UNCHANGED <<work_vars, failure_vars, monitor_vars, recorder, content>>

-----------------------------------------------------------------------------
(* The workers.                                                             *)

Model(w) == entries[task[w]]

WorkerGoto(w, label) == worker' = [worker EXCEPT ![w] = label]

Send(w, err) == sent' = Append(sent, [entry |-> task[w], err |-> err])

Receive(w) ==
  /\ worker[w] = "receive" /\ taken < Len(entries)
  /\ taken' = taken + 1
  /\ task' = [task EXCEPT ![w] = taken + 1]
  /\ WorkerGoto(w, "check")
  /\ UNCHANGED <<registered, call, entries, sent, closed, cancelled, base>>
  /\ UNCHANGED <<outcome, copied, failure_vars, monitor_vars, recorder, content>>

\* MUTANT: the task channel is never closed.
NoMoreTasksMutant(w) == FALSE

\* The closed task channel is empty.
NoMoreTasks(w) ==
  /\ worker[w] = "receive" /\ taken = Len(entries)
  /\ WorkerGoto(w, "done")
  /\ UNCHANGED <<call_vars, task, outcome, copied, failure_vars, monitor_vars, recorder, content>>

\* A cancelled context: one result, and the worker leaves the rest behind.
GiveUp(w) ==
  /\ worker[w] = "check" /\ cancelled
  /\ Send(w, "cancelled")
  /\ WorkerGoto(w, "done")
  /\ UNCHANGED <<registered, call, entries, taken, closed, cancelled, base>>
  /\ UNCHANGED <<task, outcome, copied, failure_vars, monitor_vars, recorder, content>>

\* The rebuild has its index and begins to read the table.
StartRebuild(w) ==
  /\ worker[w] = "check" /\ ~cancelled
  /\ copied' = [copied EXCEPT ![w] = rows[Model(w)]]
  /\ WorkerGoto(w, "rebuild")
  /\ UNCHANGED <<call_vars, task, outcome, failure_vars, monitor_vars, recorder, content>>

\* How many of n documents the bulk indexer fails to index.  A request that
\* fails as a whole is recorded by OnError, which is one of the Others here, a
\* document that is refused leaves no trace; Close returns nil after either.
Losses(n) == 0..(IF n < MaxLosses THEN n ELSE MaxLosses)

\* The alias moves, whatever got lost: the new index has been given the rows
\* that were there when the scan began, and those that came before its cursor
\* passed.
SwitchIndex(w) ==
  /\ worker[w] = "rebuild"
  /\ \E n \in copied[w]..rows[Model(w)] :
       /\ docs' = [docs EXCEPT ![Model(w)] = n]
       /\ \E k \in Losses(n) : lost' = [lost EXCEPT ![Model(w)] = k]
  /\ WorkerGoto(w, "clean")
  /\ UNCHANGED <<call_vars, task, outcome, copied, failure_vars, monitor_vars, recorder, rows>>

\* The replaced indices are deleted.
Succeed(w) ==
  /\ worker[w] = "clean"
  /\ WorkerGoto(w, "report")
  /\ UNCHANGED <<call_vars, task, outcome, copied, failure_vars, monitor_vars, recorder, content>>

\* MUTANT: a panic ends the worker without a result.
FailMutant(w) ==
  /\ worker[w] \in {"rebuild", "clean"}
  /\ outcome' = [outcome EXCEPT ![w] = "failed"]
  /\ pending' = [pending EXCEPT ![w] = Model(w)]
  /\ WorkerGoto(w, "done")
  /\ UNCHANGED <<call_vars, task, copied, monitor_vars, recorder, content, counting, errors, elsewhere>>

\* An error that fullSyncTableAt or the scan records, or a panic, which
\* becomes this model's result and is recorded as well.
Fail(w) ==
  /\ worker[w] \in {"rebuild", "clean"}
  /\ outcome' = [outcome EXCEPT ![w] = "failed"]
  /\ pending' = [pending EXCEPT ![w] = Model(w)]
  /\ WorkerGoto(w, "report")
  /\ UNCHANGED <<call_vars, task, copied, monitor_vars, recorder, content, counting, errors, elsewhere>>

\* MUTANT: the error of Close is dropped.
FailSilentlyMutant(w) ==
  /\ worker[w] = "rebuild"
  /\ WorkerGoto(w, "report")
  /\ UNCHANGED <<call_vars, task, outcome, copied, failure_vars, monitor_vars, recorder, content>>

\* An error nobody records: the context ends in the scan, or the bulk indexer
\* cannot be made or closed.
FailSilently(w) ==
  /\ worker[w] = "rebuild"
  /\ outcome' = [outcome EXCEPT ![w] = "failed"]
  /\ WorkerGoto(w, "report")
  /\ UNCHANGED <<call_vars, task, copied, failure_vars, monitor_vars, recorder, content>>

Report(w) ==
  /\ worker[w] = "report" /\ pending[w] = NoEvent
  /\ Send(w, outcome[w])
  /\ WorkerGoto(w, "receive")
  /\ task' = [task EXCEPT ![w] = 0]
  /\ outcome' = [outcome EXCEPT ![w] = "none"]
  /\ copied' = [copied EXCEPT ![w] = 0]
  /\ UNCHANGED <<registered, call, entries, taken, closed, cancelled, base>>
  /\ UNCHANGED <<failure_vars, monitor_vars, recorder, content>>

-----------------------------------------------------------------------------
WorkerStep(w) ==
  \/ Receive(w) \/ NoMoreTasks(w) \/ GiveUp(w) \/ StartRebuild(w) \/ SwitchIndex(w)
  \/ Succeed(w) \/ Fail(w) \/ FailSilently(w) \/ Report(w)

CallerStep == CloseResults \/ Return

RecorderStep(p) == RecordFailure(p) \/ CountFailure(p)

\* What other parts of the program do to recorder and counters.
OtherStep == (\E e \in Others : FailElsewhere(e)) \/ ReadCounters \/ ReadSummary

\* Everything else but the beginning of a call.
PoolStep ==
  \/ \E w \in Pool : WorkerStep(w)
  \/ CallerStep \/ Cancel
  \/ \E p \in Recorders : RecorderStep(p)
  \/ \E m \in Models : Insert(m) /\ UNCHANGED <<call_vars, work_vars, failure_vars, monitor_vars, recorder>>

Start(models) == Refuse(models) \/ RefuseInvalid(models) \/ Begin(models)

PoolNext == PoolStep \/ OtherStep \/ \E models \in Seq(Models) : Start(models)

PoolSpec == PoolInit /\ [][PoolNext]_pool_vars

\* Goroutines that can go on do.  A rebuild ends one way or another, because
\* every request and statement of it has a time limit of its client.
PoolFairness ==
  /\ \A w \in Pool : WF_pool_vars(WorkerStep(w))
  /\ WF_pool_vars(CallerStep)
  /\ \A p \in Recorders : WF_pool_vars(RecorderStep(p))

-----------------------------------------------------------------------------
(* Properties.                                                              *)

(* No model is worked on by two workers or answered twice, whatever list of *)
(* models the caller passed (model.go:146-165, fullsync.go:49-70): two      *)
(* rebuilds of one alias remove each other's indices.                       *)
OneRebuildPerModel ==
  /\ \A v, w \in Pool : v # w /\ {worker[v], worker[w]} \subseteq {"check", "rebuild", "clean", "report"}
                          => Model(v) # Model(w)
  /\ \A i, j \in DOMAIN sent : entries[sent[i].entry] = entries[sent[j].entry] => i = j

(* A model a worker has taken has a result when the call returns, though    *)
(* rebuilds fail and panic (fullsync.go:91-108), and without a cancelled    *)
(* context every model has one.                                             *)
Answered ==
  call = "returned" =>
    \A k \in 1..(IF cancelled THEN taken ELSE Len(entries)) :
      \E i \in DOMAIN sent : sent[i].entry = k

(* A result without an error means that readers find at least the rows      *)
(* there were when FullSync was called (README.md:492), whatever other      *)
(* workers, failures and a cancellation did, but for one thing: documents   *)
(* that the bulk indexer failed to index are missing, and the result has no *)
(* error all the same (fullsync.go:229-237, 292-295).  No other row is.     *)
SuccessMeansRebuilt ==
  \A i \in DOMAIN sent : sent[i].err = "none" =>
    LET m == entries[sent[i].entry] IN Found(m) + lost[m] >= base[m]

(* GetMetrics reads counters and recorder without a common lock             *)
(* (syncer.go:273-274), recordFailure writes them in the other order: a     *)
(* monitor that sees failures counted also finds their samples.             *)
CountedIsRetained ==
  /\ snapshot.retained >= (IF snapshot.errors < Size THEN snapshot.errors ELSE Size)
  /\ snapshot.errors > 0 => snapshot.last

(* FullSync returns, though its workers fail, panic or find the context     *)
(* cancelled, and with more models than workers.                            *)
FullSyncReturns == call = "running" ~> call = "returned"
=============================================================================
