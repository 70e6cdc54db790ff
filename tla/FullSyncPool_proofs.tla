------------------------ MODULE FullSyncPool_proofs ------------------------
(***************************************************************************)
(* FullSync over several models, for any models, any number of workers and *)
(* any size of the failure buffer.                                         *)
(***************************************************************************)
EXTENDS FullSyncPool, FailureRecorder_proofs, FiniteSetTheorems

Active(w) == worker[w] \in {"check", "rebuild", "clean", "report"}
ActiveWorkers == {w \in Pool : Active(w)}

(* Where the call is, and how its workers end (fullsync.go:49-71).          *)
CallInv ==
  /\ \A i, j \in DOMAIN entries : entries[i] = entries[j] => i = j
  /\ call \in {"idle", "refused"} =>
       /\ taken = 0 /\ sent = <<>> /\ ~closed
       /\ \A w \in Pool : worker[w] = "off"
  /\ call \in {"running", "returned"} => worker[1] # "off"
  /\ closed => \A w \in Pool : worker[w] \in {"off", "done"}
  /\ call = "returned" => closed
  /\ ~cancelled => \A w \in Pool : worker[w] = "done" => taken = Len(entries)

(* Every task that was received is with exactly one worker or has exactly   *)
(* one result (fullsync.go:60-67).                                          *)
TaskInv ==
  /\ \A w \in ActiveWorkers : task[w] \in 1..taken
  /\ \A v, w \in ActiveWorkers : task[v] = task[w] => v = w
  /\ \A i \in DOMAIN sent : /\ sent[i].entry \in 1..taken
                            /\ \A w \in ActiveWorkers : task[w] # sent[i].entry
  /\ \A i, j \in DOMAIN sent : sent[i].entry = sent[j].entry => i = j
  /\ \A k \in 1..taken : \/ \E w \in ActiveWorkers : task[w] = k
                         \/ \E i \in DOMAIN sent : sent[i].entry = k

(* What a worker copies is what was there when the call began, or more, and *)
(* never less than readers see already (fullsync.go:188-202).               *)
CopiedEnough(w) ==
  worker[w] = "rebuild" =>
    /\ base[Model(w)] <= copied[w] /\ copied[w] <= rows[Model(w)]
    /\ docs[Model(w)] <= copied[w]

VisibleEnough(w) ==
  worker[w] = "clean" \/ (worker[w] = "report" /\ outcome[w] = "none") =>
    base[Model(w)] <= docs[Model(w)]

\* A result without an error: the index has been given what there was.
ResultsCovered ==
  \A i \in DOMAIN sent : sent[i].err = "none" =>
    docs[entries[sent[i].entry]] >= base[entries[sent[i].entry]]

CopyInv ==
  /\ \A m \in Models : base[m] <= rows[m]
  /\ \A w \in Pool : CopiedEnough(w) /\ VisibleEnough(w)
  /\ ResultsCovered

(* Whoever has counted a failure, or is about to, has kept a sample before  *)
(* (failures.go:112-116).                                                   *)
CountInv ==
  /\ errors + Cardinality(counting) <= count \/ count = Size
  /\ monitor = "summary" => seen <= count \/ count = Size
  /\ CountedIsRetained

PoolInv == PoolTypeOK /\ RecorderInv /\ CallInv /\ TaskInv /\ CopyInv /\ CountInv

-----------------------------------------------------------------------------
(* What the callers of entriesForModels get (model.go:146-165).             *)

(* There is at least one worker (fullsync.go:49-51), and only so many       *)
(* goroutines that record failures.                                         *)
LEMMA PoolFacts ==
  /\ Pool \subseteq Nat \ {0} /\ 1 \in Pool /\ IsFiniteSet(Pool)
  /\ IsFiniteSet(Recorders)
  /\ Caller \in Recorders /\ Elsewhere \in Recorders /\ Pool \subseteq Recorders
  <1>1. Pool \subseteq Nat \ {0} /\ 1 \in Pool
    BY PoolAssumption DEF Pool
  <1>2. IsFiniteSet(Pool)
    BY PoolAssumption, FS_Interval DEF Pool
  <1>3. Recorders = (Pool \cup {Caller}) \cup {Elsewhere}
    BY DEF Recorders
  <1>4. IsFiniteSet(Recorders)
    BY <1>2, <1>3, FS_AddElement
  <1> QED BY <1>1, <1>2, <1>4 DEF Recorders

(* A listing is a sequence without repetition (model.go:158-162).           *)
LEMMA ListingsAreDistinct ==
  ASSUME NEW S, IsFiniteSet(S), NEW s \in Listings(S)
  PROVE  /\ s \in Seq(S)
         /\ \A i, j \in DOMAIN s : s[i] = s[j] => i = j
  <1>1. Cardinality(S) \in Nat
    BY FS_CardinalityType
  <1> QED BY <1>1 DEF Listings

(* Whatever was asked for, the entries are registered models without        *)
(* repetition.                                                              *)
LEMMA EntriesAreDistinct ==
  ASSUME NEW models \in Seq(Models), registered \in Registries, NEW s \in EntriesFor(models)
  PROVE  /\ s \in Seq(Models)
         /\ \A i, j \in DOMAIN s : s[i] = s[j] => i = j
  <1>1. registered \subseteq Models /\ IsFiniteSet(registered)
    BY PoolAssumption
  <1>2. Named(models) \subseteq Models /\ IsFiniteSet(Named(models))
    <2>1. IsFiniteSet(DOMAIN models)
      BY FS_Interval
    <2>2. models \in Surjection(DOMAIN models, Named(models))
      BY DEF Surjection, Named
    <2>3. IsFiniteSet(Named(models))
      BY <2>1, <2>2, FS_Surjection
    <2> QED BY <2>3 DEF Named
  <1>3. PICK S : s \in Listings(S) /\ S \subseteq Models /\ IsFiniteSet(S)
    BY <1>1, <1>2 DEF EntriesFor
  <1>4. /\ s \in Seq(S)
        /\ \A i, j \in DOMAIN s : s[i] = s[j] => i = j
    BY <1>3, ListingsAreDistinct
  <1>5. s \in Seq(Models)
    BY <1>3, <1>4
  <1> QED BY <1>4, <1>5

-----------------------------------------------------------------------------
(* Type correctness.                                                        *)

(* Before the call: no worker, no result (fullsync.go:26).                  *)
LEMMA TypeInit == PoolInit => PoolTypeOK
  <1> SUFFICES ASSUME PoolInit PROVE PoolTypeOK
    OBVIOUS
  <1>1. RecorderTypeOK
    BY InitRecorder DEF PoolInit, RecorderInv
  <1>2. ContentTypeOK /\ base \in [Models -> Nat]
    BY ContentAssumption DEF PoolInit, ContentInit, ContentTypeOK, Counts
  <1>3. /\ entries \in Seq(Models) /\ taken \in 0..Len(entries) /\ sent \in Seq(Results)
        /\ task \in [Pool -> 0..taken]
    BY DEF PoolInit
  <1>4. pending \in [Recorders -> Events \cup {NoEvent}]
    BY DEF PoolInit
  <1>5. snapshot \in [errors : Nat, retained : Nat, last : BOOLEAN]
    BY DEF PoolInit
  <1> QED BY <1>1, <1>2, <1>3, <1>4, <1>5 DEF PoolInit, PoolTypeOK

(* A new row leaves counts counts.                                          *)
LEMMA InsertKeepsContentType ==
  ASSUME ContentTypeOK, NEW m \in Models, Insert(m)
  PROVE  ContentTypeOK'
  BY DEF ContentTypeOK, Insert

(* What changes nothing keeps the types.                                    *)
LEMMA TypeUnchanged ==
  ASSUME PoolTypeOK, UNCHANGED pool_vars
  PROVE  PoolTypeOK'
  BY DEF PoolTypeOK, pool_vars, call_vars, work_vars, failure_vars, monitor_vars, recorder, content,
         ContentTypeOK, RecorderTypeOK, Size

(* Whoever leaves the recorder alone keeps its types.                       *)
LEMMA RecorderTypeUnchanged ==
  ASSUME RecorderTypeOK, UNCHANGED recorder
  PROVE  RecorderTypeOK'
  BY DEF RecorderTypeOK, recorder, Size

(* Whoever leaves tables and indices alone keeps their counts.              *)
LEMMA ContentTypeUnchanged ==
  ASSUME ContentTypeOK, UNCHANGED content
  PROVE  ContentTypeOK'
  BY DEF ContentTypeOK, content

(* The calling goroutine's steps keep the types.                            *)
LEMMA TypeCall ==
  ASSUME PoolTypeOK, CallInv, CallerStep \/ Cancel \/ (\E models \in Seq(Models) : Start(models))
  PROVE  PoolTypeOK'
  <1> USE DEF PoolTypeOK, call_vars, work_vars, failure_vars, monitor_vars
  <1>1. RecorderTypeOK' /\ ContentTypeOK'
    BY RecorderTypeUnchanged, ContentTypeUnchanged
       DEF CallerStep, CloseResults, Return, Cancel, Start, Refuse, RefuseInvalid, Begin
  <1>2. CASE CloseResults
    BY <1>1, <1>2 DEF CloseResults
  <1>3. CASE Return
    BY <1>1, <1>3 DEF Return
  <1>4. CASE Cancel
    BY <1>1, <1>4 DEF Cancel
  <1>5. ASSUME NEW models \in Seq(Models), Refuse(models) PROVE PoolTypeOK'
    BY <1>1, <1>5 DEF Refuse
  <1>6. ASSUME NEW models \in Seq(Models), RefuseInvalid(models) PROVE PoolTypeOK'
    <2>0. PICK s \in EntriesFor(models) :
            \E k \in DOMAIN s : pending' = [pending EXCEPT ![Caller] = s[k]]
      BY <1>6 DEF RefuseInvalid
    <2>1. PICK k \in DOMAIN s : pending' = [pending EXCEPT ![Caller] = s[k]]
      BY <2>0
    <2>2. s[k] \in Events
      BY EntriesAreDistinct, PoolAssumption
    <2>3. pending' \in [Recorders -> Events \cup {NoEvent}]
      BY <2>1, <2>2
    <2> QED BY <1>1, <1>6, <2>3 DEF RefuseInvalid
  <1>7. ASSUME NEW models \in Seq(Models), Begin(models) PROVE PoolTypeOK'
    <2>1. entries' \in Seq(Models)
      BY <1>7, EntriesAreDistinct DEF Begin
    <2>2. taken = 0 /\ taken' = 0
      BY <1>7 DEF Begin, CallInv
    <2>3. worker' \in [Pool -> {"off", "receive"}]
      BY <1>7 DEF Begin
    <2>4. base' \in [Models -> Nat]
      BY <1>7 DEF Begin, ContentTypeOK
    <2>5. taken' \in 0..Len(entries') /\ task' \in [Pool -> 0..taken']
      BY <1>7, <2>1, <2>2 DEF Begin
    <2> QED BY <1>1, <1>7, <2>1, <2>3, <2>4, <2>5 DEF Begin
  <1> QED BY <1>2, <1>3, <1>4, <1>5, <1>6, <1>7 DEF CallerStep, Start

(* A worker's steps keep the types.                                         *)
LEMMA TypeWorker ==
  ASSUME PoolTypeOK, TaskInv, NEW w \in Pool, WorkerStep(w)
  PROVE  PoolTypeOK'
  <1> USE DEF PoolTypeOK, call_vars, work_vars, failure_vars, monitor_vars, WorkerGoto
  <1>1. RecorderTypeOK'
    BY RecorderTypeUnchanged
       DEF WorkerStep, Receive, NoMoreTasks, GiveUp, StartRebuild, SwitchIndex, Succeed, Fail, FailSilently, Report
  <1>2. Active(w) => task[w] \in 1..taken /\ Model(w) \in Models
    BY DEF TaskInv, ActiveWorkers, Model
  <1>3. CASE SwitchIndex(w)
    <2>1. Model(w) \in Models
      BY <1>2, <1>3 DEF SwitchIndex, Active
    <2>2. PICK n \in copied[w]..rows[Model(w)] :
            /\ docs' = [docs EXCEPT ![Model(w)] = n]
            /\ \E k \in Losses(n) : lost' = [lost EXCEPT ![Model(w)] = k]
      BY <1>3 DEF SwitchIndex
    <2>3. PICK k \in Losses(n) : lost' = [lost EXCEPT ![Model(w)] = k]
      BY <2>2
    <2>4. n \in Nat /\ n <= rows[Model(w)] /\ rows' = rows
      BY <1>3, <2>1 DEF SwitchIndex, ContentTypeOK
    <2>5. k \in Nat /\ k <= n
      BY <2>4, PoolAssumption DEF Losses
    <2>6. ContentTypeOK'
      BY <2>1, <2>2, <2>3, <2>4, <2>5 DEF ContentTypeOK
    <2> QED BY <1>1, <1>3, <2>6 DEF SwitchIndex
  <1>4. ~SwitchIndex(w) => ContentTypeOK'
    BY ContentTypeUnchanged
       DEF WorkerStep, Receive, NoMoreTasks, GiveUp, StartRebuild, Succeed, Fail, FailSilently, Report
  <1>5. CASE Receive(w)
    <2>1. taken' \in 0..Len(entries') /\ taken <= taken' /\ taken + 1 \in 0..taken'
      BY <1>5 DEF Receive
    <2>2. task' \in [Pool -> 0..taken']
      BY <1>5, <2>1 DEF Receive
    <2> QED BY <1>1, <1>4, <1>5, <2>1, <2>2 DEF Receive, SwitchIndex
  <1>6. CASE NoMoreTasks(w)
    BY <1>1, <1>4, <1>6 DEF NoMoreTasks, SwitchIndex
  <1>7. CASE GiveUp(w)
    <2>1. [entry |-> task[w], err |-> "cancelled"] \in Results
      BY <1>2, <1>7 DEF GiveUp, Active, Results
    <2>2. sent' \in Seq(Results)
      BY <1>7, <2>1 DEF GiveUp, Send
    <2> QED BY <1>1, <1>4, <1>7, <2>2 DEF GiveUp, SwitchIndex
  <1>8. CASE StartRebuild(w)
    <2>1. copied' \in [Pool -> Nat]
      BY <1>2, <1>8 DEF StartRebuild, Active, ContentTypeOK
    <2> QED BY <1>1, <1>4, <1>8, <2>1 DEF StartRebuild, SwitchIndex
  <1>9. CASE Succeed(w)
    BY <1>1, <1>4, <1>9 DEF Succeed, SwitchIndex
  <1>10. CASE Fail(w)
    <2>1. Model(w) \in Events
      BY <1>2, <1>10, PoolAssumption DEF Fail, Active
    <2>2. pending' \in [Recorders -> Events \cup {NoEvent}]
      BY <1>10, <2>1 DEF Fail
    <2>3. ContentTypeOK'
      BY <1>10, ContentTypeUnchanged DEF Fail
    <2> QED BY <1>1, <1>10, <2>2, <2>3 DEF Fail
  <1>11. CASE FailSilently(w)
    <2>1. ContentTypeOK'
      BY <1>11, ContentTypeUnchanged DEF FailSilently
    <2> QED BY <1>1, <1>11, <2>1 DEF FailSilently
  <1>12. CASE Report(w)
    <2>1. [entry |-> task[w], err |-> outcome[w]] \in Results
      BY <1>2, <1>12 DEF Report, Active, Results
    <2>2. sent' \in Seq(Results)
      BY <1>12, <2>1 DEF Report, Send
    <2> QED BY <1>1, <1>4, <1>12, <2>2 DEF Report, SwitchIndex
  <1> QED BY <1>3, <1>5, <1>6, <1>7, <1>8, <1>9, <1>10, <1>11, <1>12 DEF WorkerStep

(* The recording of failures, monitors and the applications keep the types. *)
LEMMA TypeOthers ==
  ASSUME PoolTypeOK, RecorderInv,
         \/ \E p \in Recorders : RecorderStep(p)
         \/ OtherStep
         \/ \E m \in Models : /\ Insert(m)
                              /\ UNCHANGED <<call_vars, work_vars, failure_vars, monitor_vars, recorder>>
  PROVE  PoolTypeOK'
  <1> USE DEF PoolTypeOK, call_vars, work_vars, failure_vars, monitor_vars
  <1>1. ASSUME NEW p \in Recorders, RecordFailure(p) PROVE PoolTypeOK'
    <2>1. pending[p] \in Events
      BY <1>1 DEF RecordFailure
    <2>2. RecorderTypeOK'
      BY <1>1, <2>1, RecordKeepsInv DEF RecordFailure, RecorderInv
    <2>3. ContentTypeOK'
      BY <1>1, ContentTypeUnchanged DEF RecordFailure
    <2>4. CASE pending[p] \in Models
      <3>1. counting' \in SUBSET Recorders /\ pending' = pending
        BY <1>1, <2>4 DEF RecordFailure
      <3> QED BY <1>1, <2>2, <2>3, <3>1 DEF RecordFailure
    <2>5. CASE pending[p] \notin Models
      <3>1. counting' = counting /\ pending' = [pending EXCEPT ![p] = NoEvent]
        BY <1>1, <2>5 DEF RecordFailure
      <3>2. pending' \in [Recorders -> Events \cup {NoEvent}]
        BY <3>1
      <3> QED BY <1>1, <2>2, <2>3, <3>1, <3>2 DEF RecordFailure
    <2> QED BY <2>4, <2>5
  <1>2. ASSUME NEW p \in Recorders, CountFailure(p) PROVE PoolTypeOK'
    <2>1. RecorderTypeOK' /\ ContentTypeOK'
      BY <1>2, RecorderTypeUnchanged, ContentTypeUnchanged DEF CountFailure
    <2> QED BY <1>2, <2>1 DEF CountFailure
  <1>3. ASSUME NEW e \in Others, FailElsewhere(e) PROVE PoolTypeOK'
    <2>1. RecorderTypeOK' /\ ContentTypeOK'
      BY <1>3, RecorderTypeUnchanged, ContentTypeUnchanged DEF FailElsewhere
    <2>2. e \in Events
      BY PoolAssumption
    <2>3. pending' \in [Recorders -> Events \cup {NoEvent}]
      BY <1>3, <2>2 DEF FailElsewhere
    <2>4. elsewhere' \in Nat
      BY <1>3 DEF FailElsewhere
    <2> QED BY <1>3, <2>1, <2>3, <2>4 DEF FailElsewhere
  <1>4. CASE ReadCounters
    <2>1. RecorderTypeOK' /\ ContentTypeOK'
      BY <1>4, RecorderTypeUnchanged, ContentTypeUnchanged DEF ReadCounters
    <2> QED BY <1>4, <2>1 DEF ReadCounters
  <1>5. CASE ReadSummary
    <2>1. RecorderTypeOK' /\ ContentTypeOK'
      BY <1>5, RecorderTypeUnchanged, ContentTypeUnchanged DEF ReadSummary
    <2>2. snapshot' \in [errors : Nat, retained : Nat, last : BOOLEAN]
      <3>1. count \in Nat /\ hasLast \in BOOLEAN /\ seen \in Nat
        BY SizeIsPositive DEF RecorderTypeOK
      <3> QED BY <1>5, <3>1 DEF ReadSummary
    <2> QED BY <1>5, <2>1, <2>2 DEF ReadSummary
  <1>6. ASSUME NEW m \in Models, Insert(m),
               UNCHANGED <<call_vars, work_vars, failure_vars, monitor_vars, recorder>>
        PROVE  PoolTypeOK'
    BY <1>6, InsertKeepsContentType, RecorderTypeUnchanged
  <1> QED BY <1>1, <1>2, <1>3, <1>4, <1>5, <1>6 DEF RecorderStep, OtherStep

-----------------------------------------------------------------------------
(* The call.                                                                *)

(* Steps of the recorder and of monitors do not touch the call              *)
(* (failures.go:106-121).                                                   *)
LEMMA CallUnchanged ==
  ASSUME CallInv, UNCHANGED <<call, entries, taken, worker, sent, closed, cancelled>>
  PROVE  CallInv'
  BY DEF CallInv

(* Only a running call has workers, and each changes its own place only.    *)
LEMMA WorkerFacts ==
  ASSUME PoolTypeOK, CallInv, NEW w \in Pool, WorkerStep(w)
  PROVE  /\ worker[w] \notin {"off", "done"} /\ worker'[w] # "off"
         /\ call = "running" /\ ~closed
         /\ UNCHANGED <<registered, call, entries, closed, cancelled, base>>
         /\ \A v \in Pool : v # w => worker'[v] = worker[v]
         /\ taken' # taken => taken < Len(entries)
         /\ worker'[w] = "done" => cancelled \/ (taken' = taken /\ taken = Len(entries))
  <1>1. worker \in [Pool -> {"off", "receive", "check", "rebuild", "clean", "report", "done"}]
    BY DEF PoolTypeOK
  <1>2. /\ worker[w] \notin {"off", "done"} /\ worker'[w] # "off"
        /\ \A v \in Pool : v # w => worker'[v] = worker[v]
    BY <1>1 DEF WorkerStep, WorkerGoto, Receive, NoMoreTasks, GiveUp, StartRebuild, SwitchIndex,
                Succeed, Fail, FailSilently, Report
  <1>3. UNCHANGED <<registered, call, entries, closed, cancelled, base>>
    BY DEF WorkerStep, Receive, NoMoreTasks, GiveUp, StartRebuild, SwitchIndex,
           Succeed, Fail, FailSilently, Report, call_vars
  <1>4. call = "running" /\ ~closed
    BY <1>2 DEF CallInv, PoolTypeOK
  <1>5. /\ taken' # taken => taken < Len(entries)
        /\ worker'[w] = "done" => cancelled \/ (taken' = taken /\ taken = Len(entries))
    BY <1>1 DEF WorkerStep, WorkerGoto, Receive, NoMoreTasks, GiveUp, StartRebuild, SwitchIndex,
                Succeed, Fail, FailSilently, Report, call_vars
  <1> QED BY <1>2, <1>3, <1>4, <1>5

(* A worker moves on within a running call (fullsync.go:56-69).             *)
LEMMA CallWorker ==
  ASSUME PoolTypeOK, CallInv, NEW w \in Pool, WorkerStep(w)
  PROVE  CallInv'
  <1>1. /\ worker[w] \notin {"off", "done"} /\ worker'[w] # "off"
        /\ call = "running" /\ ~closed
        /\ UNCHANGED <<registered, call, entries, closed, cancelled, base>>
        /\ \A v \in Pool : v # w => worker'[v] = worker[v]
        /\ taken' # taken => taken < Len(entries)
        /\ worker'[w] = "done" => cancelled \/ (taken' = taken /\ taken = Len(entries))
    BY WorkerFacts
  <1>2. 1 \in Pool
    BY PoolFacts
  <1>3. worker'[1] # "off"
    BY <1>1, <1>2 DEF CallInv
  <1>4. ASSUME ~cancelled', NEW v \in Pool, worker'[v] = "done"
        PROVE  taken' = Len(entries')
    BY <1>1, <1>4 DEF CallInv
  <1> QED BY <1>1, <1>3, <1>4 DEF CallInv

(* The caller starts its workers and waits for all of them                  *)
(* (fullsync.go:53-84).                                                     *)
LEMMA CallCall ==
  ASSUME PoolTypeOK, CallInv, CallerStep \/ Cancel \/ (\E models \in Seq(Models) : Start(models))
  PROVE  CallInv'
  <1> USE DEF call_vars, work_vars
  <1>1. CASE CloseResults
    BY <1>1 DEF CloseResults, CallInv
  <1>2. CASE Return
    BY <1>2 DEF Return, CallInv
  <1>3. CASE Cancel
    BY <1>3 DEF Cancel, CallInv
  <1>4. ASSUME NEW models \in Seq(Models), Refuse(models) \/ RefuseInvalid(models) PROVE CallInv'
    BY <1>4 DEF Refuse, RefuseInvalid, CallInv
  <1>5. ASSUME NEW models \in Seq(Models), Begin(models) PROVE CallInv'
    <2>1. PICK s \in EntriesFor(models) :
            /\ s # <<>> /\ entries' = s
            /\ worker' = [w \in Pool |-> IF w <= Len(s) THEN "receive" ELSE "off"]
      BY <1>5 DEF Begin
    <2>2. s \in Seq(Models) /\ \A i, j \in DOMAIN s : s[i] = s[j] => i = j
      BY EntriesAreDistinct DEF PoolTypeOK
    <2>3. 1 \in Pool /\ worker'[1] = "receive" /\ \A w \in Pool : worker'[w] # "done"
      BY <2>1, <2>2, PoolFacts
    <2>4. call' = "running" /\ closed' = closed /\ ~closed
      BY <1>5, PoolFacts DEF Begin, CallInv
    <2> QED BY <2>1, <2>2, <2>3, <2>4 DEF CallInv
  <1> QED BY <1>1, <1>2, <1>3, <1>4, <1>5 DEF CallerStep, Start

-----------------------------------------------------------------------------
(* Tasks and results.                                                       *)

(* As long as no task is received and no result sent, every task is where   *)
(* it was.                                                                  *)
LEMMA TaskUnchanged ==
  ASSUME TaskInv, UNCHANGED <<task, taken, sent>>,
         \A w \in Pool : Active(w)' <=> Active(w)
  PROVE  TaskInv'
  <1>1. ActiveWorkers' = ActiveWorkers
    BY DEF ActiveWorkers
  <1> QED BY <1>1 DEF TaskInv

(* The caller starts with no task received, and reads results without       *)
(* taking any away (fullsync.go:49-84).                                     *)
LEMMA TaskCall ==
  ASSUME PoolTypeOK, CallInv, TaskInv,
         CallerStep \/ Cancel \/ (\E models \in Seq(Models) : Start(models))
  PROVE  TaskInv'
  <1>1. ASSUME NEW models \in Seq(Models), Begin(models) PROVE TaskInv'
    <2>1. \A w \in Pool : ~Active(w) /\ ~Active(w)'
      BY <1>1 DEF Begin, CallInv, Active
    <2> QED BY <1>1, <2>1, TaskUnchanged DEF Begin
  <1>2. ASSUME UNCHANGED worker, UNCHANGED <<task, taken, sent>> PROVE TaskInv'
    BY <1>2, TaskUnchanged DEF Active
  <1>3. CallerStep \/ Cancel => UNCHANGED worker /\ UNCHANGED <<task, taken, sent>>
    BY DEF CallerStep, CloseResults, Return, Cancel, work_vars
  <1>4. ASSUME NEW models \in Seq(Models), Refuse(models) \/ RefuseInvalid(models) PROVE TaskInv'
    <2>1. UNCHANGED worker /\ UNCHANGED <<task, taken, sent>>
      BY <1>4 DEF Refuse, RefuseInvalid, work_vars
    <2> QED BY <2>1, <1>2
  <1> QED BY <1>1, <1>2, <1>3, <1>4 DEF Start

(* A worker that reports hands its task over to the results.                *)
LEMMA TaskReported ==
  ASSUME PoolTypeOK, TaskInv, NEW w \in ActiveWorkers, NEW err \in {"none", "failed", "cancelled"},
         Send(w, err), taken' = taken,
         ActiveWorkers' = ActiveWorkers \ {w},
         \A v \in ActiveWorkers \ {w} : task'[v] = task[v]
  PROVE  TaskInv'
  <1> DEFINE r == [entry |-> task[w], err |-> err]
             n == Len(sent)
  <1>1. task[w] \in 1..taken
    BY DEF TaskInv
  <1>2. /\ n \in Nat /\ DOMAIN sent = 1..n /\ DOMAIN sent' = 1..(n + 1)
        /\ sent'[n + 1] = r /\ \A i \in 1..n : sent'[i] = sent[i]
    BY DEF Send, PoolTypeOK
  <1>3. \A v \in ActiveWorkers' : task'[v] \in 1..taken'
    BY DEF TaskInv
  <1>4. \A u, v \in ActiveWorkers' : task'[u] = task'[v] => u = v
    BY DEF TaskInv
  <1>5. ASSUME NEW i \in DOMAIN sent'
        PROVE  /\ sent'[i].entry \in 1..taken'
               /\ \A v \in ActiveWorkers' : task'[v] # sent'[i].entry
    <2>1. CASE i = n + 1
      BY <1>1, <1>2, <2>1 DEF TaskInv
    <2>2. CASE i # n + 1
      <3>1. i \in DOMAIN sent /\ sent'[i] = sent[i]
        BY <1>2, <2>2
      <3> QED BY <3>1 DEF TaskInv
    <2> QED BY <2>1, <2>2
  <1>6. ASSUME NEW i \in DOMAIN sent', NEW j \in DOMAIN sent', sent'[i].entry = sent'[j].entry
        PROVE  i = j
    <2>1. \A k \in 1..n : sent[k].entry # task[w]
      BY <1>2 DEF TaskInv
    <2>2. CASE i = n + 1 \/ j = n + 1
      BY <1>2, <1>6, <2>1, <2>2
    <2>3. CASE i # n + 1 /\ j # n + 1
      <3>1. i \in DOMAIN sent /\ j \in DOMAIN sent /\ sent[i].entry = sent[j].entry
        BY <1>2, <1>6, <2>3
      <3> QED BY <3>1 DEF TaskInv
    <2> QED BY <2>2, <2>3
  <1>7. ASSUME NEW k \in 1..taken'
        PROVE  \/ \E v \in ActiveWorkers' : task'[v] = k
               \/ \E i \in DOMAIN sent' : sent'[i].entry = k
    <2>1. CASE k = task[w]
      <3>1. n + 1 \in DOMAIN sent' /\ sent'[n + 1].entry = k
        BY <1>2, <2>1
      <3> QED BY <3>1
    <2>2. CASE k # task[w] /\ \E v \in ActiveWorkers : task[v] = k
      BY <2>2
    <2>3. CASE \E i \in DOMAIN sent : sent[i].entry = k
      BY <1>2, <2>3
    <2> QED BY <2>1, <2>2, <2>3 DEF TaskInv
  <1> QED BY <1>3, <1>4, <1>5, <1>6, <1>7 DEF TaskInv

(* A worker receives the next task, or sends the result of its own          *)
(* (fullsync.go:56-68).                                                     *)
LEMMA TaskWorker ==
  ASSUME PoolTypeOK, CallInv, TaskInv, NEW w \in Pool, WorkerStep(w)
  PROVE  TaskInv'
  <1>1. /\ worker \in [Pool -> {"off", "receive", "check", "rebuild", "clean", "report", "done"}]
        /\ task \in [Pool -> 0..taken] /\ taken \in Nat
    BY DEF PoolTypeOK
  <1>2. CASE Receive(w)
    <2>1. /\ ~Active(w) /\ taken' = taken + 1 /\ UNCHANGED sent
          /\ task'[w] = taken + 1 /\ \A v \in Pool : v # w => task'[v] = task[v]
          /\ Active(w)' /\ \A v \in Pool : v # w => Active(v)' = Active(v)
      BY <1>1, <1>2 DEF Receive, WorkerGoto, Active
    <2>2. ActiveWorkers' = ActiveWorkers \cup {w} /\ w \notin ActiveWorkers
      BY <2>1 DEF ActiveWorkers
    <2>3. \A v \in ActiveWorkers : task'[v] = task[v] /\ task[v] \in 1..taken
      BY <2>1 DEF ActiveWorkers, TaskInv
    <2>4. \A v \in ActiveWorkers' : task'[v] \in 1..taken'
      BY <1>1, <2>1, <2>2, <2>3
    <2>5. \A u, v \in ActiveWorkers' : task'[u] = task'[v] => u = v
      BY <1>1, <2>1, <2>2, <2>3 DEF TaskInv
    <2>6. \A i \in DOMAIN sent' : /\ sent'[i].entry \in 1..taken'
                                  /\ \A v \in ActiveWorkers' : task'[v] # sent'[i].entry
      BY <1>1, <2>1, <2>2, <2>3 DEF TaskInv
    <2>7. ASSUME NEW k \in 1..taken'
          PROVE  \/ \E v \in ActiveWorkers' : task'[v] = k
                 \/ \E i \in DOMAIN sent' : sent'[i].entry = k
      <3>1. CASE k = taken + 1
        BY <2>1, <2>2, <3>1
      <3>2. CASE k # taken + 1
        <4>1. k \in 1..taken
          BY <1>1, <2>1, <3>2
        <4> QED BY <2>1, <2>2, <2>3, <4>1 DEF TaskInv
      <3> QED BY <3>1, <3>2
    <2> QED BY <2>1, <2>4, <2>5, <2>6, <2>7 DEF TaskInv
  <1>3. CASE NoMoreTasks(w)
    BY <1>1, <1>3, TaskUnchanged DEF NoMoreTasks, WorkerGoto, Active, call_vars
  <1>4. CASE GiveUp(w)
    <2>1. /\ w \in ActiveWorkers /\ ActiveWorkers' = ActiveWorkers \ {w}
          /\ Send(w, "cancelled") /\ taken' = taken /\ task' = task
      BY <1>1, <1>4 DEF GiveUp, WorkerGoto, ActiveWorkers, Active
    <2> QED BY <2>1, TaskReported
  <1>5. CASE Report(w)
    <2>1. /\ w \in ActiveWorkers /\ ActiveWorkers' = ActiveWorkers \ {w}
          /\ Send(w, outcome[w]) /\ taken' = taken
          /\ \A v \in ActiveWorkers \ {w} : task'[v] = task[v]
      BY <1>1, <1>5 DEF Report, WorkerGoto, ActiveWorkers, Active
    <2>2. outcome[w] \in {"none", "failed", "cancelled"}
      BY DEF PoolTypeOK
    <2> QED BY <2>1, <2>2, TaskReported
  <1>6. CASE StartRebuild(w) \/ SwitchIndex(w) \/ Succeed(w) \/ Fail(w) \/ FailSilently(w)
    <2>1. UNCHANGED <<task, taken, sent>>
      BY <1>6 DEF StartRebuild, SwitchIndex, Succeed, Fail, FailSilently, call_vars
    <2>2. \A v \in Pool : Active(v)' <=> Active(v)
      BY <1>1, <1>6 DEF StartRebuild, SwitchIndex, Succeed, Fail, FailSilently, WorkerGoto, Active
    <2> QED BY <2>1, <2>2, TaskUnchanged
  <1> QED BY <1>2, <1>3, <1>4, <1>5, <1>6 DEF WorkerStep

-----------------------------------------------------------------------------
(* What readers find.                                                       *)

\* Distinct tasks of distinct entries are distinct models.
LEMMA ModelsOfWorkers ==
  ASSUME PoolTypeOK, CallInv, TaskInv
  PROVE  /\ \A w \in ActiveWorkers : Model(w) \in Models
         /\ \A v, w \in ActiveWorkers : Model(v) = Model(w) => v = w
         /\ \A i \in DOMAIN sent : /\ entries[sent[i].entry] \in Models
                                   /\ \A w \in ActiveWorkers : Model(w) # entries[sent[i].entry]
         /\ \A i, j \in DOMAIN sent :
              entries[sent[i].entry] = entries[sent[j].entry] => i = j
  <1>1. DOMAIN entries = 1..Len(entries) /\ \A k \in DOMAIN entries : entries[k] \in Models
    BY DEF PoolTypeOK
  <1>2. taken \in 0..Len(entries)
    BY DEF PoolTypeOK
  <1>3. \A w \in ActiveWorkers : task[w] \in DOMAIN entries
    BY <1>1, <1>2 DEF TaskInv
  <1>4. \A i \in DOMAIN sent : sent[i].entry \in DOMAIN entries
    BY <1>1, <1>2 DEF TaskInv
  <1>5. \A k, l \in DOMAIN entries : entries[k] = entries[l] => k = l
    BY DEF CallInv
  <1> QED BY <1>1, <1>3, <1>4, <1>5 DEF TaskInv, Model

(* Who neither copies nor writes leaves the copies what they were.          *)
LEMMA CopyUnchanged ==
  ASSUME CopyInv, UNCHANGED <<base, rows, docs, worker, copied, outcome, task, entries, sent>>
  PROVE  CopyInv'
  BY DEF CopyInv, CopiedEnough, VisibleEnough, ResultsCovered, Model

(* A new row makes no copy smaller (fullsync.go:188-202).                   *)
LEMMA CopyInsert ==
  ASSUME PoolTypeOK, CallInv, TaskInv, CopyInv, NEW m \in Models, Insert(m),
         UNCHANGED <<base, worker, copied, outcome, task, entries, sent>>
  PROVE  CopyInv'
  <1>1. /\ \A x \in Models : rows[x] \in Nat /\ rows'[x] \in Nat /\ rows[x] <= rows'[x]
        /\ \A x \in Models : base[x] \in Nat
        /\ docs' = docs
    BY DEF Insert, PoolTypeOK, ContentTypeOK
  <1>2. \A x \in Models : base'[x] <= rows'[x]
    BY <1>1 DEF CopyInv
  <1>3. ASSUME NEW w \in Pool PROVE CopiedEnough(w)' /\ VisibleEnough(w)'
    <2>1. VisibleEnough(w)'
      BY <1>1 DEF CopyInv, VisibleEnough, Model
    <2>2. copied[w] \in Nat
      BY DEF PoolTypeOK
    <2>3. worker[w] = "rebuild" => Model(w) \in Models
      BY ModelsOfWorkers DEF ActiveWorkers, Active
    <2>4. CopiedEnough(w)'
      BY <1>1, <2>2, <2>3 DEF CopyInv, CopiedEnough, Model
    <2> QED BY <2>1, <2>4
  <1>4. ResultsCovered'
    BY <1>1 DEF CopyInv, ResultsCovered
  <1> QED BY <1>2, <1>3, <1>4 DEF CopyInv

(* A call begins with the rows there are, and nothing copied                *)
(* (fullsync.go:49-59).                                                     *)
LEMMA CopyCall ==
  ASSUME PoolTypeOK, CallInv, CopyInv,
         CallerStep \/ Cancel \/ (\E models \in Seq(Models) : Start(models))
  PROVE  CopyInv'
  <1>1. ASSUME NEW models \in Seq(Models), Begin(models) PROVE CopyInv'
    <2>1. /\ base' = rows /\ rows' = rows /\ sent = <<>> /\ sent' = sent
          /\ \A w \in Pool : worker'[w] \in {"off", "receive"}
      BY <1>1 DEF Begin, CallInv, content
    <2>2. \A x \in Models : rows[x] <= rows[x]
      BY DEF PoolTypeOK, ContentTypeOK
    <2>3. \A w \in Pool : CopiedEnough(w)' /\ VisibleEnough(w)'
      BY <2>1 DEF CopiedEnough, VisibleEnough
    <2>4. ResultsCovered'
      BY <2>1 DEF ResultsCovered
    <2> QED BY <2>1, <2>2, <2>3, <2>4 DEF CopyInv
  <1>2. ASSUME NEW models \in Seq(Models), Refuse(models) \/ RefuseInvalid(models) PROVE CopyInv'
    <2>1. UNCHANGED <<base, rows, docs, worker, copied, outcome, task, entries, sent>>
      BY <1>2 DEF Refuse, RefuseInvalid, work_vars, content
    <2> QED BY <2>1, CopyUnchanged
  <1>3. CASE CallerStep \/ Cancel
    <2>1. UNCHANGED <<base, rows, docs, worker, copied, outcome, task, entries, sent>>
      BY <1>3 DEF CallerStep, CloseResults, Return, Cancel, work_vars, content
    <2> QED BY <2>1, CopyUnchanged
  <1> QED BY <1>1, <1>2, <1>3 DEF Start

\* What w does leaves the others' copies alone.
LEMMA CopyOthers ==
  ASSUME PoolTypeOK, CopyInv, NEW w \in Pool, NEW v \in Pool, v # w,
         UNCHANGED <<base, rows, entries>>,
         worker'[v] = worker[v], task'[v] = task[v],
         copied'[v] = copied[v], outcome'[v] = outcome[v],
         v \in ActiveWorkers => docs'[Model(v)] = docs[Model(v)]
  PROVE  CopiedEnough(v)' /\ VisibleEnough(v)'
  BY DEF CopyInv, CopiedEnough, VisibleEnough, Model, ActiveWorkers, Active

\* A new result does not change what the old ones mean.
LEMMA CopyResult ==
  ASSUME PoolTypeOK, CopyInv, NEW w \in Pool, NEW err, Send(w, err),
         UNCHANGED <<base, docs, entries>>,
         err = "none" => docs[Model(w)] >= base[Model(w)]
  PROVE  ResultsCovered'
  <1>1. /\ Len(sent) \in Nat /\ DOMAIN sent = 1..Len(sent) /\ DOMAIN sent' = 1..(Len(sent) + 1)
        /\ sent'[Len(sent) + 1] = [entry |-> task[w], err |-> err]
        /\ \A i \in DOMAIN sent : sent'[i] = sent[i]
    BY DEF Send, PoolTypeOK
  <1>2. ASSUME NEW i \in DOMAIN sent', sent'[i].err = "none"
        PROVE  docs'[entries'[sent'[i].entry]] >= base'[entries'[sent'[i].entry]]
    <2>1. CASE i = Len(sent) + 1
      BY <1>1, <1>2, <2>1 DEF Model
    <2>2. CASE i # Len(sent) + 1
      <3>1. i \in DOMAIN sent /\ sent'[i] = sent[i]
        BY <1>1, <2>2
      <3> QED BY <1>2, <3>1 DEF CopyInv, ResultsCovered
    <2> QED BY <2>1, <2>2
  <1> QED BY <1>2 DEF ResultsCovered

(* A rebuild reads at least what was there, shows what it read, and reports *)
(* success only then (fullsync.go:188-215).                                 *)
LEMMA CopyWorker ==
  ASSUME PoolTypeOK, CallInv, TaskInv, CopyInv, NEW w \in Pool, WorkerStep(w)
  PROVE  CopyInv'
  <1>1. /\ worker \in [Pool -> {"off", "receive", "check", "rebuild", "clean", "report", "done"}]
        /\ task \in [Pool -> 0..taken] /\ outcome \in [Pool -> {"none", "failed"}]
        /\ copied \in [Pool -> Nat]
        /\ \A x \in Models : rows[x] \in Nat /\ docs[x] \in Nat /\ base[x] \in Nat /\ docs[x] <= rows[x]
    BY DEF PoolTypeOK, ContentTypeOK
  <1>2. UNCHANGED <<base, rows, entries>> /\ \A x \in Models : base[x] <= rows[x]
    BY WorkerFacts
       DEF CopyInv, WorkerStep, Receive, NoMoreTasks, GiveUp, StartRebuild, SwitchIndex, Succeed, Fail,
           FailSilently, Report, call_vars, content
  <1>3. \A v \in Pool : v # w => /\ worker'[v] = worker[v] /\ task'[v] = task[v]
                               /\ copied'[v] = copied[v] /\ outcome'[v] = outcome[v]
    BY <1>1 DEF WorkerStep, WorkerGoto, Receive, NoMoreTasks, GiveUp, StartRebuild, SwitchIndex, Succeed,
                Fail, FailSilently, Report
  <1>4. w \in ActiveWorkers => Model(w) \in Models
    BY ModelsOfWorkers
  <1>5. CASE SwitchIndex(w)
    <2>1. w \in ActiveWorkers /\ Model(w) \in Models /\ Model(w)' = Model(w)
      BY <1>2, <1>4, <1>5 DEF SwitchIndex, ActiveWorkers, Active, Model
    <2>2. PICK n \in copied[w]..rows[Model(w)] : docs' = [docs EXCEPT ![Model(w)] = n]
      BY <1>5 DEF SwitchIndex
    <2>3. docs'[Model(w)] = n /\ base[Model(w)] <= n
      BY <1>1, <1>5, <2>1, <2>2 DEF SwitchIndex, CopyInv, CopiedEnough, PoolTypeOK, ContentTypeOK
    <2>4. worker'[w] = "clean"
      BY <1>1, <1>5 DEF SwitchIndex, WorkerGoto
    <2>5. CopiedEnough(w)' /\ VisibleEnough(w)'
      BY <1>2, <2>1, <2>3, <2>4 DEF CopiedEnough, VisibleEnough
    <2>6. ASSUME NEW v \in Pool, v # w PROVE CopiedEnough(v)' /\ VisibleEnough(v)'
      <3>1. v \in ActiveWorkers => docs'[Model(v)] = docs[Model(v)]
        BY <2>1, <2>2, <2>6, ModelsOfWorkers DEF PoolTypeOK, ContentTypeOK
      <3> QED BY <1>2, <1>3, <2>6, <3>1, CopyOthers
    <2>7. ResultsCovered'
      <3>1. sent' = sent
        BY <1>5 DEF SwitchIndex, call_vars
      <3>2. \A i \in DOMAIN sent : docs'[entries[sent[i].entry]] = docs[entries[sent[i].entry]]
        BY <2>1, <2>2, ModelsOfWorkers DEF PoolTypeOK, ContentTypeOK
      <3> QED BY <1>2, <3>1, <3>2 DEF CopyInv, ResultsCovered
    <2> QED BY <1>2, <2>5, <2>6, <2>7 DEF CopyInv
  <1>6. CASE ~SwitchIndex(w)
    <2>1. UNCHANGED docs
      BY <1>6 DEF WorkerStep, Receive, NoMoreTasks, GiveUp, StartRebuild, Succeed, Fail, FailSilently,
                  Report, content
    <2>2. \A v \in Pool : v # w => CopiedEnough(v)' /\ VisibleEnough(v)'
      BY <1>2, <1>3, <2>1, CopyOthers
    <2>3. CopiedEnough(w)' /\ VisibleEnough(w)'
      <3>1. CASE StartRebuild(w)
        <4>1. /\ w \in ActiveWorkers /\ Model(w) \in Models /\ Model(w)' = Model(w)
              /\ copied'[w] = rows[Model(w)] /\ worker'[w] = "rebuild"
          BY <1>1, <1>2, <1>4, <3>1 DEF StartRebuild, WorkerGoto, ActiveWorkers, Active, Model
        <4>2. base[Model(w)] <= rows[Model(w)] /\ docs[Model(w)] <= rows[Model(w)] /\ rows[Model(w)] \in Nat
          BY <1>1, <1>2, <4>1
        <4> QED BY <1>2, <2>1, <4>1, <4>2 DEF CopiedEnough, VisibleEnough
      <3>2. CASE Succeed(w)
        <4>1. worker[w] = "clean" /\ worker'[w] = "report" /\ task' = task
          BY <1>1, <3>2 DEF Succeed, WorkerGoto
        <4> QED BY <1>2, <2>1, <4>1 DEF CopyInv, CopiedEnough, VisibleEnough, Model
      <3>3. CASE Fail(w) \/ FailSilently(w)
        <4>1. worker'[w] = "report" /\ outcome'[w] = "failed"
          BY <1>1, <3>3 DEF Fail, FailSilently, WorkerGoto
        <4> QED BY <4>1 DEF CopiedEnough, VisibleEnough
      <3>4. CASE Receive(w) \/ NoMoreTasks(w) \/ GiveUp(w) \/ Report(w)
        <4>1. worker'[w] \in {"receive", "check", "done"}
          BY <1>1, <3>4 DEF Receive, NoMoreTasks, GiveUp, Report, WorkerGoto
        <4> QED BY <4>1 DEF CopiedEnough, VisibleEnough
      <3> QED BY <1>6, <3>1, <3>2, <3>3, <3>4 DEF WorkerStep
    <2>4. ResultsCovered'
      <3>1. CASE GiveUp(w)
        BY <1>2, <2>1, <3>1, CopyResult DEF GiveUp
      <3>2. CASE Report(w)
        <4>1. outcome[w] = "none" => docs[Model(w)] >= base[Model(w)]
          <5>1. worker[w] = "report" /\ w \in ActiveWorkers
            BY <3>2 DEF Report, ActiveWorkers, Active
          <5> QED BY <1>1, <1>4, <5>1 DEF CopyInv, VisibleEnough
        <4> QED BY <1>2, <2>1, <3>2, <4>1, CopyResult DEF Report
      <3>3. CASE ~GiveUp(w) /\ ~Report(w)
        <4>1. UNCHANGED sent
          BY <3>3 DEF WorkerStep, Receive, NoMoreTasks, StartRebuild, SwitchIndex, Succeed, Fail,
                      FailSilently, call_vars
        <4> QED BY <1>2, <2>1, <4>1 DEF CopyInv, ResultsCovered
      <3> QED BY <3>1, <3>2, <3>3
    <2> QED BY <1>2, <2>2, <2>3, <2>4 DEF CopyInv
  <1> QED BY <1>5, <1>6

-----------------------------------------------------------------------------
(* Counters and samples.                                                    *)

(* Who neither records nor counts leaves the numbers what they were.        *)
LEMMA CountUnchanged ==
  ASSUME CountInv, UNCHANGED <<counting, errors, count, monitor, seen, snapshot>>
  PROVE  CountInv'
  BY DEF CountInv, CountedIsRetained, Size

(* A failure is recorded before it is counted, and read in the other order  *)
(* (failures.go:112-116, syncer.go:273-274).                                *)
LEMMA CountOthers ==
  ASSUME PoolTypeOK, RecorderInv, CountInv,
         (\E p \in Recorders : RecorderStep(p)) \/ OtherStep
  PROVE  CountInv'
  <1>1. /\ Size \in Nat \ {0} /\ count \in 0..Size /\ (hasLast <=> count > 0)
        /\ errors \in Nat /\ seen \in Nat
    BY SizeIsPositive DEF PoolTypeOK, RecorderInv, RecorderTypeOK
  <1>2. IsFiniteSet(counting) /\ Cardinality(counting) \in Nat
    BY PoolFacts, FS_Subset, FS_CardinalityType DEF PoolTypeOK
  <1>3. ASSUME NEW p \in Recorders, RecordFailure(p) PROVE CountInv'
    <2>1. /\ count' = (IF count < Size THEN count + 1 ELSE Size)
          /\ UNCHANGED <<errors, monitor, seen, snapshot>>
      BY <1>1, <1>3 DEF RecordFailure, Record, monitor_vars
    <2>2. Cardinality(counting') \in Nat /\ Cardinality(counting') <= Cardinality(counting) + 1
      BY <1>2, <1>3, FS_AddElement DEF RecordFailure
    <2>3. errors' + Cardinality(counting') <= count' \/ count' = Size
      BY <1>1, <1>2, <2>1, <2>2 DEF CountInv
    <2>4. monitor' = "summary" => seen' <= count' \/ count' = Size
      BY <1>1, <2>1 DEF CountInv
    <2>5. CountedIsRetained'
      BY <2>1 DEF CountInv, CountedIsRetained, Size
    <2> QED BY <2>3, <2>4, <2>5 DEF CountInv, Size
  <1>4. ASSUME NEW p \in Recorders, CountFailure(p) PROVE CountInv'
    <2>1. errors' = errors + 1 /\ UNCHANGED <<count, monitor, seen, snapshot>>
      BY <1>4 DEF CountFailure, recorder, monitor_vars
    <2>2. Cardinality(counting') = Cardinality(counting) - 1
      BY <1>2, <1>4, FS_RemoveElement DEF CountFailure
    <2>3. errors' + Cardinality(counting') <= count' \/ count' = Size
      BY <1>1, <1>2, <2>1, <2>2 DEF CountInv
    <2>4. CountedIsRetained'
      BY <2>1 DEF CountInv, CountedIsRetained, Size
    <2> QED BY <2>1, <2>3, <2>4 DEF CountInv, Size
  <1>5. ASSUME NEW e \in Others, FailElsewhere(e) PROVE CountInv'
    BY <1>5, CountUnchanged DEF FailElsewhere, recorder, monitor_vars
  <1>6. CASE ReadCounters
    <2>1. seen' = errors /\ UNCHANGED <<counting, errors, count, snapshot>>
      BY <1>6 DEF ReadCounters, failure_vars, recorder
    <2>2. seen' <= count' \/ count' = Size
      BY <1>1, <1>2, <2>1 DEF CountInv
    <2> QED BY <2>1, <2>2 DEF CountInv, CountedIsRetained, Size
  <1>7. CASE ReadSummary
    <2>1. /\ monitor' = "done" /\ UNCHANGED <<counting, errors, count>>
          /\ snapshot' = [errors |-> seen, retained |-> count, last |-> hasLast]
          /\ seen <= count \/ count = Size
      BY <1>7 DEF ReadSummary, failure_vars, recorder, CountInv
    <2>2. CountedIsRetained'
      BY <1>1, <2>1 DEF CountedIsRetained, Size
    <2> QED BY <2>1, <2>2 DEF CountInv, Size
  <1> QED BY <1>3, <1>4, <1>5, <1>6, <1>7 DEF RecorderStep, OtherStep

-----------------------------------------------------------------------------
(* Together.                                                                *)

(* Whatever a step does, the recorder gets one failure or none.             *)
LEMMA RecorderOfTheStep ==
  ASSUME PoolTypeOK, [PoolNext]_pool_vars
  PROVE  [\E e \in Events : Record(e)]_recorder
  <1>1. ASSUME NEW p \in Recorders, RecordFailure(p) PROVE \E e \in Events : Record(e)
    BY <1>1 DEF RecordFailure, PoolTypeOK
  <1>2. ASSUME NEW p \in Recorders, CountFailure(p) PROVE UNCHANGED recorder
    BY <1>2 DEF CountFailure
  <1>3. CASE \E w \in Pool : WorkerStep(w)
    BY <1>3 DEF WorkerStep, Receive, NoMoreTasks, GiveUp, StartRebuild, SwitchIndex, Succeed, Fail,
                FailSilently, Report
  <1>4. CASE CallerStep \/ Cancel
    BY <1>4 DEF CallerStep, CloseResults, Return, Cancel
  <1>5. CASE OtherStep
    BY <1>5 DEF OtherStep, FailElsewhere, ReadCounters, ReadSummary
  <1>6. CASE \E models \in Seq(Models) : Start(models)
    BY <1>6 DEF Start, Refuse, RefuseInvalid, Begin
  <1>7. UNCHANGED pool_vars => UNCHANGED recorder
    BY DEF pool_vars
  <1> QED BY <1>1, <1>2, <1>3, <1>4, <1>5, <1>6, <1>7 DEF PoolNext, PoolStep, RecorderStep

\* What the recorder and its readers do is no step of the call.
LEMMA ApartFromTheCall ==
  ASSUME (\E p \in Recorders : RecorderStep(p)) \/ OtherStep
  PROVE  UNCHANGED <<call_vars, work_vars, content>>
  BY DEF RecorderStep, RecordFailure, CountFailure, OtherStep, FailElsewhere, ReadCounters, ReadSummary

\* A step of the call or of a worker neither records nor counts.
LEMMA ApartFromTheRecorder ==
  ASSUME \/ \E w \in Pool : WorkerStep(w)
         \/ CallerStep \/ Cancel \/ (\E models \in Seq(Models) : Start(models))
  PROVE  UNCHANGED <<counting, errors, count, monitor, seen, snapshot>>
  <1> USE DEF failure_vars, monitor_vars, recorder
  <1>1. CASE \E w \in Pool : WorkerStep(w)
    BY <1>1 DEF WorkerStep, Receive, NoMoreTasks, GiveUp, StartRebuild, SwitchIndex, Succeed, Fail,
                FailSilently, Report
  <1>2. CASE CallerStep \/ Cancel
    BY <1>2 DEF CallerStep, CloseResults, Return, Cancel
  <1>3. CASE \E models \in Seq(Models) : Start(models)
    BY <1>3 DEF Start, Refuse, RefuseInvalid, Begin
  <1> QED BY <1>1, <1>2, <1>3

(* The invariant holds before the call.                                     *)
LEMMA PoolInitInv == PoolInit => PoolInv
  <1> SUFFICES ASSUME PoolInit PROVE PoolInv
    OBVIOUS
  <1>1. PoolTypeOK /\ RecorderInv
    BY TypeInit, InitRecorder DEF PoolInit
  <1>2. CallInv
    BY PoolFacts DEF PoolInit, CallInv
  <1>3. TaskInv
    BY DEF PoolInit, TaskInv, ActiveWorkers, Active
  <1>4. CopyInv
    BY <1>1 DEF PoolInit, CopyInv, CopiedEnough, VisibleEnough, ResultsCovered, PoolTypeOK, ContentTypeOK
  <1>5. CountInv
    <2>1. errors = 0 /\ count = 0 /\ Cardinality(counting) = 0 /\ monitor = "idle"
      BY FS_EmptySet DEF PoolInit, RecorderInit
    <2>2. CountedIsRetained
      BY SizeIsPositive DEF PoolInit, CountedIsRetained
    <2> QED BY <2>1, <2>2 DEF CountInv
  <1> QED BY <1>1, <1>2, <1>3, <1>4, <1>5 DEF PoolInv

(* Every step of callers, workers, recorders, monitors and the application  *)
(* keeps it.                                                                *)
LEMMA PoolStepInv ==
  ASSUME PoolInv, [PoolNext]_pool_vars
  PROVE  PoolInv'
  <1> USE DEF PoolInv
  <1>1. RecorderInv'
    BY RecorderOfTheStep, RecordKeepsInv, StutterKeepsInv
  <1>2. CASE \E w \in Pool : WorkerStep(w)
    <2>1. PICK w \in Pool : WorkerStep(w)
      BY <1>2
    <2>2. PoolTypeOK' /\ CallInv' /\ TaskInv' /\ CopyInv'
      BY <2>1, TypeWorker, CallWorker, TaskWorker, CopyWorker
    <2>3. CountInv'
      BY <1>2, ApartFromTheRecorder, CountUnchanged
    <2> QED BY <1>1, <2>2, <2>3
  <1>3. CASE CallerStep \/ Cancel \/ (\E models \in Seq(Models) : Start(models))
    <2>1. PoolTypeOK' /\ CallInv' /\ TaskInv' /\ CopyInv'
      BY <1>3, TypeCall, CallCall, TaskCall, CopyCall
    <2>2. CountInv'
      BY <1>3, ApartFromTheRecorder, CountUnchanged
    <2> QED BY <1>1, <2>1, <2>2
  <1>4. CASE (\E p \in Recorders : RecorderStep(p)) \/ OtherStep
    <2>1. UNCHANGED <<call_vars, work_vars, content>>
      BY <1>4, ApartFromTheCall
    <2>2. PoolTypeOK' /\ CountInv'
      BY <1>4, TypeOthers, CountOthers
    <2>3. CallInv' /\ TaskInv'
      BY <2>1, CallUnchanged, TaskUnchanged DEF call_vars, work_vars, Active
    <2>4. CopyInv'
      BY <2>1, CopyUnchanged DEF call_vars, work_vars, content
    <2> QED BY <1>1, <2>2, <2>3, <2>4
  <1>5. ASSUME NEW m \in Models, Insert(m),
               UNCHANGED <<call_vars, work_vars, failure_vars, monitor_vars, recorder>>
        PROVE  PoolInv'
    <2>1. PoolTypeOK'
      BY <1>5, TypeOthers
    <2>2. CallInv' /\ TaskInv'
      BY <1>5, CallUnchanged, TaskUnchanged DEF call_vars, work_vars, Active
    <2>3. CopyInv'
      BY <1>5, CopyInsert DEF call_vars, work_vars
    <2>4. CountInv'
      BY <1>5, CountUnchanged DEF failure_vars, monitor_vars, recorder
    <2> QED BY <1>1, <2>1, <2>2, <2>3, <2>4
  <1>6. CASE UNCHANGED pool_vars
    <2>1. PoolTypeOK'
      BY <1>6, TypeUnchanged
    <2>2. CallInv' /\ TaskInv'
      BY <1>6, CallUnchanged, TaskUnchanged DEF pool_vars, call_vars, work_vars, Active
    <2>3. CopyInv'
      BY <1>6, CopyUnchanged DEF pool_vars, call_vars, work_vars, content
    <2>4. CountInv'
      BY <1>6, CountUnchanged DEF pool_vars, failure_vars, monitor_vars, recorder
    <2> QED BY <1>1, <2>1, <2>2, <2>3, <2>4
  <1> QED BY <1>2, <1>3, <1>4, <1>5, <1>6 DEF PoolNext, PoolStep

(* The inductive invariant of a call: types, where its workers are, where   *)
(* every task is, what has been copied, what has been counted.              *)
THEOREM PoolInvariant == PoolSpec => []PoolInv
  <1>1. PoolInv /\ [PoolNext]_pool_vars => PoolInv'
    BY PoolStepInv
  <1> QED BY PoolInitInv, <1>1, PTL DEF PoolSpec

(* Workers with distinct tasks have distinct models, and so have results    *)
(* (fullsync.go:60-68).                                                     *)
LEMMA InvMeansOneRebuild == PoolInv => OneRebuildPerModel
  <1> SUFFICES ASSUME PoolInv PROVE OneRebuildPerModel
    OBVIOUS
  <1>1. \A v, w \in Pool : {worker[v], worker[w]} \subseteq {"check", "rebuild", "clean", "report"}
                           => v \in ActiveWorkers /\ w \in ActiveWorkers
    BY DEF ActiveWorkers, Active
  <1> QED BY <1>1, ModelsOfWorkers DEF OneRebuildPerModel, PoolInv

(* Two rebuilds of one model never run in one call, and no model is         *)
(* answered twice, for any list of models and any number of workers         *)
(* (model.go:158, fullsync.go:49-70).                                       *)
THEOREM NoModelTwice == PoolSpec => []OneRebuildPerModel
  BY PoolInvariant, InvMeansOneRebuild, PTL

(* When all workers have ended every task has its result                    *)
(* (fullsync.go:60-71).                                                     *)
LEMMA InvMeansAnswered == PoolInv => Answered
  <1> SUFFICES ASSUME PoolInv, call = "returned",
                      NEW k \in 1..(IF cancelled THEN taken ELSE Len(entries))
               PROVE  \E i \in DOMAIN sent : sent[i].entry = k
    BY DEF Answered
  <1>1. \A w \in Pool : worker[w] \in {"off", "done"}
    BY DEF PoolInv, CallInv
  <1>2. ActiveWorkers = {}
    BY <1>1 DEF ActiveWorkers, Active
  <1>3. worker[1] = "done"
    BY <1>1, PoolFacts DEF PoolInv, CallInv
  <1>4. ~cancelled => taken = Len(entries)
    BY <1>3, PoolFacts DEF PoolInv, CallInv
  <1>5. k \in 1..taken
    BY <1>4
  <1> QED BY <1>2, <1>5 DEF PoolInv, TaskInv

(* Every model a worker has taken has its result when the call returns, and *)
(* every model without a cancelled context (fullsync.go:49-84, 89-112).     *)
THEOREM EveryTaskAnswered == PoolSpec => []Answered
  BY PoolInvariant, InvMeansAnswered, PTL

(* What an index has been given is found or lost (fullsync.go:229-237).     *)
LEMMA FoundOrLost ==
  ASSUME ContentTypeOK, NEW m \in Models
  PROVE  /\ Found(m) \in Nat /\ lost[m] \in Nat /\ Found(m) <= docs[m]
         /\ Found(m) + lost[m] = docs[m]
  BY DEF ContentTypeOK, Found

(* An index that has been given the rows shows them, but for the lost ones. *)
LEMMA InvMeansRebuilt == PoolInv => SuccessMeansRebuilt
  <1> SUFFICES ASSUME PoolInv, NEW i \in DOMAIN sent, sent[i].err = "none"
               PROVE  LET m == entries[sent[i].entry] IN Found(m) + lost[m] >= base[m]
    BY DEF SuccessMeansRebuilt
  <1>1. entries[sent[i].entry] \in Models
    BY ModelsOfWorkers DEF PoolInv
  <1>2. docs[entries[sent[i].entry]] >= base[entries[sent[i].entry]]
    BY DEF PoolInv, CopyInv, ResultsCovered
  <1> QED BY <1>1, <1>2, FoundOrLost DEF PoolInv, PoolTypeOK

(* A result without an error is true whenever it is read: readers find the  *)
(* rows there were when the call began, but for those whose documents the   *)
(* bulk indexer failed to index (README.md:492, fullsync.go:229-237).       *)
THEOREM SuccessIsVisible == PoolSpec => []SuccessMeansRebuilt
  BY InvMeansRebuilt, PoolInvariant, PTL

(* A monitor never sees more failures than samples, the ring's size at most *)
(* (failures.go:112-116, syncer.go:273-274).                                *)
THEOREM SamplesComeFirst == PoolSpec => []CountedIsRetained
  <1>1. PoolInv => CountedIsRetained
    BY DEF PoolInv, CountInv
  <1> QED BY <1>1, PoolInvariant, PTL

(* Also with full sync, relay and callbacks recording at once the ring is a *)
(* log of the last failures (failures.go:50-65).                            *)
THEOREM PoolKeepsTheLog == PoolSpec => ImplementsLog
  <1>1. PoolInv /\ [PoolNext]_pool_vars => [Log!Next]_(Recent(0))
    BY RecorderOfTheStep, StepOfTheLog DEF PoolInv
  <1>2. PoolInit => Log!Init
    BY InitOfTheLog DEF PoolInit
  <1> QED BY <1>1, <1>2, PoolInvariant, PTL DEF PoolSpec, ImplementsLog, Log!Spec
=============================================================================
