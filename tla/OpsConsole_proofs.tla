-------------------------- MODULE OpsConsole_proofs --------------------------
(***************************************************************************)
(* The operator's commands: they only do what FullSync and the searches    *)
(* allow, and reconcile --repair repairs, for every command line, any      *)
(* models and any number of workers.                                       *)
(***************************************************************************)
EXTENDS OpsConsole, FullSyncPool_proofs, SharedSearch_proofs

(* The state of the command itself.                                         *)
CommandTypeOK ==
  /\ command \in Commands
  /\ phase \in {"idle", "rows", "docs", "syncing", "done"}
  /\ listed \in Seq(Models)
  /\ counted \in Nat
  /\ verdicts \in Seq({"match", "mismatch", "error"})
  /\ Len(verdicts) <= Len(listed)
  /\ before \in [Models -> Nat]

(* What the counts have shown, and what the repair was started with         *)
(* (ops.go:188-231, cobra_ops.go:413-440).                                  *)
CommandInv ==
  /\ CommandTypeOK
  /\ \A m \in Models : before[m] <= rows[m]
  /\ phase # "syncing" => call = "idle"
  /\ phase = "idle" => verdicts = <<>>
  /\ phase \in {"rows", "docs"} => command.kind = "reconcile" /\ ~Unknown(command.args)
  /\ phase # "idle" /\ command.kind = "reconcile" /\ ~Unknown(command.args)
       => listed \in EntriesFor(command.args)
  /\ phase = "docs" => Counting /\ counted >= before[Current]
  /\ \A i \in DOMAIN verdicts : verdicts[i] = "match" => docs[listed[i]] >= before[listed[i]]
  /\ command.kind = "reconcile" /\ phase \in {"syncing", "done"} /\ ~Unknown(command.args)
       => Len(verdicts) = Len(listed)
  /\ command.kind = "reconcile" /\ phase = "syncing" =>
       /\ ~Unknown(command.args)
       /\ call \in {"running", "returned"} =>
            /\ \A m \in Models : before[m] <= base[m]
            /\ ToRepair \subseteq Named(entries)
       /\ call \notin {"running", "returned"} =>
            ToRepair = {} \/ ToRepair \cap Unscannable # {}
  /\ command.kind = "reconcile" /\ command.repair /\ phase = "done" /\ ~Unknown(command.args)
       => command.args # <<>> /\ Differ = {}

ConsoleInv == PoolInv /\ SearchInv /\ CommandInv

-----------------------------------------------------------------------------
(* Lists of models.                                                         *)

(* A listing names every member of its set.                                 *)
LEMMA ListingsAreComplete ==
  ASSUME NEW S, IsFiniteSet(S), NEW s \in Listings(S)
  PROVE  Named(s) = S /\ Len(s) = Cardinality(S) /\ DOMAIN s = 1..Cardinality(S)
  <1>1. Cardinality(S) \in Nat
    BY FS_CardinalityType
  <1>2. s \in Injection(1..Cardinality(S), S) /\ DOMAIN s = 1..Cardinality(S)
    BY DEF Listings, Injection, IsInjective
  <1>3. Cardinality(1..Cardinality(S)) = Cardinality(S)
    BY <1>1, FS_Interval
  <1>4. s \in Surjection(1..Cardinality(S), S)
    BY <1>2, <1>3, FS_Injection
  <1>5. Named(s) = S
    BY <1>2, <1>4 DEF Named, Surjection
  <1> QED BY <1>1, <1>2, <1>5, ListingsAreDistinct

(* The models that a list names are finitely many, no more than the list    *)
(* has places (model.go:146-165).                                           *)
LEMMA NamedModels ==
  ASSUME NEW models \in Seq(Models)
  PROVE  /\ Named(models) \subseteq Models /\ IsFiniteSet(Named(models))
         /\ Cardinality(Named(models)) \in Nat /\ Cardinality(Named(models)) <= Len(models)
         /\ Distinct(models) => Cardinality(Named(models)) = Len(models)
  <1>1. DOMAIN models = 1..Len(models) /\ Len(models) \in Nat
    OBVIOUS
  <1>2. IsFiniteSet(1..Len(models)) /\ Cardinality(1..Len(models)) = Len(models)
    BY <1>1, FS_Interval
  <1>3. models \in Surjection(1..Len(models), Named(models))
    BY <1>1 DEF Surjection, Named
  <1>4. /\ IsFiniteSet(Named(models)) /\ Cardinality(Named(models)) <= Len(models)
        /\ Cardinality(Named(models)) = Len(models) <=> models \in Injection(1..Len(models), Named(models))
    BY <1>2, <1>3, FS_Surjection
  <1>5. Distinct(models) => models \in Injection(1..Len(models), Named(models))
    BY <1>1, <1>3 DEF Distinct, Injection, IsInjective, Surjection
  <1>6. Named(models) \subseteq Models
    BY DEF Named
  <1> QED BY <1>4, <1>5, <1>6, FS_CardinalityType

(* entriesForModels returns all of what it was asked for, and no more than  *)
(* one entry per argument (model.go:146-165).                               *)
LEMMA EntriesAreComplete ==
  ASSUME NEW models \in Seq(Models), registered \in Registries, NEW s \in EntriesFor(models)
  PROVE  /\ Named(s) = IF models = <<>> THEN registered ELSE Named(models)
         /\ models # <<>> => Len(s) <= Len(models)
  <1>1. CASE models = <<>>
    <2>1. IsFiniteSet(registered) /\ s \in Listings(registered)
      BY <1>1, PoolAssumption DEF EntriesFor
    <2> QED BY <1>1, <2>1, ListingsAreComplete
  <1>2. CASE models # <<>>
    <2>1. s \in Listings(Named(models))
      BY <1>2 DEF EntriesFor
    <2> QED BY <1>2, <2>1, NamedModels, ListingsAreComplete
  <1> QED BY <1>1, <1>2

(* An increasing injection of an interval into itself moves nothing.        *)
LEMMA IncreasingIsIdentity ==
  ASSUME NEW n \in Nat, NEW f \in [1..n -> 1..n],
         \A i, j \in 1..n : i < j => f[i] < f[j],
         NEW k \in 1..n
  PROVE  f[k] = k
  <1>1. \A i, j \in 1..n : f[i] = f[j] => i = j
    <2> SUFFICES ASSUME NEW i \in 1..n, NEW j \in 1..n, f[i] = f[j], i # j PROVE FALSE
      OBVIOUS
    <2>1. f[i] \in 1..n /\ f[j] \in 1..n /\ (i < j \/ j < i)
      OBVIOUS
    <2> QED BY <2>1
  <1>2. f[k] \in 1..n
    OBVIOUS
  <1>3. k <= f[k]
    <2> DEFINE g == [i \in 1..k |-> f[i]]
    <2>1. \A i \in 1..k : i \in 1..n /\ f[i] \in 1..n /\ f[i] <= f[k]
      <3> SUFFICES ASSUME NEW i \in 1..k PROVE i \in 1..n /\ f[i] \in 1..n /\ f[i] <= f[k]
        OBVIOUS
      <3>1. i \in 1..n /\ (i = k \/ i < k)
        OBVIOUS
      <3>2. f[i] \in 1..n
        BY <3>1
      <3> QED BY <1>2, <3>1, <3>2
    <2>2. g \in [1..k -> 1..f[k]]
      BY <1>2, <2>1
    <2>3. g \in Injection(1..k, 1..f[k])
      BY <1>1, <2>1, <2>2 DEF Injection, IsInjective
    <2>4. IsFiniteSet(1..f[k]) /\ Cardinality(1..f[k]) = f[k] /\ Cardinality(1..k) = k
      BY <1>2, FS_Interval
    <2>5. Cardinality(1..k) <= Cardinality(1..f[k])
      BY <2>3, <2>4, FS_Injection
    <2> QED BY <2>4, <2>5
  <1>4. f[k] <= k
    <2> DEFINE h == [i \in k..n |-> f[i]]
    <2>1. \A i \in k..n : i \in 1..n /\ f[i] \in 1..n /\ f[k] <= f[i]
      <3> SUFFICES ASSUME NEW i \in k..n PROVE i \in 1..n /\ f[i] \in 1..n /\ f[k] <= f[i]
        OBVIOUS
      <3>1. i \in 1..n /\ (i = k \/ k < i)
        OBVIOUS
      <3>2. f[i] \in 1..n
        BY <3>1
      <3> QED BY <1>2, <3>1, <3>2
    <2>2. h \in [k..n -> f[k]..n]
      BY <1>2, <2>1
    <2>3. h \in Injection(k..n, f[k]..n)
      BY <1>1, <2>1, <2>2 DEF Injection, IsInjective
    <2>4. IsFiniteSet(f[k]..n) /\ Cardinality(f[k]..n) = n - f[k] + 1 /\ Cardinality(k..n) = n - k + 1
      BY <1>2, FS_Interval
    <2>5. Cardinality(k..n) <= Cardinality(f[k]..n)
      BY <2>3, <2>4, FS_Injection
    <2> QED BY <1>2, <2>4, <2>5
  <1> QED BY <1>2, <1>3, <1>4

(* Results line up with arguments as long as no model is named twice        *)
(* (cobra_ops.go:425).                                                      *)
LEMMA ResultsLineUp ==
  ASSUME NEW models \in Seq(Models), models # <<>>, Distinct(models),
         NEW s \in EntriesFor(models)
  PROVE  Len(s) = Len(models) /\ \A k \in 1..Len(models) : s[k] = models[k]
  <1>1. /\ s \in Listings(Named(models))
        /\ \A i, j \in DOMAIN s : i < j => First(models, s[i]) < First(models, s[j])
    BY DEF EntriesFor
  <1> DEFINE n == Len(models)
  <1>2. /\ n \in Nat /\ DOMAIN models = 1..n /\ DOMAIN s = 1..n /\ Len(s) = n
        /\ Named(s) = Named(models)
    BY <1>1, NamedModels, ListingsAreComplete
  <1>3. ASSUME NEW i \in 1..n
        PROVE  /\ First(models, s[i]) \in 1..n
               /\ models[First(models, s[i])] = s[i]
    <2>1. s[i] \in Named(models)
      BY <1>2 DEF Named
    <2>2. PICK j \in 1..n : models[j] = s[i]
      BY <1>2, <2>1 DEF Named
    <2>3. \A q \in 1..j - 1 : models[q] # s[i]
      BY <1>2, <2>2 DEF Distinct
    <2>4. \E x \in DOMAIN models : models[x] = s[i] /\ \A q \in 1..x - 1 : models[q] # s[i]
      BY <1>2, <2>2, <2>3
    <2> QED BY <1>2, <2>4 DEF First
  <1> DEFINE f == [i \in 1..n |-> First(models, s[i])]
  <1>4. f \in [1..n -> 1..n] /\ \A i, j \in 1..n : i < j => f[i] < f[j]
    BY <1>1, <1>2, <1>3
  <1>5. ASSUME NEW k \in 1..n PROVE s[k] = models[k]
    <2> HIDE DEF f
    <2>1. f[k] = k
      BY <1>2, <1>4, IncreasingIsIdentity
    <2>2. f[k] = First(models, s[k])
      BY DEF f
    <2> QED BY <1>3, <2>1, <2>2
  <1> QED BY <1>2, <1>5

-----------------------------------------------------------------------------
(* What the commands build on.                                              *)

(* A call that begins takes what it was given, and changes no table, index  *)
(* or registry (fullsync.go:26-59).                                         *)
LEMMA StartFacts ==
  ASSUME NEW models \in Seq(Models), Start(models)
  PROVE  /\ UNCHANGED <<registered, rows, docs>>
         /\ call = "idle" /\ call' \in {"running", "refused"}
         /\ call' = "running" => base' = rows /\ entries' \in EntriesFor(models)
         /\ call' = "refused" => \/ Unknown(models) \/ (models = <<>> /\ registered = {})
                                 \/ \E s \in EntriesFor(models) : Named(s) \cap Unscannable # {}
  <1>1. ASSUME RefuseInvalid(models)
        PROVE  \E s \in EntriesFor(models) : Named(s) \cap Unscannable # {}
    <2>1. PICK s \in EntriesFor(models) : \E k \in DOMAIN s : s[k] \in Unscannable
      BY <1>1 DEF RefuseInvalid
    <2>2. PICK k \in DOMAIN s : s[k] \in Unscannable
      BY <2>1
    <2>3. s[k] \in Named(s) \cap Unscannable
      BY <2>2 DEF Named
    <2> QED BY <2>3
  <1> QED BY <1>1 DEF Start, Refuse, RefuseInvalid, Begin, content

(* A step of the call's goroutines, of the recorder or of the application:  *)
(* rows come, indices never show less (fullsync.go:188-202), and nobody but *)
(* a command begins a call or has it refused.                               *)
LEMMA PoolMovesOn ==
  ASSUME PoolInv, PoolStep \/ OtherStep
  PROVE  /\ UNCHANGED <<registered, entries, base>>
         /\ call = "idle" => call' = "idle"
         /\ call' \in {"running", "returned"} <=> call \in {"running", "returned"}
         /\ \A m \in Models : rows[m] <= rows'[m] /\ docs[m] <= docs'[m]
  <1>1. \A m \in Models : rows[m] \in Nat /\ docs[m] \in Nat
    BY DEF PoolInv, PoolTypeOK, ContentTypeOK
  <1>2. ASSUME NEW w \in Pool, WorkerStep(w)
        PROVE  \A m \in Models : rows[m] <= rows'[m] /\ docs[m] <= docs'[m]
    <2>1. CASE SwitchIndex(w)
      <3>1. PICK n \in copied[w]..rows[Model(w)] :
              docs' = [docs EXCEPT ![Model(w)] = n] /\ rows' = rows
        BY <2>1 DEF SwitchIndex
      <3>2. w \in ActiveWorkers /\ Model(w) \in Models /\ docs[Model(w)] <= copied[w] /\ copied[w] \in Nat
        BY <2>1, ModelsOfWorkers
           DEF SwitchIndex, ActiveWorkers, Active, PoolInv, CopyInv, CopiedEnough, PoolTypeOK
      <3>3. docs[Model(w)] <= n /\ docs \in [Models -> Nat]
        BY <1>1, <3>1, <3>2 DEF PoolInv, PoolTypeOK, ContentTypeOK
      <3> QED BY <1>1, <3>1, <3>3
    <2>2. CASE ~SwitchIndex(w)
      <3>1. UNCHANGED content
        BY <1>2, <2>2 DEF WorkerStep, Receive, NoMoreTasks, GiveUp, StartRebuild, Succeed, Fail,
                          FailSilently, Report
      <3> QED BY <1>1, <3>1 DEF content
    <2> QED BY <2>1, <2>2
  <1>3. CASE \E w \in Pool : WorkerStep(w)
    BY <1>2, <1>3, WorkerFacts DEF PoolInv
  <1>4. CASE CallerStep \/ Cancel
    BY <1>1, <1>4 DEF CallerStep, CloseResults, Return, Cancel, content
  <1>5. CASE (\E p \in Recorders : RecorderStep(p)) \/ OtherStep
    BY <1>1, <1>5, ApartFromTheCall DEF call_vars, content
  <1>6. CASE \E m \in Models : /\ Insert(m)
                               /\ UNCHANGED <<call_vars, work_vars, failure_vars, monitor_vars, recorder>>
    BY <1>1, <1>6 DEF Insert, call_vars, PoolInv, PoolTypeOK, ContentTypeOK
  <1> QED BY <1>3, <1>4, <1>5, <1>6 DEF PoolStep

(* Every command begins a call with a list of models, and --repair with     *)
(* those of its arguments that differ (cobra_ops.go:64-97, 413-440).        *)
LEMMA CommandsStart ==
  ASSUME ConsoleInv, CommandStep
  PROVE  \/ UNCHANGED pool_vars
         \/ \E models \in Seq(Models) :
              /\ Start(models)
              /\ Repair => Named(models) = IF command.args = <<>> THEN {} ELSE ToRepair
              /\ Repair /\ command.args = <<>> => models = <<>>
              /\ Repair /\ command.args # <<>> => models # <<>>
  <1>1. /\ command \in Commands /\ command.args \in Seq(Models)
        /\ verdicts \in Seq({"match", "mismatch", "error"}) /\ listed \in Seq(Models)
        /\ Len(verdicts) <= Len(listed) /\ registered \in Registries
    BY CommandAssumption DEF ConsoleInv, CommandInv, CommandTypeOK, PoolInv, PoolTypeOK
  <1>2. CASE FullSyncCommand
    <2>1. ~Repair
      BY <1>2 DEF FullSyncCommand, Repair
    <2> QED BY <1>1, <1>2, <2>1 DEF FullSyncCommand
  <1>3. CASE Repair
    <2>1. CASE command.args = <<>>
      <3>1. <<>> \in Seq(Models) /\ Named(<<>>) = {} /\ Start(<<>>)
        BY <1>3, <2>1 DEF Named, Repair
      <3> QED BY <2>1, <3>1
    <2>2. CASE command.args # <<>>
      <3>1. PICK s \in Listings(Differ) : Start(Mismatched(s))
        BY <1>3, <2>2 DEF Repair
      <3>2. Differ # {} /\ Differ \subseteq 1..Len(verdicts) /\ Len(verdicts) \in Nat
        BY <1>1, <1>3, <2>2 DEF Repair, Differ
      <3>3. IsFiniteSet(Differ)
        <4>1. IsFiniteSet(1..Len(verdicts))
          BY <3>2, FS_Interval
        <4> QED BY <3>2, <4>1, FS_Subset
      <3>4. Named(s) = Differ /\ s \in Seq(Differ)
        BY <3>1, <3>3, ListingsAreComplete, ListingsAreDistinct
      <3>5. Differ \subseteq DOMAIN command.args
        <4>1. listed \in EntriesFor(command.args)
          BY <1>3 DEF Repair, ConsoleInv, CommandInv
        <4>2. Len(listed) <= Len(command.args)
          BY <1>1, <2>2, <4>1, EntriesAreComplete
        <4>3. Len(listed) \in Nat /\ Len(command.args) \in Nat
              /\ DOMAIN command.args = 1..Len(command.args)
          BY <1>1
        <4> QED BY <1>1, <3>2, <4>2, <4>3
      <3>6. Mismatched(s) \in Seq(Models)
        BY <1>1, <3>4, <3>5 DEF Mismatched
      <3>7. Named(Mismatched(s)) = {command.args[i] : i \in Differ}
        BY <3>4 DEF Named, Mismatched
      <3>8. Named(Mismatched(s)) = ToRepair
        BY <2>2, <3>5, <3>7 DEF ToRepair
      <3>9. Mismatched(s) # <<>>
        <4>1. Named(Mismatched(s)) # {}
          BY <3>2, <3>7
        <4>2. DOMAIN <<>> = {}
          OBVIOUS
        <4>3. Named(<<>>) = {}
          BY <4>2 DEF Named
        <4> QED BY <4>1, <4>3
      <3> QED BY <2>2, <3>1, <3>6, <3>8, <3>9
    <2> QED BY <2>1, <2>2
  <1>4. CASE ReconcileRefused \/ ReconcileCommand \/ CountRows \/ CountDocs \/ CountFails \/ NothingToRepair
    BY <1>4 DEF ReconcileRefused, ReconcileCommand, CountRows, CountDocs, CountFails, NothingToRepair
  <1> QED BY <1>2, <1>3, <1>4 DEF CommandStep

-----------------------------------------------------------------------------
(* The invariant.                                                           *)

(* Before a command nothing is listed and nothing runs (cobra_ops.go:58-62).*)
LEMMA ConsoleStarts == ConsoleInit => ConsoleInv
  <1> SUFFICES ASSUME ConsoleInit PROVE ConsoleInv
    OBVIOUS
  <1>1. PoolInv
    BY PoolInitInv DEF ConsoleInit
  <1>2. ContentTypeOK /\ call = "idle"
    BY <1>1 DEF PoolInv, PoolTypeOK, ConsoleInit, PoolInit
  <1>3. SearchInv
    BY <1>2, SearchStarts DEF ConsoleInit
  <1>4. CommandTypeOK
    BY <1>2 DEF ConsoleInit, CommandTypeOK, ContentTypeOK
  <1>5. CommandInv
    BY <1>2, <1>4 DEF CommandInv, ConsoleInit, ContentTypeOK
  <1> QED BY <1>1, <1>3, <1>5 DEF ConsoleInv

(* While a command waits, rows come and indices show more, which does not   *)
(* spoil what it has counted.                                               *)
LEMMA CommandWaits ==
  ASSUME CommandInv, UNCHANGED <<command_vars, registered, entries, base>>,
         call = "idle" => call' = "idle",
         call' \in {"running", "returned"} <=> call \in {"running", "returned"},
         ContentTypeOK, ContentTypeOK',
         \A m \in Models : rows[m] <= rows'[m] /\ docs[m] <= docs'[m]
  PROVE  CommandInv'
  <1>1. /\ UNCHANGED <<command, phase, listed, counted, verdicts, before>>
        /\ \A m \in Models : /\ rows[m] \in Nat /\ rows'[m] \in Nat
                              /\ docs[m] \in Nat /\ docs'[m] \in Nat
    BY DEF command_vars, ContentTypeOK
  <1>2. CommandTypeOK /\ CommandTypeOK'
    BY <1>1 DEF CommandInv, CommandTypeOK
  <1>3. /\ before \in [Models -> Nat] /\ listed \in Seq(Models)
        /\ verdicts \in Seq({"match", "mismatch", "error"}) /\ Len(verdicts) <= Len(listed)
    BY <1>2 DEF CommandTypeOK
  <1>4. \A m \in Models : before'[m] <= rows'[m]
    BY <1>1, <1>3 DEF CommandInv
  <1>5. ASSUME NEW i \in DOMAIN verdicts, verdicts[i] = "match"
        PROVE  docs'[listed[i]] >= before[listed[i]]
    <2>1. listed[i] \in Models /\ docs[listed[i]] >= before[listed[i]]
      BY <1>3, <1>5 DEF CommandInv
    <2> QED BY <1>1, <1>3, <2>1
  <1>6. /\ Unknown(command.args)' <=> Unknown(command.args)
        /\ EntriesFor(command.args)' = EntriesFor(command.args)
        /\ Counting' <=> Counting /\ Current' = Current
        /\ ToRepair' = ToRepair /\ Differ' = Differ
    BY <1>1 DEF Unknown, EntriesFor, Listings, Named, First, Counting, Current, ToRepair, Differ
  <1>7. Named(entries)' = Named(entries) /\ UNCHANGED <<base, entries, registered>>
    BY DEF Named
  <1>8. /\ phase' # "syncing" => call' = "idle"
        /\ phase' = "idle" => verdicts' = <<>>
    BY <1>1 DEF CommandInv
  <1>9. /\ phase' = "docs" => Counting' /\ counted' >= before'[Current']
        /\ \A i \in DOMAIN verdicts' : verdicts'[i] = "match" => docs'[listed'[i]] >= before'[listed'[i]]
    <2>1. phase = "docs" => Counting /\ counted >= before[Current]
      BY DEF CommandInv
    <2>2. phase' = phase /\ counted' = counted /\ before' = before
      BY <1>1
    <2>3. ASSUME phase = "docs" PROVE Counting'
      BY <2>1, <2>3 DEF Counting, CommandInv, command_vars
    <2>4. before'[Current'] = before[Current]
      BY <1>1 DEF Current
    <2> QED BY <1>1, <1>5, <2>1, <2>2, <2>3, <2>4
  <1>10. command'.kind = "reconcile" /\ phase' = "syncing" =>
           /\ ~Unknown(command.args)'
           /\ call' \in {"running", "returned"} =>
                /\ \A m \in Models : before'[m] <= base'[m]
                /\ ToRepair' \subseteq Named(entries)'
           /\ call' \notin {"running", "returned"} =>
                ToRepair' = {} \/ ToRepair' \cap Unscannable # {}
    BY <1>1, <1>6, <1>7 DEF CommandInv
  <1> QED BY <1>1, <1>2, <1>4, <1>6, <1>8, <1>9, <1>10 DEF CommandInv

(* A command begins, counts, or repairs (cobra_ops.go:64-97, 399-440,       *)
(* ops.go:181-233).                                                         *)
LEMMA CommandGoesOn ==
  ASSUME ConsoleInv, CommandStep
  PROVE  CommandInv'
  <1>1. /\ command \in Commands /\ command.args \in Seq(Models) /\ registered \in Registries
        /\ phase \in {"idle", "rows", "docs", "syncing", "done"}
        /\ listed \in Seq(Models) /\ verdicts \in Seq({"match", "mismatch", "error"})
        /\ Len(verdicts) <= Len(listed) /\ counted \in Nat
        /\ before \in [Models -> Nat] /\ rows \in [Models -> Nat] /\ docs \in [Models -> Nat]
    BY CommandAssumption
       DEF ConsoleInv, CommandInv, CommandTypeOK, PoolInv, PoolTypeOK, ContentTypeOK
  <1>2. CASE FullSyncCommand
    <2>1. UNCHANGED <<registered, rows, docs>>
      BY <1>1, <1>2, StartFacts DEF FullSyncCommand
    <2>2. /\ command.kind = "full-sync" /\ phase' = "syncing" /\ before' = rows
          /\ verdicts = <<>> /\ UNCHANGED <<command, listed, counted, verdicts>>
      BY <1>2 DEF FullSyncCommand, ConsoleInv, CommandInv
    <2> QED BY <1>1, <2>1, <2>2 DEF CommandInv, CommandTypeOK
  <1>3. CASE ReconcileRefused
    <2>1. /\ Unknown(command.args) /\ phase = "idle" /\ phase' = "done"
          /\ UNCHANGED <<command, listed, counted, verdicts, before, registered, call, entries, base, rows, docs>>
      BY <1>3 DEF ReconcileRefused, pool_vars, call_vars, content
    <2>2. Unknown(command.args)' /\ command' = command
      BY <2>1 DEF Unknown, Named
    <2> QED BY <1>1, <2>1, <2>2 DEF ConsoleInv, CommandInv, CommandTypeOK
  <1>4. CASE ReconcileCommand
    <2>1. /\ ~Unknown(command.args) /\ phase' = "rows" /\ before' = rows /\ phase = "idle"
          /\ command.kind = "reconcile" /\ verdicts = <<>> /\ call = "idle"
          /\ listed' \in EntriesFor(command.args)
          /\ UNCHANGED <<command, counted, verdicts, registered, call, entries, base, rows, docs>>
      BY <1>4 DEF ReconcileCommand, pool_vars, call_vars, content, ConsoleInv, CommandInv
    <2>2. listed' \in Seq(Models)
      BY <1>1, <2>1, EntriesAreDistinct
    <2>3. Unknown(command.args)' <=> Unknown(command.args)
      BY <2>1 DEF Unknown, Named
    <2>4. EntriesFor(command.args)' = EntriesFor(command.args)
      BY <2>1 DEF EntriesFor, Listings, Named, First
    <2> QED BY <1>1, <2>1, <2>2, <2>3, <2>4 DEF CommandInv, CommandTypeOK
  <1>5. ASSUME UNCHANGED <<command, listed, before, pool_vars>>,
               phase \in {"rows", "docs"}
        PROVE  /\ UNCHANGED <<registered, call, entries, base, rows, docs>> /\ call = "idle"
               /\ command'.kind = "reconcile" /\ ~Unknown(command.args)' /\ ~Unknown(command.args)
               /\ listed' \in EntriesFor(command.args)'
               /\ \A m \in Models : before'[m] <= rows'[m]
    <2>1. UNCHANGED <<registered, call, entries, base, rows, docs>>
      BY <1>5 DEF pool_vars, call_vars, content
    <2>2. /\ command.kind = "reconcile" /\ ~Unknown(command.args) /\ call = "idle"
          /\ listed \in EntriesFor(command.args) /\ \A m \in Models : before[m] <= rows[m]
      BY <1>5 DEF ConsoleInv, CommandInv
    <2> QED BY <1>5, <2>1, <2>2 DEF Unknown, EntriesFor, Listings, Named, First
  <1>6. CASE CountRows
    <2>1. /\ phase = "rows" /\ phase' = "docs" /\ Counting /\ counted' = rows[Current]
          /\ UNCHANGED <<command, listed, verdicts, before, pool_vars>>
      BY <1>6 DEF CountRows
    <2>2. Current \in Models
      BY <1>1, <2>1 DEF Counting, Current
    <2>3. counted' \in Nat /\ counted' >= before[Current] /\ Current' = Current /\ Counting'
      BY <1>1, <2>1, <2>2 DEF ConsoleInv, CommandInv, Counting, Current
    <2>4. \A i \in DOMAIN verdicts : verdicts[i] = "match" => docs[listed[i]] >= before[listed[i]]
      BY DEF ConsoleInv, CommandInv
    <2>5. UNCHANGED <<rows, docs>>
      BY <1>5, <2>1
    <2> QED BY <1>1, <1>5, <2>1, <2>3, <2>4, <2>5 DEF CommandInv, CommandTypeOK
  <1>7. ASSUME NEW verdict \in {"match", "mismatch", "error"}, Counting,
               phase \in {"rows", "docs"}, phase' = "rows", verdicts' = Append(verdicts, verdict),
               UNCHANGED <<command, listed, counted, before, pool_vars>>,
               verdict = "match" => docs[Current] >= before[Current]
        PROVE  CommandInv'
    <2>1. verdicts' \in Seq({"match", "mismatch", "error"}) /\ Len(verdicts') <= Len(listed)
      BY <1>1, <1>7 DEF Counting
    <2>2. ASSUME NEW i \in DOMAIN verdicts', verdicts'[i] = "match"
          PROVE  docs[listed[i]] >= before[listed[i]]
      <3>1. CASE i = Len(verdicts) + 1
        BY <1>1, <1>7, <2>2, <3>1 DEF Current
      <3>2. CASE i # Len(verdicts) + 1
        <4>1. i \in DOMAIN verdicts /\ verdicts[i] = "match"
          BY <1>1, <1>7, <2>2, <3>2
        <4> QED BY <4>1 DEF ConsoleInv, CommandInv
      <3> QED BY <3>1, <3>2
    <2>3. UNCHANGED <<rows, docs>>
      BY <1>5, <1>7
    <2>4. CommandTypeOK'
      BY <1>1, <1>7, <2>1 DEF CommandTypeOK
    <2> QED BY <1>1, <1>5, <1>7, <2>2, <2>3, <2>4 DEF CommandInv
  <1>8. CASE CountDocs
    <2>1. Counting /\ counted >= before[Current]
      BY <1>8 DEF CountDocs, ConsoleInv, CommandInv
    <2>2. Current \in Models
      BY <1>1, <2>1 DEF Counting, Current
    <2>3. Found(Current) \in Nat /\ Found(Current) <= docs[Current]
      BY <2>2, FoundOrLost DEF ConsoleInv, PoolInv, PoolTypeOK
    <2>4. counted = Found(Current) => docs[Current] >= before[Current]
      BY <1>1, <2>1, <2>2, <2>3
    <2>5. PICK verdict \in {"match", "mismatch"} :
            /\ verdicts' = Append(verdicts, verdict)
            /\ verdict = "match" => counted = Found(Current)
      BY <1>8 DEF CountDocs
    <2> QED BY <1>7, <1>8, <2>1, <2>4, <2>5 DEF CountDocs
  <1>9. CASE CountFails
    BY <1>7, <1>9 DEF CountFails
  <1>10. CASE Repair
    <2>1. /\ phase = "rows" /\ phase' = "syncing" /\ ~Counting
          /\ UNCHANGED <<command, listed, counted, verdicts, before>>
      BY <1>10 DEF Repair
    <2>2. PICK models \in Seq(Models) :
            /\ Start(models)
            /\ Named(models) = IF command.args = <<>> THEN {} ELSE ToRepair
            /\ command.args = <<>> => models = <<>>
            /\ command.args # <<>> => models # <<>>
      <3>1. ~UNCHANGED pool_vars
        BY <1>1, <1>10, StartFacts DEF Repair, pool_vars, call_vars, Start, Refuse, RefuseInvalid, Begin
      <3> QED BY <1>10, <3>1, CommandsStart
    <2>3. /\ UNCHANGED <<registered, rows, docs>>
          /\ call' \in {"running", "refused"}
          /\ call' = "running" => base' = rows /\ entries' \in EntriesFor(models)
          /\ call' = "refused" => \/ Unknown(models) \/ (models = <<>> /\ registered = {})
                                  \/ \E s \in EntriesFor(models) : Named(s) \cap Unscannable # {}
      BY <2>2, StartFacts
    <2>4. ToRepair' = ToRepair /\ Named(entries') = Named(entries)'
      BY <2>1, <2>3 DEF ToRepair, Differ, Named
    <2>5. ASSUME call' = "running" PROVE ToRepair \subseteq Named(entries')
      <3>1. Named(entries') = IF models = <<>> THEN registered ELSE Named(models)
        BY <1>1, <2>3, <2>5, EntriesAreComplete
      <3> QED BY <2>2, <3>1 DEF ToRepair
    <2>6. ASSUME call' = "refused" PROVE ToRepair = {} \/ ToRepair \cap Unscannable # {}
      <3>1. ~Unknown(models)
        <4>1. Named(command.args) \subseteq registered
          BY <2>1 DEF ConsoleInv, CommandInv, Unknown
        <4>2. command.args # <<>> => ToRepair \subseteq Named(command.args)
          BY DEF ToRepair, Named
        <4> QED BY <2>2, <4>1, <4>2 DEF Unknown
      <3>2. CASE models = <<>> /\ registered = {}
        BY <2>2, <3>2 DEF ToRepair
      <3>3. CASE \E s \in EntriesFor(models) : Named(s) \cap Unscannable # {}
        <4>1. PICK s \in EntriesFor(models) : Named(s) \cap Unscannable # {}
          BY <3>3
        <4>2. Named(s) = IF models = <<>> THEN registered ELSE Named(models)
          BY <1>1, EntriesAreComplete
        <4> QED BY <2>2, <4>1, <4>2 DEF ToRepair
      <3> QED BY <2>3, <2>6, <3>1, <3>2, <3>3
    <2>7. /\ command.kind = "reconcile" /\ ~Unknown(command.args)
          /\ listed \in EntriesFor(command.args)
          /\ \A m \in Models : before[m] <= rows[m]
          /\ \A i \in DOMAIN verdicts : verdicts[i] = "match" => docs[listed[i]] >= before[listed[i]]
      BY <2>1 DEF ConsoleInv, CommandInv
    <2>8. ~Unknown(command.args)' /\ listed' \in EntriesFor(command.args)'
      BY <2>1, <2>3, <2>7 DEF Unknown, EntriesFor, Listings, Named, First
    <2>9. Len(verdicts) = Len(listed)
      BY <1>1, <2>1 DEF Counting
    <2>10. CommandTypeOK'
      BY <1>1, <2>1 DEF CommandTypeOK
    <2>11. call' \in {"running", "returned"} => /\ \A m \in Models : before'[m] <= base'[m]
                                              /\ ToRepair' \subseteq Named(entries)'
      BY <2>1, <2>3, <2>4, <2>5, <2>7
    <2>12. call' \notin {"running", "returned"} => ToRepair' = {} \/ ToRepair' \cap Unscannable # {}
      BY <2>3, <2>4, <2>6
    <2> QED BY <2>1, <2>3, <2>7, <2>8, <2>9, <2>10, <2>11, <2>12 DEF CommandInv
  <1>11. CASE NothingToRepair
    <2>1. /\ phase = "rows" /\ phase' = "done" /\ ~Counting
          /\ command.repair => command.args # <<>> /\ Differ = {}
          /\ UNCHANGED <<command, listed, counted, verdicts, before, pool_vars>>
      BY <1>11 DEF NothingToRepair
    <2>2. Len(verdicts') = Len(listed')
      BY <1>1, <2>1 DEF Counting
    <2>3. \A i \in DOMAIN verdicts : verdicts[i] = "match" => docs[listed[i]] >= before[listed[i]]
      BY DEF ConsoleInv, CommandInv
    <2>4. CommandTypeOK' /\ Differ' = Differ
      BY <1>1, <2>1 DEF CommandTypeOK, Differ
    <2>5. UNCHANGED <<rows, docs>>
      BY <1>5, <2>1
    <2> QED BY <1>1, <1>5, <2>1, <2>2, <2>3, <2>4, <2>5 DEF CommandInv
  <1> QED BY <1>2, <1>3, <1>4, <1>6, <1>8, <1>9, <1>10, <1>11 DEF CommandStep

-----------------------------------------------------------------------------
(* Theorems.                                                                *)

(* The index only grows under the searches, whatever a command or the pool  *)
(* does.                                                                    *)
LEMMA ContentGrows ==
  ASSUME ConsoleInv, [ConsoleNext]_console_vars
  PROVE  \A m \in Models : rows[m] <= rows'[m] /\ docs[m] <= docs'[m]
  <1>1. \A m \in Models : rows[m] \in Nat /\ docs[m] \in Nat
    BY DEF ConsoleInv, PoolInv, PoolTypeOK, ContentTypeOK
  <1>2. CASE CommandStep
    <2>1. CASE UNCHANGED pool_vars
      BY <1>1, <2>1 DEF pool_vars, content
    <2>2. CASE \E models \in Seq(Models) : Start(models)
      BY <1>1, <2>2, StartFacts
    <2> QED BY <1>2, <2>1, <2>2, CommandsStart
  <1>3. CASE PoolStep \/ OtherStep
    BY <1>3, PoolMovesOn DEF ConsoleInv
  <1>4. CASE UNCHANGED pool_vars
    BY <1>1, <1>4 DEF pool_vars, content
  <1>5. CASE UNCHANGED console_vars
    BY <1>4, <1>5 DEF console_vars
  <1> QED BY <1>2, <1>3, <1>4, <1>5 DEF ConsoleNext

(* Under the commands a full sync does what it does by itself, ...          *)
LEMMA PoolOfTheConsole ==
  ASSUME ConsoleInv, [ConsoleNext]_console_vars
  PROVE  [PoolNext]_pool_vars
  <1>1. CASE CommandStep
    BY <1>1, CommandsStart DEF PoolNext
  <1> QED BY <1>1 DEF ConsoleNext, PoolNext, console_vars

(* ... and the searches see an index that grows.                            *)
LEMMA SearchesOfTheConsole ==
  ASSUME ConsoleInv, [ConsoleNext]_console_vars
  PROVE  [SearchNext]_search_and_content
  <1>1. PoolInv'
    BY PoolOfTheConsole, PoolStepInv DEF ConsoleInv
  <1>2. ContentTypeOK'
    BY <1>1 DEF PoolInv, PoolTypeOK
  <1>3. IndexGrows
    BY <1>2, ContentGrows DEF IndexGrows, ContentTypeOK, ConsoleInv, PoolInv, PoolTypeOK
  <1>4. CASE UNCHANGED search_vars
    BY <1>3, <1>4 DEF SearchNext
  <1>5. CASE <<command, registered>> \in SearchBeside /\ SearchStep
    BY <1>5 DEF SearchNext
  <1>6. CommandStep => UNCHANGED search_vars
    BY DEF CommandStep, FullSyncCommand, ReconcileRefused, ReconcileCommand, CountRows, CountDocs,
           CountFails, Repair, NothingToRepair
  <1> QED BY <1>4, <1>5, <1>6 DEF ConsoleNext, console_vars

(* Every step of the console keeps the invariant.                           *)
LEMMA ConsoleStepInv ==
  ASSUME ConsoleInv, [ConsoleNext]_console_vars
  PROVE  ConsoleInv'
  <1>1. PoolInv'
    BY PoolOfTheConsole, PoolStepInv DEF ConsoleInv
  <1>2. SearchInv'
    BY SearchesOfTheConsole, SearchStepKeepsInv DEF ConsoleInv
  <1>3. ContentTypeOK /\ ContentTypeOK' /\ CommandInv
    BY <1>1 DEF ConsoleInv, PoolInv, PoolTypeOK
  <1>4. ASSUME CommandStep PROVE CommandInv'
    BY <1>4, CommandGoesOn
  <1>5. ASSUME PoolStep \/ OtherStep, UNCHANGED command_vars PROVE CommandInv'
    <2>1. /\ UNCHANGED <<registered, entries, base>>
          /\ call = "idle" => call' = "idle"
          /\ call' \in {"running", "returned"} <=> call \in {"running", "returned"}
      BY <1>5, PoolMovesOn DEF ConsoleInv
    <2>2. \A m \in Models : rows[m] <= rows'[m] /\ docs[m] <= docs'[m]
      BY ContentGrows
    <2> QED BY <1>3, <1>5, <2>1, <2>2, CommandWaits
  <1>6. ASSUME UNCHANGED <<command_vars, pool_vars>> PROVE CommandInv'
    <2>1. UNCHANGED <<registered, entries, base, call>>
      BY <1>6 DEF pool_vars, call_vars
    <2>2. \A m \in Models : rows[m] <= rows'[m] /\ docs[m] <= docs'[m]
      BY ContentGrows
    <2> QED BY <1>3, <1>6, <2>1, <2>2, CommandWaits
  <1>7. CommandInv'
    BY <1>4, <1>5, <1>6 DEF ConsoleNext, console_vars
  <1> QED BY <1>1, <1>2, <1>7 DEF ConsoleInv

(* Whatever commands an operator gives: types, and what a command knows of  *)
(* tables, indices and calls (cobra_ops.go:58-99, 393-445).                 *)
THEOREM ConsoleInvariant == ConsoleSpec => []ConsoleInv
  <1>1. ConsoleInv /\ [ConsoleNext]_console_vars => ConsoleInv'
    BY ConsoleStepInv
  <1> QED BY ConsoleStarts, <1>1, PTL DEF ConsoleSpec

(* Type correctness of commands, calls, recorder and searches together.     *)
THEOREM ConsoleTypes == ConsoleSpec => []TypeOK
  <1>1. ConsoleInv => TypeOK
    BY DEF ConsoleInv, PoolInv, SearchInv, CommandInv, CommandTypeOK, TypeOK
  <1> QED BY ConsoleInvariant, <1>1, PTL

(* The console is a full sync with failures and monitors: all that is       *)
(* proved of PoolSpec holds under it (fullsync.go:26-121).                  *)
THEOREM ConsoleIsAPool == ConsoleSpec => PoolSpec
  <1>1. ConsoleInit => PoolInit
    BY DEF ConsoleInit
  <1>2. ConsoleInv /\ [ConsoleNext]_console_vars => [PoolNext]_pool_vars
    BY PoolOfTheConsole
  <1> QED BY <1>1, <1>2, ConsoleInvariant, PTL DEF ConsoleSpec, PoolSpec

(* The console is a group of searches over a growing index: all that is     *)
(* proved of SearchSpec holds under it (searcher/search.go:174-204).        *)
THEOREM ConsoleIsASearch == ConsoleSpec => SearchSpec
  <1>1. ConsoleInit => ContentTypeOK /\ SearchInit
    BY ConsoleStarts DEF ConsoleInit, ConsoleInv, PoolInv, PoolTypeOK
  <1>2. ConsoleInv /\ [ConsoleNext]_console_vars => [SearchNext]_search_and_content
    BY SearchesOfTheConsole
  <1> QED BY <1>1, <1>2, ConsoleInvariant, PTL DEF ConsoleSpec, SearchSpec, search_and_content

(* What a finished repair has done for the models that were named once      *)
(* each, by the alignment of results and arguments and by what results of   *)
(* a full sync mean.                                                        *)
LEMMA InvMeansRepaired == ConsoleInv => RepairRepairs
  <1> SUFFICES ASSUME ConsoleInv, Over, command.kind = "reconcile", command.repair,
                      Distinct(command.args), ~Unknown(command.args),
                      NEW m \in (IF command.args = <<>> THEN registered ELSE Named(command.args)),
                      ~Excused(m), ~TurnedDown
               PROVE  docs[m] >= before[m]
    <2>1. ASSUME ConsoleInv,
                 NEW m \in (IF command.args = <<>> THEN registered ELSE Named(command.args)),
                 command.args \in Seq(Models), registered \in Registries,
                 docs[m] >= before[m]
          PROVE  Found(m) + lost[m] >= before[m]
      <3>1. m \in Models
        BY <2>1, PoolAssumption DEF Named
      <3>2. Found(m) + lost[m] = docs[m]
        BY <2>1, <3>1, FoundOrLost DEF ConsoleInv, PoolInv, PoolTypeOK
      <3> QED BY <2>1, <3>2
    <2>2. ConsoleInv => command.args \in Seq(Models) /\ registered \in Registries
      BY CommandAssumption DEF ConsoleInv, CommandInv, CommandTypeOK, PoolInv, PoolTypeOK
    <2> QED BY <2>1, <2>2 DEF RepairRepairs
  <1>1. /\ command.args \in Seq(Models) /\ registered \in Registries /\ registered \subseteq Models
        /\ listed \in Seq(Models) /\ verdicts \in Seq({"match", "mismatch", "error"})
        /\ before \in [Models -> Nat] /\ docs \in [Models -> Nat] /\ base \in [Models -> Nat]
        /\ entries \in Seq(Models) /\ sent \in Seq(Results)
    BY CommandAssumption, PoolAssumption
       DEF ConsoleInv, CommandInv, CommandTypeOK, PoolInv, PoolTypeOK, ContentTypeOK
  <1>2. /\ phase \in {"syncing", "done"} /\ listed \in EntriesFor(command.args)
        /\ Len(verdicts) = Len(listed)
        /\ phase = "done" => command.args # <<>> /\ Differ = {}
        /\ phase = "syncing" => \/ call = "returned"
                                \/ call = "refused" /\ (ToRepair = {} \/ ToRepair \cap Unscannable # {})
    BY DEF Over, ConsoleInv, CommandInv
  <1>3. m \in Models
    BY <1>1 DEF Named
  <1>4. ASSUME phase = "syncing", m \in ToRepair PROVE docs[m] >= before[m]
    <2>1. call = "returned" /\ ~cancelled /\ before[m] <= base[m] /\ m \in Named(entries)
      BY <1>2, <1>3, <1>4 DEF Excused, TurnedDown, ConsoleInv, CommandInv
    <2>2. PICK k \in 1..Len(entries) : entries[k] = m
      BY <1>1, <2>1 DEF Named
    <2>3. PICK i \in DOMAIN sent : sent[i].entry = k
      BY <2>1, InvMeansAnswered DEF ConsoleInv, Answered
    <2>4. sent[i].err = "none"
      BY <2>2, <2>3 DEF Excused
    <2>5. docs[m] >= base[m]
      BY <2>2, <2>3, <2>4 DEF ConsoleInv, PoolInv, CopyInv, ResultsCovered
    <2> QED BY <1>1, <1>3, <2>1, <2>5
  <1>5. CASE command.args = <<>>
    BY <1>2, <1>4, <1>5 DEF ToRepair
  <1>6. CASE command.args # <<>>
    <2>1. Len(listed) = Len(command.args)
          /\ \A k \in 1..Len(command.args) : listed[k] = command.args[k]
      BY <1>1, <1>2, <1>6, ResultsLineUp
    <2>2. PICK k \in 1..Len(command.args) : command.args[k] = m
      BY <1>1, <1>6 DEF Named
    <2>3. k \in DOMAIN verdicts /\ listed[k] = m /\ k \in DOMAIN command.args
      <3>1. /\ DOMAIN verdicts = 1..Len(verdicts)
            /\ DOMAIN command.args = 1..Len(command.args)
        BY <1>1
      <3> QED BY <1>2, <2>1, <2>2, <3>1
    <2>4. verdicts[k] \in {"match", "mismatch", "error"}
      BY <1>1, <2>3
    <2>5. verdicts[k] # "error"
      BY <1>6, <2>3 DEF Excused
    <2>6. CASE verdicts[k] = "match"
      BY <2>3, <2>6 DEF ConsoleInv, CommandInv
    <2>7. CASE verdicts[k] = "mismatch"
      <3>1. k \in Differ
        BY <2>3, <2>7 DEF Differ
      <3>2. m \in ToRepair
        BY <1>6, <2>2, <2>3, <3>1 DEF ToRepair
      <3> QED BY <1>2, <1>4, <3>1, <3>2
    <2> QED BY <2>4, <2>5, <2>6, <2>7
  <1> QED BY <1>5, <1>6

(* reconcile --repair leaves every model of its arguments, or all of them,  *)
(* with at least the rows there were when it began, but for documents that  *)
(* got lost (fullsync.go:229-237), for models with an error of their own,   *)
(* for cancelled commands, and for repairs that were turned down because    *)
(* one of the models has no cursor (README.md:395, fullsync.go:35-47).      *)
THEOREM RepairIsComplete == ConsoleSpec => []RepairRepairs
  BY ConsoleInvariant, InvMeansRepaired, PTL
=============================================================================
