------------------------ MODULE RelayLifecycle_proofs ------------------------
(***************************************************************************)
(* Proofs about RelayLifecycle, for any number of calls.                   *)
(***************************************************************************)
EXTENDS RelayLifecycle, TLAPS

(* Every step keeps the shapes of the variables.                            *)
LEMMA TypeStep == TypeOK /\ [Next]_vars => TypeOK'
<1> SUFFICES ASSUME TypeOK, [Next]_vars PROVE TypeOK'
  OBVIOUS
<1> USE DEF TypeOK, Calls, shared
<1>0. ASSUME NEW c \in Calls, Begin(c)
      PROVE  /\ relayCancel' \in Calls \cup {NoCall} /\ relayRunning' \in BOOLEAN
             /\ relayWG' \in SUBSET Calls
             /\ loop' \in [Calls -> {"none", "polling", "batch", "panicking",
                                     "returned", "reset", "gone"}]
             /\ behind' \in [Stops -> SUBSET Calls]
  BY <1>0 DEF Begin
<1>1. ASSUME NEW c \in Starts, StartStep(c) PROVE TypeOK'
  <2>1. CASE StartSpawn(c)
    BY <1>0, <2>1 DEF StartSpawn
  <2>2. CASE ~StartSpawn(c)
    BY <1>1, <2>2 DEF StartStep, StartLock, StartCheck, StartNoop, StartUnlock
  <2> QED BY <2>1, <2>2
<1>2. ASSUME NEW c \in Runs, RunStep(c) PROVE TypeOK'
  BY <1>0, <1>2 DEF RunStep, RunCheck, RunBegin
<1>3. ASSUME NEW c \in Calls, LoopStep(c) PROVE TypeOK'
  <2>1. CASE Recover(c)
    BY <2>1 DEF Recover
  <2>2. CASE ~Recover(c)
    BY <1>3, <2>2 DEF LoopStep, HostCancel, Tick, BatchDone, BatchPanics, LoopReturns,
                      Unwind, Reset, Done
  <2> QED BY <2>1, <2>2
<1>4. ASSUME NEW k \in Stops, StopStep(k) PROVE TypeOK'
  BY <1>4 DEF StopStep, StopWork, StopStore, StopRead, StopCancel, StopDrained,
              StopTimeout, StopClose
<1>5. CASE UNCHANGED vars
  BY <1>5 DEF vars
<1> QED BY <1>1, <1>2, <1>3, <1>4, <1>5 DEF Next

(* The lock: only its holder is between Lock and Unlock.                    *)
LEMMA LockStep == TypeOK /\ LockHeld /\ [Next]_vars => LockHeld'
<1> SUFFICES ASSUME TypeOK, LockHeld, [Next]_vars PROVE LockHeld'
  OBVIOUS
<1> USE CallsAssumption DEF TypeOK, LockHeld, Free, Calls, shared
<1>1. ASSUME NEW c \in Starts, StartStep(c) PROVE LockHeld'
  BY <1>1 DEF StartStep, StartLock, StartCheck, StartNoop, StartSpawn, StartUnlock, Begin
<1>2. ASSUME NEW c \in Runs, RunStep(c) PROVE LockHeld'
  BY <1>2 DEF RunStep, RunCheck, RunBegin, Begin
<1>3. ASSUME NEW c \in Calls, LoopStep(c) PROVE LockHeld'
  BY <1>3 DEF LoopStep, HostCancel, Tick, BatchDone, BatchPanics, LoopReturns,
              Unwind, Recover, Reset, Done
<1>4. ASSUME NEW k \in Stops, StopStep(k) PROVE LockHeld'
  BY <1>4 DEF StopStep, StopWork, StopStore, StopRead, StopCancel, StopDrained,
              StopTimeout, StopClose
<1>5. CASE UNCHANGED vars
  BY <1>5 DEF vars
<1> QED BY <1>1, <1>2, <1>3, <1>4, <1>5 DEF Next

(* A loop begins only where relayRunning says that nobody owns the flags,   *)
(* and gives them back only while they are its own.                         *)
LEMMA FlagsStep == TypeOK /\ FlagsMatchOwner /\ [Next]_vars => FlagsMatchOwner'
<1> SUFFICES ASSUME TypeOK, FlagsMatchOwner, [Next]_vars PROVE FlagsMatchOwner'
  OBVIOUS
<1> USE DEF TypeOK, FlagsMatchOwner, Owns, Working
<1>1. ASSUME NEW c \in Calls, Begin(c), ~relayRunning PROVE FlagsMatchOwner'
  <2>1. \A d \in Calls : ~Owns(d)
    BY <1>1
  <2>2. \A d \in Calls : loop'[d] = IF d = c THEN "polling" ELSE loop[d]
    BY <1>1 DEF Begin
  <2>3. \A d \in Calls : Owns(d)' => d = c
    BY <2>1, <2>2
  <2>4. Owns(c)'
    BY <2>2
  <2> QED BY <1>1, <2>3, <2>4 DEF Begin
<1>2. ASSUME NEW c \in Calls, loop[c] = "returned", relayRunning' = FALSE,
             loop' = [loop EXCEPT ![c] = "reset"]
      PROVE  FlagsMatchOwner'
  <2>1. \A d \in Calls : Owns(d) => d = c
    BY <1>2
  <2>2. \A d \in Calls : loop'[d] = IF d = c THEN "reset" ELSE loop[d]
    BY <1>2
  <2>3. \A d \in Calls : ~Owns(d)'
    BY <2>1, <2>2
  <2> QED BY <1>2, <2>3
<1>3. ASSUME NEW c \in Calls, UNCHANGED <<relayRunning, relayCancel>>,
             \A d \in Calls \ {c} : loop'[d] = loop[d],
             Owns(c)' <=> Owns(c)
      PROVE  FlagsMatchOwner'
  <2>1. \A d \in Calls : Owns(d)' <=> Owns(d)
    BY <1>3
  <2> QED BY <1>3, <2>1
<1>4. ASSUME UNCHANGED <<relayRunning, relayCancel, loop>> PROVE FlagsMatchOwner'
  BY <1>4
<1>5. ASSUME NEW c \in Starts, StartStep(c) PROVE FlagsMatchOwner'
  BY <1>1, <1>4, <1>5 DEF StartStep, StartLock, StartCheck, StartNoop, StartSpawn,
                          StartUnlock, Calls
<1>6. ASSUME NEW c \in Runs, RunStep(c) PROVE FlagsMatchOwner'
  BY <1>1, <1>4, <1>6 DEF RunStep, RunCheck, RunBegin, Calls, shared
<1>7. ASSUME NEW c \in Calls, LoopStep(c) PROVE FlagsMatchOwner'
  <2>1. CASE HostCancel(c)
    BY <2>1, <1>4 DEF HostCancel
  <2>2. CASE Reset(c)
    BY <2>2, <1>2 DEF Reset
  <2>3. CASE Tick(c) \/ BatchDone(c) \/ BatchPanics(c) \/ LoopReturns(c) \/ Recover(c) \/ Done(c)
    <3>1. UNCHANGED <<relayRunning, relayCancel>>
      BY <2>3 DEF Tick, BatchDone, BatchPanics, LoopReturns, Recover, Done, shared
    <3>2. /\ \A d \in Calls \ {c} : loop'[d] = loop[d]
          /\ Owns(c)' <=> Owns(c)
      BY <2>3 DEF Tick, BatchDone, BatchPanics, LoopReturns, Recover, Done
    <3> QED BY <3>1, <3>2, <1>3
  <2> QED BY <1>7, <2>1, <2>2, <2>3 DEF LoopStep, Unwind
<1>8. ASSUME NEW k \in Stops, StopStep(k) PROVE FlagsMatchOwner'
  BY <1>4, <1>8 DEF StopStep, StopWork, StopStore, StopRead, StopCancel, StopDrained,
                    StopTimeout, StopClose, shared
<1>9. CASE UNCHANGED vars
  BY <1>4, <1>9 DEF vars
<1> QED BY <1>5, <1>6, <1>7, <1>8, <1>9 DEF Next

(* A loop is in the wait group from its beginning to its last function.     *)
LEMMA GroupStep == TypeOK /\ GroupCovers /\ [Next]_vars => GroupCovers'
<1> SUFFICES ASSUME TypeOK, GroupCovers, [Next]_vars PROVE GroupCovers'
  OBVIOUS
<1> USE DEF TypeOK, GroupCovers, Owns, Working, Calls, shared
<1>1. ASSUME NEW c \in Starts, StartStep(c) PROVE GroupCovers'
  BY <1>1 DEF StartStep, StartLock, StartCheck, StartNoop, StartSpawn, StartUnlock, Begin
<1>2. ASSUME NEW c \in Runs, RunStep(c) PROVE GroupCovers'
  BY <1>2 DEF RunStep, RunCheck, RunBegin, Begin
<1>3. ASSUME NEW c \in Calls, LoopStep(c) PROVE GroupCovers'
  BY <1>3 DEF LoopStep, HostCancel, Tick, BatchDone, BatchPanics, LoopReturns,
              Unwind, Recover, Reset, Done
<1>4. ASSUME NEW k \in Stops, StopStep(k) PROVE GroupCovers'
  BY <1>4 DEF StopStep, StopWork, StopStore, StopRead, StopCancel, StopDrained,
              StopTimeout, StopClose
<1>5. CASE UNCHANGED vars
  BY <1>5 DEF vars
<1> QED BY <1>1, <1>2, <1>3, <1>4, <1>5 DEF Next

(* The race of Start and Shutdown: whichever takes the lock first, no loop  *)
(* is made behind a Shutdown that has been through it.                      *)
LEMMA StopOrder ==
  TypeOK /\ LockHeld /\ GroupCovers /\ NoLateStart /\ [Next]_vars => NoLateStart'
<1> SUFFICES ASSUME TypeOK, LockHeld, GroupCovers, NoLateStart, [Next]_vars
             PROVE  NoLateStart'
  OBVIOUS
<1> USE CallsAssumption DEF TypeOK, NoLateStart, PastLock
\* Steps of loops: none starts to work.
<1>1. ASSUME UNCHANGED <<stopped, call, stop>>,
             \A c \in Starts : Working(c)' => Working(c)
      PROVE  NoLateStart'
  BY <1>1
<1>2. ASSUME NEW c \in Starts, StartStep(c) PROVE NoLateStart'
  <2>1. CASE StartSpawn(c)
    <3>1. \A k \in Stops : ~PastLock(k)
      BY <2>1 DEF StartSpawn
    <3>2. UNCHANGED <<stopped, stop>>
      BY <2>1 DEF StartSpawn
    <3> QED BY <3>1, <3>2
  <2>2. CASE StartCheck(c)
    <3>1. UNCHANGED <<stopped, stop, loop>>
      BY <2>2 DEF StartCheck
    <3>2. ASSUME NEW k \in Stops, PastLock(k) PROVE \A d \in Starts : call'[d] # "checked"
      <4>1. stopped
        BY <3>2
      <4>2. call' = [call EXCEPT ![c] = "refused"]
        BY <2>2, <4>1 DEF StartCheck
      <4>3. \A d \in Starts : call[d] # "checked"
        BY <3>2
      <4> QED BY <4>2, <4>3 DEF Calls
    <3> QED BY <3>1, <3>2 DEF Working
  <2>3. CASE StartLock(c) \/ StartNoop(c) \/ StartUnlock(c)
    <3>1. UNCHANGED <<stopped, stop, loop>>
      BY <2>3 DEF StartLock, StartNoop, StartUnlock
    <3>2. \A d \in Starts : call'[d] = "checked" => call[d] = "checked"
      BY <2>3 DEF StartLock, StartNoop, StartUnlock, Calls
    <3> QED BY <3>1, <3>2 DEF Working
  <2> QED BY <1>2, <2>1, <2>2, <2>3 DEF StartStep
<1>3. ASSUME NEW c \in Runs, RunStep(c) PROVE NoLateStart'
  <2>1. UNCHANGED <<stopped, stop>>
    BY <1>3 DEF RunStep, RunCheck, RunBegin, shared
  <2>2. \A d \in Starts : call'[d] = call[d] /\ loop'[d] = loop[d]
    BY <1>3 DEF RunStep, RunCheck, RunBegin, Begin, Calls
  <2> QED BY <2>1, <2>2 DEF Working
<1>4. ASSUME NEW c \in Calls, LoopStep(c) PROVE NoLateStart'
  <2>1. UNCHANGED <<stopped, call, stop>>
    BY <1>4 DEF LoopStep, HostCancel, Tick, BatchDone, BatchPanics, LoopReturns,
                Unwind, Recover, Reset, Done, shared
  <2>2. \A d \in Starts : Working(d)' => Working(d)
    BY <1>4 DEF LoopStep, HostCancel, Tick, BatchDone, BatchPanics, LoopReturns,
                Unwind, Recover, Reset, Done, Working, Calls
  <2> QED BY <2>1, <2>2, <1>1
<1>5. ASSUME NEW k \in Stops, StopStep(k) PROVE NoLateStart'
  <2>1. UNCHANGED <<call, loop>>
    BY <1>5 DEF StopStep, StopWork, StopStore, StopRead, StopCancel, StopDrained,
                StopTimeout, StopClose
  <2>2. CASE StopStore(k)
    BY <2>1, <2>2 DEF StopStore, Working
  <2>3. CASE StopRead(k)
    <3>1. \A c \in Starts : call[c] # "checked"
      BY <2>3 DEF StopRead, Free, LockHeld, Calls
    <3> QED BY <2>1, <2>3, <3>1 DEF StopRead, shared, Working
  <2>4. CASE StopDrained(k)
    <3>1. \A c \in Starts : ~Working(c)
      BY <2>4 DEF StopDrained, GroupCovers, Owns, Calls
    <3> QED BY <2>1, <2>4, <3>1 DEF StopDrained, shared, Working
  <2>5. CASE StopCancel(k) \/ StopTimeout(k) \/ StopClose(k)
    BY <2>1, <2>5 DEF StopCancel, StopTimeout, StopClose, shared, Working
  <2> QED BY <1>5, <2>2, <2>3, <2>4, <2>5 DEF StopStep, StopWork
<1>6. CASE UNCHANGED vars
  BY <1>1, <1>6 DEF vars, Working
<1> QED BY <1>2, <1>3, <1>4, <1>5, <1>6 DEF Next

(* The inductive invariant of start, stop and unwinding.                    *)
THEOREM LifecycleInvariant == Spec => []LifecycleInv
<1>1. Init => LifecycleInv
  <2> SUFFICES ASSUME Init PROVE LifecycleInv
    OBVIOUS
  <2>1. TypeOK
    BY DEF Init, TypeOK
  <2>2. LockHeld /\ GroupCovers /\ FlagsMatchOwner
    BY DEF Init, LockHeld, GroupCovers, FlagsMatchOwner, Owns, Working, Calls
  <2>3. NoLateStart
    BY DEF Init, NoLateStart, PastLock
  <2> QED BY <2>1, <2>2, <2>3 DEF LifecycleInv
<1>2. LifecycleInv /\ [Next]_vars => LifecycleInv'
  BY TypeStep, LockStep, FlagsStep, GroupStep, StopOrder DEF LifecycleInv
<1> QED BY <1>1, <1>2, PTL DEF Spec

(* The variables keep their types.                                          *)
THEOREM TypeCorrect == Spec => []TypeOK
<1>1. LifecycleInv => TypeOK
  BY DEF LifecycleInv
<1> QED BY <1>1, LifecycleInvariant, PTL

(* The flags and the CancelFunc belong to the one loop that owns them.      *)
THEOREM FlagsBelong == Spec => []FlagsMatchOwner
<1>1. LifecycleInv => FlagsMatchOwner
  BY DEF LifecycleInv
<1> QED BY <1>1, LifecycleInvariant, PTL

(* Start and Run never make two loops work at the same time: each would     *)
(* own the CancelFunc.                                                      *)
THEOREM LoopsExclude == Spec => []OneLoop
<1>1. LifecycleInv => OneLoop
  BY DEF LifecycleInv, FlagsMatchOwner, OneLoop, Owns
<1> QED BY <1>1, LifecycleInvariant, PTL

(* After a Shutdown that returned nil no loop made by StartOutboxRelay      *)
(* works, however the calls interleave.                                     *)
THEOREM ShutdownIsFinal == Spec => []ShutdownDrainsStarted
<1>1. LifecycleInv => ShutdownDrainsStarted
  BY DEF LifecycleInv, NoLateStart, ShutdownDrainsStarted
<1> QED BY <1>1, LifecycleInvariant, PTL
==============================================================================
