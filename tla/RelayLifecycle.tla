---------------------------- MODULE RelayLifecycle ----------------------------
(***************************************************************************)
(* How a relay loop is started, stopped and lost: StartOutboxRelay,        *)
(* RunOutboxRelay, Shutdown and a panicking delivery, racing on relayMu,   *)
(* on the atomic flag stopped and on a wait group (outbox_relay.go:30-183, *)
(* syncer.go:288-341).  What a batch does is module OutboxRelay's.         *)
(*                                                                         *)
(* Every element of Starts and Runs is one call of StartOutboxRelay or     *)
(* RunOutboxRelay, and names the loop it may bring into being; every       *)
(* element of Stops is one call of Shutdown.                               *)
(***************************************************************************)
EXTENDS Naturals

CONSTANTS Starts, Runs, Stops, NoCall

Calls == Starts \cup Runs

ASSUME CallsAssumption == /\ Starts \cap Runs = {}
                          /\ NoCall \notin Calls

VARIABLES
  stopped,       \* the atomic flag
  relayMu,       \* the Start call inside relayMu, or NoCall when it is free
  relayRunning,  \* guarded by relayMu
  relayCancel,   \* whose context the stored CancelFunc cancels, or NoCall
  relayWG,       \* the loops that have Added themselves and are not Done
  relayPanic,    \* Health's view of a panic
  cancelled,     \* the loops whose context is done
  call,          \* where each Start or Run call is
  loop,          \* where the loop it started is
  stop,          \* where each Shutdown is
  held,          \* the CancelFunc that Shutdown read under the lock
  behind         \* history: loops that began behind each Shutdown's back

vars == <<stopped, relayMu, relayRunning, relayCancel, relayWG, relayPanic,
          cancelled, call, loop, stop, held, behind>>

shared == <<stopped, relayMu, relayRunning, relayCancel, relayWG, relayPanic,
            cancelled>>

Free == relayMu = NoCall

\* runOutboxRelay is on the stack of c's goroutine.
Working(c) == loop[c] \in {"polling", "batch", "panicking"}

\* From relayRunning = true to the deferred relayRunning = false.
Owns(c) == Working(c) \/ loop[c] = "returned"

TypeOK ==
  /\ stopped \in BOOLEAN
  /\ relayMu \in Starts \cup {NoCall}
  /\ relayRunning \in BOOLEAN
  /\ relayCancel \in Calls \cup {NoCall}
  /\ relayWG \in SUBSET Calls
  /\ relayPanic \in BOOLEAN
  /\ cancelled \in SUBSET Calls
  /\ call \in [Calls -> {"idle", "locked", "checked", "spawned", "refused",
                         "noop", "started"}]
  /\ loop \in [Calls -> {"none", "polling", "batch", "panicking", "returned",
                         "reset", "gone"}]
  /\ stop \in [Stops -> {"idle", "stored", "read", "waiting", "drained",
                         "timedout", "nil", "error"}]
  /\ held \in [Stops -> Calls \cup {NoCall}]
  /\ behind \in [Stops -> SUBSET Calls]

Init ==
  /\ stopped = FALSE
  /\ relayMu = NoCall
  /\ relayRunning = FALSE
  /\ relayCancel = NoCall
  /\ relayWG = {}
  /\ relayPanic = FALSE
  /\ cancelled = {}
  /\ call = [c \in Calls |-> "idle"]
  /\ loop = [c \in Calls |-> "none"]
  /\ stop = [k \in Stops |-> "idle"]
  /\ held = [k \in Stops |-> NoCall]
  /\ behind = [k \in Stops |-> {}]

-----------------------------------------------------------------------------
(* StartOutboxRelay.  The checks of ctx, db and the store, which do not     *)
(* change during a run, are left out: they refuse like `stopped' does.      *)

StartLock(c) ==
  /\ call[c] = "idle"
  /\ Free
  /\ relayMu' = c
  /\ call' = [call EXCEPT ![c] = "locked"]
  /\ UNCHANGED <<stopped, relayRunning, relayCancel, relayWG, relayPanic,
                 cancelled, loop, stop, held, behind>>

\* MUTANT: the flag is not looked at again inside the lock.
StartCheckMutant(c) ==
  /\ call[c] = "locked"
  /\ call' = [call EXCEPT ![c] = "checked"]
  /\ UNCHANGED <<shared, loop, stop, held, behind>>

\* MUTANT: a refused call goes away with the lock.
StartCheckLeakMutant(c) ==
  /\ call[c] = "locked"
  /\ call' = [call EXCEPT ![c] = IF stopped THEN "refused" ELSE "checked"]
  /\ UNCHANGED <<shared, loop, stop, held, behind>>

StartCheck(c) ==
  /\ call[c] = "locked"
  /\ \/ /\ ~stopped
        /\ call' = [call EXCEPT ![c] = "checked"]
        /\ UNCHANGED relayMu
     \/ /\ stopped
        /\ call' = [call EXCEPT ![c] = "refused"]
        /\ relayMu' = NoCall
  /\ UNCHANGED <<stopped, relayRunning, relayCancel, relayWG, relayPanic,
                 cancelled, loop, stop, held, behind>>

\* k has read the CancelFunc under the lock and still waits for the loops.
Awaits(k) == stop[k] \in {"read", "waiting"}

\* relayCancel, relayRunning and the wait group, for a new loop c.
Begin(c) ==
  /\ relayCancel' = c
  /\ relayRunning' = TRUE
  /\ relayWG' = relayWG \cup {c}
  /\ loop' = [loop EXCEPT ![c] = "polling"]
  /\ behind' = [k \in Stops |-> IF Awaits(k) THEN behind[k] \cup {c} ELSE behind[k]]

\* Already running: nil at once.
StartNoop(c) ==
  /\ call[c] = "checked"
  /\ c \in Starts
  /\ relayRunning
  /\ call' = [call EXCEPT ![c] = "noop"]
  /\ relayMu' = NoCall
  /\ UNCHANGED <<stopped, relayRunning, relayCancel, relayWG, relayPanic,
                 cancelled, loop, stop, held, behind>>

\* The goroutine is under way before the deferred Unlock.
StartSpawn(c) ==
  /\ call[c] = "checked"
  /\ c \in Starts
  /\ ~relayRunning
  /\ Begin(c)
  /\ call' = [call EXCEPT ![c] = "spawned"]
  /\ UNCHANGED <<stopped, relayMu, relayPanic, cancelled, stop, held>>

StartUnlock(c) ==
  /\ call[c] = "spawned"
  /\ relayMu' = NoCall
  /\ call' = [call EXCEPT ![c] = "started"]
  /\ UNCHANGED <<stopped, relayRunning, relayCancel, relayWG, relayPanic,
                 cancelled, loop, stop, held, behind>>

-----------------------------------------------------------------------------
(* RunOutboxRelay: the flag is looked at before the lock is taken.          *)

RunCheck(c) ==
  /\ call[c] = "idle"
  /\ call' = [call EXCEPT ![c] = IF stopped THEN "refused" ELSE "checked"]
  /\ UNCHANGED <<shared, loop, stop, held, behind>>

\* MUTANT: a second loop is not refused.
RunBeginMutant(c) ==
  /\ call[c] = "checked"
  /\ Free
  /\ Begin(c)
  /\ call' = [call EXCEPT ![c] = "started"]
  /\ UNCHANGED <<stopped, relayMu, relayPanic, cancelled, stop, held>>

RunBegin(c) ==
  /\ call[c] = "checked"
  /\ Free
  /\ \/ /\ relayRunning
        /\ call' = [call EXCEPT ![c] = "refused"]
        /\ UNCHANGED <<relayRunning, relayCancel, relayWG, loop, behind>>
     \/ /\ ~relayRunning
        /\ Begin(c)
        /\ call' = [call EXCEPT ![c] = "started"]
  /\ UNCHANGED <<stopped, relayMu, relayPanic, cancelled, stop, held>>

-----------------------------------------------------------------------------
(* runOutboxRelay and the deferred functions under it.                      *)

\* The host cancels the context it passes in, at any time.
HostCancel(c) ==
  /\ c \notin cancelled
  /\ cancelled' = cancelled \cup {c}
  /\ UNCHANGED <<stopped, relayMu, relayRunning, relayCancel, relayWG,
                 relayPanic, call, loop, stop, held, behind>>

\* The timer fires.  With the context done as well, select may take either.
Tick(c) ==
  /\ loop[c] = "polling"
  /\ loop' = [loop EXCEPT ![c] = "batch"]
  /\ UNCHANGED <<shared, call, stop, held, behind>>

BatchDone(c) ==
  /\ loop[c] = "batch"
  /\ loop' = [loop EXCEPT ![c] = "polling"]
  /\ UNCHANGED <<shared, call, stop, held, behind>>

BatchPanics(c) ==
  /\ loop[c] = "batch"
  /\ loop' = [loop EXCEPT ![c] = "panicking"]
  /\ UNCHANGED <<shared, call, stop, held, behind>>

\* MUTANT: the loop looks at the flag and not at its context.
LoopReturnsMutant(c) ==
  /\ loop[c] = "polling"
  /\ stopped
  /\ loop' = [loop EXCEPT ![c] = "returned"]
  /\ UNCHANGED <<shared, call, stop, held, behind>>

LoopReturns(c) ==
  /\ loop[c] = "polling"
  /\ c \in cancelled
  /\ loop' = [loop EXCEPT ![c] = "returned"]
  /\ UNCHANGED <<shared, call, stop, held, behind>>

\* MUTANT: recoverRelayPanic logs and forgets.
RecoverMutant(c) ==
  /\ loop[c] = "panicking"
  /\ loop' = [loop EXCEPT ![c] = "returned"]
  /\ UNCHANGED <<shared, call, stop, held, behind>>

\* recoverRelayPanic runs first, and only in the goroutine Start made; a panic
\* of a Run loop unwinds to its caller.
Recover(c) ==
  /\ loop[c] = "panicking"
  /\ relayPanic' = (relayPanic \/ c \in Starts)
  /\ loop' = [loop EXCEPT ![c] = "returned"]
  /\ UNCHANGED <<stopped, relayMu, relayRunning, relayCancel, relayWG,
                 cancelled, call, stop, held, behind>>

\* MUTANT: a loop ends without putting the flags back.
ResetMutant(c) ==
  /\ loop[c] = "returned"
  /\ relayWG' = relayWG \ {c}
  /\ loop' = [loop EXCEPT ![c] = "gone"]
  /\ UNCHANGED <<stopped, relayMu, relayRunning, relayCancel, relayPanic,
                 cancelled, call, stop, held, behind>>

\* The deferred reset.  RunOutboxRelay also cancels its own context.
Reset(c) ==
  /\ loop[c] = "returned"
  /\ Free
  /\ relayRunning' = FALSE
  /\ relayCancel' = NoCall
  /\ cancelled' = cancelled \cup (Runs \cap {c})
  /\ loop' = [loop EXCEPT ![c] = "reset"]
  /\ UNCHANGED <<stopped, relayMu, relayWG, relayPanic, call, stop, held, behind>>

Done(c) ==
  /\ loop[c] = "reset"
  /\ relayWG' = relayWG \ {c}
  /\ loop' = [loop EXCEPT ![c] = "gone"]
  /\ UNCHANGED <<stopped, relayMu, relayRunning, relayCancel, relayPanic,
                 cancelled, call, stop, held, behind>>

-----------------------------------------------------------------------------
(* Shutdown(ctx).                                                           *)

StopStore(k) ==
  /\ stop[k] = "idle"
  /\ stopped' = TRUE
  /\ stop' = [stop EXCEPT ![k] = "stored"]
  /\ UNCHANGED <<relayMu, relayRunning, relayCancel, relayWG, relayPanic,
                 cancelled, call, loop, held, behind>>

StopRead(k) ==
  /\ stop[k] = "stored"
  /\ Free
  /\ held' = [held EXCEPT ![k] = relayCancel]
  /\ stop' = [stop EXCEPT ![k] = "read"]
  /\ UNCHANGED <<shared, call, loop, behind>>

\* MUTANT: a nil CancelFunc is not told apart.
StopCancelNilMutant(k) ==
  /\ stop[k] = "read"
  /\ cancelled' = cancelled \cup {held[k]}
  /\ stop' = [stop EXCEPT ![k] = "waiting"]
  /\ UNCHANGED <<stopped, relayMu, relayRunning, relayCancel, relayWG,
                 relayPanic, call, loop, held, behind>>

\* MUTANT: the loops of RunOutboxRelay are left to their callers.
StopCancelMutant(k) ==
  /\ stop[k] = "read"
  /\ cancelled' = cancelled \cup (Starts \cap {held[k]})
  /\ stop' = [stop EXCEPT ![k] = "waiting"]
  /\ UNCHANGED <<stopped, relayMu, relayRunning, relayCancel, relayWG,
                 relayPanic, call, loop, held, behind>>

StopCancel(k) ==
  /\ stop[k] = "read"
  /\ cancelled' = cancelled \cup ({held[k]} \ {NoCall})
  /\ stop' = [stop EXCEPT ![k] = "waiting"]
  /\ UNCHANGED <<stopped, relayMu, relayRunning, relayCancel, relayWG,
                 relayPanic, call, loop, held, behind>>

\* relayWG.Wait returned; the answer reaches Shutdown in a later step.
StopDrained(k) ==
  /\ stop[k] = "waiting"
  /\ relayWG = {}
  /\ stop' = [stop EXCEPT ![k] = "drained"]
  /\ UNCHANGED <<shared, call, loop, held, behind>>

StopTimeout(k) ==
  /\ stop[k] = "waiting"
  /\ stop' = [stop EXCEPT ![k] = "timedout"]
  /\ UNCHANGED <<shared, call, loop, held, behind>>

\* The bulk indexer is closed whatever the wait said; errors are joined.
StopClose(k) ==
  /\ \/ stop[k] = "drained" /\ stop' = [stop EXCEPT ![k] = "nil"]
     \/ stop[k] \in {"drained", "timedout"} /\ stop' = [stop EXCEPT ![k] = "error"]
  /\ UNCHANGED <<shared, call, loop, held, behind>>

-----------------------------------------------------------------------------
StartStep(c) == \/ StartLock(c) \/ StartCheck(c) \/ StartNoop(c)
                \/ StartSpawn(c) \/ StartUnlock(c)
RunStep(c) == RunCheck(c) \/ RunBegin(c)
Unwind(c) == Recover(c) \/ Reset(c) \/ Done(c)
LoopStep(c) == \/ HostCancel(c) \/ Tick(c) \/ BatchDone(c) \/ BatchPanics(c)
               \/ LoopReturns(c) \/ Unwind(c)
StopWork(k) == StopRead(k) \/ StopCancel(k) \/ StopDrained(k) \/ StopClose(k)
StopStep(k) == StopStore(k) \/ StopWork(k) \/ StopTimeout(k)

Next == \/ \E c \in Starts : StartStep(c)
        \/ \E c \in Runs : RunStep(c)
        \/ \E c \in Calls : LoopStep(c)
        \/ \E k \in Stops : StopStep(k)

Spec == Init /\ [][Next]_vars

\* A goroutine that can go on does.  A batch ends: every request and statement
\* in it has a time limit.  select picks at random, so a loop does not prefer
\* its timer to a done context for ever.
Fairness ==
  /\ \A c \in Starts : WF_vars(StartStep(c))
  /\ \A c \in Calls : /\ WF_vars(BatchDone(c) \/ BatchPanics(c))
                      /\ SF_vars(LoopReturns(c))
                      /\ WF_vars(Unwind(c))
  /\ \A k \in Stops : WF_vars(StopWork(k))

FairSpec == Spec /\ Fairness

-----------------------------------------------------------------------------
(* Properties.                                                              *)

(* At most one loop delivers in one process, whichever of Start and Run     *)
(* asked for it (outbox_relay.go:37, 88).                                   *)
OneLoop == \A c, d \in Calls : Working(c) /\ Working(d) => c = d

(* The flag and the CancelFunc under relayMu belong to the loop that has    *)
(* not reset them yet: a loop that ends cannot take the CancelFunc of its   *)
(* successor away, and an idle syncer is not locked out by a dead loop      *)
(* (outbox_relay.go:55-60, 99-105).                                         *)
FlagsMatchOwner ==
  /\ \A c \in Calls : Owns(c) => relayRunning /\ relayCancel = c
  /\ relayRunning => \E c \in Calls : Owns(c)

(* Once a Shutdown has returned nil, no loop made by StartOutboxRelay is    *)
(* polling or delivering, nor will be: a Start call that could still make   *)
(* one was refused under the lock (outbox_relay.go:34, syncer.go:320).      *)
ShutdownDrainsStarted ==
  (\E k \in Stops : stop[k] = "nil") => \A c \in Starts : ~Working(c)

(* The same for every loop: README.md:487, "Shutdown first stops the relay  *)
(* from pulling, then waits for the batch in flight".  RunOutboxRelay looks *)
(* at stopped before it takes the lock (outbox_relay.go:74, 87).            *)
ShutdownDrains ==
  (\E k \in Stops : stop[k] = "nil") => \A c \in Calls : ~Working(c)

(* Health answers nil only if stopped and relayPanic are clear.             *)
Healthy == ~stopped /\ ~relayPanic

(* A panic of a background loop makes Health fail, and it goes on failing   *)
(* although the syncer and even a next loop live on (outbox_relay.go:55-63, *)
(* 111-129; README.md:515).                                                 *)
PanicReported == \A c \in Starts : loop[c] = "panicking" ~> []~Healthy

(* Nobody waits for ever on anybody: a Start call comes back although loops *)
(* and Shutdowns want the same lock, and a Shutdown comes back although it  *)
(* waits for loops that need the lock to end.  The exception is a Run loop  *)
(* that began after Shutdown had read the CancelFunc under the lock and     *)
(* before its wait was over (outbox_relay.go:74, 87, 131-157): that one     *)
(* Shutdown does not cancel, and if nobody else does and it polls for ever, *)
(* only the deadline of Shutdown helps.  A loop that was there before is no *)
(* excuse.                                                                  *)
StartReturns ==
  \A c \in Starts : call[c] = "idle" ~> call[c] \in {"refused", "noop", "started"}

Overlooked(k) == \E c \in behind[k] \cap Runs : Working(c) /\ c \notin cancelled

ShutdownReturns ==
  \A k \in Stops : stop[k] = "stored" ~> stop[k] \in {"nil", "error"} \/ []Overlooked(k)

(* A loop whose context is done gives the relay back, so that it can be     *)
(* started again.                                                           *)
LoopEnds == \A c \in Calls : c \in cancelled /\ Owns(c) ~> ~Owns(c)
-----------------------------------------------------------------------------
(* The inductive invariant behind the safety properties.                    *)

\* A Start call between Lock and Unlock is the holder of relayMu.
LockHeld == \A c \in Starts :
  call[c] \in {"locked", "checked", "spawned"} => relayMu = c

\* The wait group covers a loop until its last deferred function.
GroupCovers == \A c \in Calls : Owns(c) \/ loop[c] = "reset" => c \in relayWG

\* Shutdown has been through the lock.
PastLock(k) == stop[k] \notin {"idle", "stored"}

\* From then on no Start call is about to make a loop.
NoLateStart == \A k \in Stops :
  /\ stop[k] # "idle" => stopped
  /\ PastLock(k) => \A c \in Starts : call[c] # "checked"
  /\ stop[k] \in {"drained", "nil"} => \A c \in Starts : ~Working(c)

LifecycleInv == TypeOK /\ LockHeld /\ FlagsMatchOwner /\ GroupCovers /\ NoLateStart
=============================================================================
