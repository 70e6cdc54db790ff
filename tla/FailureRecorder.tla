-------------------------- MODULE FailureRecorder --------------------------
(***************************************************************************)
(* The ring buffer of failure samples (failures.go:34-104).  Its methods   *)
(* hold one mutex from beginning to end, so each is one step.              *)
(***************************************************************************)
EXTENDS Integers, Sequences

CONSTANTS
  Events,          \* failures, as far as anybody tells them apart
  NoEvent,         \* the zero FailureEvent
  BufferSize,      \* what the application asked for
  DefaultSize      \* defaultFailureBufferSize

ASSUME RecorderAssumption ==
  /\ NoEvent \notin Events
  /\ BufferSize \in Int
  /\ DefaultSize \in Nat \ {0}

Size == IF BufferSize <= 0 THEN DefaultSize ELSE BufferSize

VARIABLES
  buf, next, count,
  last, hasLast,
  recorded     \* history: every failure so far, in order

recorder == <<buf, next, count, last, hasLast, recorded>>

RecorderTypeOK ==
  /\ buf \in [0..Size - 1 -> Events \cup {NoEvent}]
  /\ next \in 0..Size - 1
  /\ count \in 0..Size
  /\ last \in Events \cup {NoEvent}
  /\ hasLast \in BOOLEAN
  /\ recorded \in Seq(Events)

RecorderInit ==
  /\ buf = [i \in 0..Size - 1 |-> NoEvent]
  /\ next = 0 /\ count = 0
  /\ last = NoEvent /\ hasLast = FALSE
  /\ recorded = <<>>

\* MUTANT: the next slot is not wrapped.
RecordUnwrappedMutant(e) ==
  /\ buf' = [buf EXCEPT ![next] = e]
  /\ next' = next + 1
  /\ count' = IF count < Size THEN count + 1 ELSE count
  /\ last' = e /\ hasLast' = TRUE
  /\ recorded' = Append(recorded, e)

\* MUTANT: a wrap forgets what was kept.
RecordForgetMutant(e) ==
  /\ buf' = [buf EXCEPT ![next] = e]
  /\ next' = (next + 1) % Size
  /\ count' = next + 1
  /\ last' = e /\ hasLast' = TRUE
  /\ recorded' = Append(recorded, e)

Record(e) ==
  /\ buf' = [buf EXCEPT ![next] = e]
  /\ next' = (next + 1) % Size
  /\ count' = IF count < Size THEN count + 1 ELSE count
  /\ last' = e /\ hasLast' = TRUE
  /\ recorded' = Append(recorded, e)

\* MUTANT: off by one, the oldest first.
SlotMutant(i) == IF next - i < 0 THEN next - i + Size ELSE next - i

\* The slot of the i-th newest failure, counted from 0.
Slot(i) == IF next - 1 - i < 0 THEN next - 1 - i + Size ELSE next - 1 - i

Recent(limit) ==
  [i \in 1..(IF limit <= 0 \/ limit > count THEN count ELSE limit) |-> buf[Slot(i - 1)]]

RecorderSpec == RecorderInit /\ [][\E e \in Events : Record(e)]_recorder

-----------------------------------------------------------------------------
Log == INSTANCE FailureLog WITH kept <- Recent(0)

(* The ring buffer is a log of the last Size failures, across its wrap      *)
(* (failures.go:58-62).                                                     *)
ImplementsLog == Log!Spec

\* How many of the failures so far a caller with this limit gets: no limit
\* (0 or less), or one beyond what is there, means all that the ring can keep.
Due(limit) ==
  LET kept == IF Len(recorded) < Size THEN Len(recorded) ELSE Size
  IN IF limit \in 1..kept THEN limit ELSE kept

NewestFirstFor(limit) ==
  Recent(limit) = [i \in 1..Due(limit) |-> recorded[Len(recorded) + 1 - i]]

(* RecentFailures(limit) returns the last failures of all that were ever    *)
(* recorded, the newest first (README.md:513), with no gap and none twice   *)
(* where the ring has wrapped (failures.go:58-62, 79-85), and the summary   *)
(* of GetMetrics the very last of them.                                     *)
RecentAreNewest ==
  /\ \A limit \in -1..Size + 1 : NewestFirstFor(limit)
  /\ hasLast <=> recorded # <<>>
  /\ hasLast => last = recorded[Len(recorded)]
=============================================================================
