----------------------- MODULE FailureRecorder_proofs -----------------------
(***************************************************************************)
(* The ring buffer is a log of the last Size failures, for every size.     *)
(***************************************************************************)
EXTENDS FailureRecorder, TLAPS

(* How the position of the next failure and the number of kept ones hang    *)
(* together, and which failure each slot holds (failures.go:58-62).         *)
RecorderInv ==
  /\ RecorderTypeOK
  /\ count < Size => next = count
  /\ count = IF Len(recorded) < Size THEN Len(recorded) ELSE Size
  /\ \A i \in 0..count - 1 : buf[Slot(i)] = recorded[Len(recorded) - i]
  /\ hasLast <=> count > 0
  /\ hasLast => last = recorded[Len(recorded)]

(* newFailureRecorder never makes an empty buffer (failures.go:44-46).      *)
LEMMA SizeIsPositive == Size \in Nat \ {0}
  BY RecorderAssumption DEF Size

(* What r.next = (r.next + 1) % len(r.buf) does (failures.go:59).           *)
LEMMA NextSlot ==
  ASSUME NEW a \in 0..Size - 1
  PROVE  (a + 1) % Size = IF a + 1 = Size THEN 0 ELSE a + 1
  <1>1. Size \in Nat \ {0}
    BY SizeIsPositive
  <1>2. CASE a + 1 = Size
    BY <1>1, <1>2
  <1>3. CASE a + 1 # Size
    BY <1>1, <1>3
  <1> QED BY <1>2, <1>3

(* A recorded failure comes first, the others move on by one, the oldest of *)
(* a full buffer is gone (failures.go:50-65, 76-84).                        *)
LEMMA RecordMovesTheOthers ==
  ASSUME RecorderInv, NEW e \in Events, Record(e)
  PROVE  /\ count' = IF count < Size THEN count + 1 ELSE Size
         /\ buf'[Slot(0)'] = e
         /\ \A i \in 1..count' - 1 : buf'[Slot(i)'] = buf[Slot(i - 1)]
  <1>1. /\ Size \in Nat \ {0}
        /\ next \in 0..Size - 1 /\ count \in 0..Size
        /\ DOMAIN buf = 0..Size - 1
    BY SizeIsPositive DEF RecorderInv, RecorderTypeOK
  <1>2. /\ buf' = [buf EXCEPT ![next] = e]
        /\ next' = (IF next + 1 = Size THEN 0 ELSE next + 1)
        /\ count' = (IF count < Size THEN count + 1 ELSE Size)
    BY <1>1, NextSlot DEF Record
  <1>3. /\ Slot(0)' = (IF next' - 1 < 0 THEN next' - 1 + Size ELSE next' - 1)
        /\ Slot(0)' = next
    BY <1>1, <1>2 DEF Slot, Size
  <1>4. ASSUME NEW i \in 1..count' - 1
        PROVE  buf'[Slot(i)'] = buf[Slot(i - 1)]
    <2>1. Slot(i)' = IF next' - 1 - i < 0 THEN next' - 1 - i + Size ELSE next' - 1 - i
      BY DEF Slot, Size
    <2>2. Slot(i - 1) = IF next - 1 - (i - 1) < 0 THEN next - 1 - (i - 1) + Size
                        ELSE next - 1 - (i - 1)
      BY DEF Slot
    <2>3. i \in Nat /\ i >= 1 /\ i <= Size - 1
      BY <1>1, <1>2
    <2>4. Slot(i)' = Slot(i - 1) /\ Slot(i - 1) # next /\ Slot(i - 1) \in 0..Size - 1
      BY <1>1, <1>2, <2>1, <2>2, <2>3
    <2> QED BY <1>1, <1>2, <2>4
  <1> QED BY <1>1, <1>2, <1>3, <1>4

(* A new recorder is an empty ring (failures.go:43-48).                     *)
LEMMA InitRecorder == RecorderInit => RecorderInv
  <1> SUFFICES ASSUME RecorderInit PROVE RecorderInv
    OBVIOUS
  <1>1. Size \in Nat \ {0}
    BY SizeIsPositive
  <1>2. buf \in [0..Size - 1 -> Events \cup {NoEvent}]
    BY DEF RecorderInit
  <1>3. next = 0 /\ count = 0 /\ last = NoEvent /\ hasLast = FALSE
    BY DEF RecorderInit
  <1>4. next \in 0..Size - 1 /\ count \in 0..Size
    BY <1>1, <1>3
  <1>5. last \in Events \cup {NoEvent} /\ hasLast \in BOOLEAN
    BY <1>3
  <1>6. recorded = <<>> /\ recorded \in Seq(Events) /\ Len(recorded) = 0
    BY DEF RecorderInit
  <1>7. RecorderTypeOK
    BY <1>2, <1>4, <1>5, <1>6 DEF RecorderTypeOK
  <1> QED BY <1>1, <1>3, <1>6, <1>7 DEF RecorderInv

(* record leaves the fields of the ring as the invariant wants them         *)
(* (failures.go:50-65).                                                     *)
LEMMA RecordKeepsInv ==
  ASSUME RecorderInv, NEW e \in Events, Record(e)
  PROVE  RecorderInv'
  <1>1. Size \in Nat \ {0} /\ Size' = Size
    BY SizeIsPositive DEF Size
  <1>2. next \in 0..Size - 1 /\ count \in 0..Size /\ (count < Size => next = count)
    BY DEF RecorderInv, RecorderTypeOK
  <1>3. next' = IF next + 1 = Size THEN 0 ELSE next + 1
    BY <1>2, NextSlot DEF Record
  <1>4. count' = IF count < Size THEN count + 1 ELSE Size
    BY <1>1, <1>2 DEF Record
  <1>5. next' \in 0..Size - 1 /\ count' \in 0..Size /\ (count' < Size => next' = count')
    BY <1>1, <1>2, <1>3, <1>4
  <1>6. buf' \in [0..Size - 1 -> Events \cup {NoEvent}]
    BY DEF Record, RecorderInv, RecorderTypeOK
  <1>7. last' = e /\ hasLast' = TRUE /\ count' > 0
    BY <1>1, <1>2, <1>4 DEF Record
  <1>8. buf'[Slot(0)'] = e /\ \A i \in 1..count' - 1 : buf'[Slot(i)'] = buf[Slot(i - 1)]
    BY RecordMovesTheOthers
  <1> DEFINE n == Len(recorded)
  <1>9. /\ recorded \in Seq(Events) /\ n \in Nat /\ recorded' \in Seq(Events)
        /\ Len(recorded') = n + 1 /\ recorded'[n + 1] = e
        /\ \A i \in 1..n : recorded'[i] = recorded[i]
    BY DEF Record, RecorderInv, RecorderTypeOK
  <1>10. /\ count = (IF n < Size THEN n ELSE Size)
         /\ \A i \in 0..count - 1 : buf[Slot(i)] = recorded[n - i]
    BY DEF RecorderInv
  <1>11. count' = IF Len(recorded') < Size THEN Len(recorded') ELSE Size
    BY <1>1, <1>4, <1>9, <1>10
  <1>12. ASSUME NEW i \in 0..count' - 1
         PROVE  buf'[Slot(i)'] = recorded'[Len(recorded') - i]
    <2>1. CASE i = 0
      BY <1>8, <1>9, <2>1
    <2>2. CASE i # 0
      <3>1. i \in 1..count' - 1 /\ i - 1 \in 0..count - 1
        BY <1>1, <1>2, <1>4, <2>2
      <3>2. buf'[Slot(i)'] = recorded[n - (i - 1)]
        BY <1>8, <1>10, <3>1
      <3>3. n - (i - 1) \in 1..n /\ Len(recorded') - i = n - (i - 1)
        BY <1>1, <1>9, <1>10, <3>1
      <3> QED BY <1>9, <3>2, <3>3
    <2> QED BY <2>1, <2>2
  <1>13. RecorderTypeOK'
    BY <1>1, <1>5, <1>6, <1>7, <1>9 DEF RecorderTypeOK
  <1>14. last' = recorded'[Len(recorded')]
    BY <1>7, <1>9
  <1> QED BY <1>1, <1>5, <1>7, <1>11, <1>12, <1>13, <1>14 DEF RecorderInv

(* Reading the ring changes nothing (failures.go:67-104).                   *)
LEMMA StutterKeepsInv ==
  ASSUME RecorderInv, UNCHANGED recorder
  PROVE  RecorderInv'
  BY DEF RecorderInv, RecorderTypeOK, recorder, Slot, Size

(* Type correctness of the ring, and how its fields hang together.          *)
THEOREM RecorderInvariant == RecorderSpec => []RecorderInv
  <1>1. RecorderInv /\ [\E e \in Events : Record(e)]_recorder => RecorderInv'
    BY RecordKeepsInv, StutterKeepsInv
  <1> QED BY InitRecorder, <1>1, PTL DEF RecorderSpec

(* RecentFailures gives the last failures, newest first, for every limit a  *)
(* caller may pass (failures.go:67-87).                                     *)
LEMMA NewestForEveryLimit ==
  ASSUME RecorderInv, NEW limit \in Int
  PROVE  NewestFirstFor(limit)
  <1>1. /\ Size \in Nat \ {0} /\ Len(recorded) \in Nat
        /\ count = (IF Len(recorded) < Size THEN Len(recorded) ELSE Size)
    BY SizeIsPositive DEF RecorderInv, RecorderTypeOK
  <1>2. Recent(limit) = [i \in 1..Due(limit) |-> buf[Slot(i - 1)]]
    BY <1>1 DEF Recent, Due
  <1>3. ASSUME NEW i \in 1..Due(limit)
        PROVE  buf[Slot(i - 1)] = recorded[Len(recorded) + 1 - i]
    <2>1. i - 1 \in 0..count - 1
      BY <1>1 DEF Due
    <2>2. buf[Slot(i - 1)] = recorded[Len(recorded) - (i - 1)]
      BY <2>1 DEF RecorderInv
    <2>3. Len(recorded) - (i - 1) = Len(recorded) + 1 - i
      BY <1>1, <2>1
    <2> QED BY <2>2, <2>3
  <1> QED BY <1>2, <1>3 DEF NewestFirstFor

(* What RecentFailures and the summary of GetMetrics return are the last of *)
(* all the failures there have been (failures.go:67-93).                    *)
LEMMA InvMeansNewest == RecorderInv => RecentAreNewest
  <1> SUFFICES ASSUME RecorderInv PROVE RecentAreNewest
    OBVIOUS
  <1>1. Size \in Nat \ {0}
    BY SizeIsPositive
  <1>2. \A limit \in -1..Size + 1 : NewestFirstFor(limit)
    BY <1>1, NewestForEveryLimit
  <1>3. recorded \in Seq(Events)
    BY DEF RecorderInv, RecorderTypeOK
  <1>4. recorded # <<>> <=> count > 0
    <2>1. recorded # <<>> <=> Len(recorded) > 0
      BY <1>3
    <2> QED BY <1>1, <1>3, <2>1 DEF RecorderInv
  <1> QED BY <1>2, <1>4 DEF RecentAreNewest, RecorderInv

(* RecentFailures gives the last failures of all there have been, newest    *)
(* first, and the summary the newest of them (README.md:513), for every     *)
(* buffer size and however often the ring has wrapped.                      *)
THEOREM NewestFirst == RecorderSpec => []RecentAreNewest
  BY RecorderInvariant, InvMeansNewest, PTL

(* The same for every limit that a caller may pass (failures.go:74-76).     *)
THEOREM NewestForAnyLimit ==
  ASSUME NEW limit \in Int
  PROVE  RecorderSpec => []NewestFirstFor(limit)
  <1>1. RecorderInv => NewestFirstFor(limit)
    BY NewestForEveryLimit
  <1> QED BY RecorderInvariant, <1>1, PTL

(* record puts the failure before the others and drops the oldest of a full *)
(* ring, which is what a log does (failures.go:50-65).                      *)
LEMMA RecordIsALogStep ==
  ASSUME RecorderInv, NEW e \in Events, Record(e)
  PROVE  Log!Record(e)
  <1>1. Size \in Nat \ {0} /\ count \in 0..Size
    BY SizeIsPositive DEF RecorderInv, RecorderTypeOK
  <1>2. Len(Recent(0)) = count /\ Recent(0) = [i \in 1..count |-> buf[Slot(i - 1)]]
    BY <1>1 DEF Recent
  <1>3. /\ count' = IF count < Size THEN count + 1 ELSE Size
        /\ buf'[Slot(0)'] = e
        /\ \A i \in 1..count' - 1 : buf'[Slot(i)'] = buf[Slot(i - 1)]
    BY RecordMovesTheOthers
  <1>4. Recent(0)' = [i \in 1..count' |-> buf'[Slot(i - 1)']]
    BY <1>1, <1>3 DEF Recent
  <1>5. Log!Least(Len(Recent(0)) + 1, Size) = count'
    BY <1>1, <1>2, <1>3 DEF Log!Least
  <1>6. ASSUME NEW i \in 1..count'
        PROVE  buf'[Slot(i - 1)'] = IF i = 1 THEN e ELSE Recent(0)[i - 1]
    <2>1. CASE i = 1
      BY <1>3, <2>1
    <2>2. CASE i # 1
      <3>1. i - 1 \in 1..count' - 1 /\ i - 1 \in 1..count
        BY <1>1, <1>3, <2>2
      <3> QED BY <1>2, <1>3, <2>2, <3>1
    <2> QED BY <2>1, <2>2
  <1> QED BY <1>4, <1>5, <1>6 DEF Log!Record

(* What every step of the program does to the recorder is a step of the log *)
(* or none.                                                                 *)
LEMMA StepOfTheLog ==
  ASSUME RecorderInv, [\E e \in Events : Record(e)]_recorder
  PROVE  [Log!Next]_(Recent(0))
  <1>1. CASE \E e \in Events : Record(e)
    BY <1>1, RecordIsALogStep DEF Log!Next
  <1>2. CASE UNCHANGED recorder
    BY <1>2 DEF recorder, Recent, Slot, Size
  <1> QED BY <1>1, <1>2

(* A new ring is an empty log (failures.go:43-48).                          *)
LEMMA InitOfTheLog == RecorderInit => Log!Init
  <1>1. RecorderInit => count = 0
    BY DEF RecorderInit
  <1>2. count = 0 => Recent(0) = [i \in 1..0 |-> buf[Slot(i - 1)]]
    BY DEF Recent
  <1>3. [i \in 1..0 |-> buf[Slot(i - 1)]] = <<>>
    OBVIOUS
  <1> QED BY <1>1, <1>2, <1>3 DEF Log!Init

(* The ring implements the log of the last Size failures, across its wrap,  *)
(* for every buffer size (failures.go:34-65).                               *)
THEOREM RingImplementsLog == RecorderSpec => ImplementsLog
  <1>1. RecorderInv /\ [\E e \in Events : Record(e)]_recorder => [Log!Next]_(Recent(0))
    BY StepOfTheLog
  <1> QED BY InitOfTheLog, RecorderInvariant, <1>1, PTL DEF RecorderSpec, ImplementsLog, Log!Spec
=============================================================================
