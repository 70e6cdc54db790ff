------------------------- MODULE OutboxRelay_proofs -------------------------
(***************************************************************************)
(* Proofs about OutboxRelay, for any number of rows, workers, documents    *)
(* and any configuration and bounds.                                       *)
(***************************************************************************)
EXTENDS OutboxRelay, FiniteSetTheorems, TLAPS

(* A time in the future is a time (outbox_store.go:103).                    *)
LEMMA TimeType ==
  ASSUME NEW t \in Nat, NEW d \in Nat
  PROVE  After(t, d) \in Nat
BY BoundsAssumption DEF After, Min2

(* The backoff is a positive delay.                                         *)
LEMMA BackoffType ==
  ASSUME NEW n \in Nat
  PROVE  Backoff(n) \in Nat /\ Backoff(n) >= 1
<1> DEFINE i == Min2(Max2(n - 1, 0), 8) + 1
<1>1. i \in 1..9
  BY DEF Min2, Max2
<1>2. BackoffFactor[i] \in Nat /\ BackoffFactor[i] >= 1
  BY <1>1 DEF BackoffFactor
<1> HIDE DEF i
<1>3. PICK f \in Nat : f = BackoffFactor[i] /\ f >= 1
  BY <1>2
<1>4. PollInterval * f \in Nat /\ PollInterval * f >= 1
  BY <1>3, ConfigAssumption
<1>5. QED
  BY <1>3, <1>4 DEF Backoff, i

(* Rows of the table keep their type under every rewrite.                    *)
LEMMA RowTypes ==
  ASSUME NEW rw \in RowType, NEW n \in Nat, NEW t \in Nat
  PROVE  /\ NoRow("absent") \in RowType
         /\ NoRow("pending") \in RowType
         /\ NoRow("deleted") \in RowType
         /\ Leased(rw, t, n) \in RowType
         /\ SentRow(rw) \in RowType
         /\ RetryRow(rw, n, t) \in RowType
         /\ DeadRow(rw, n) \in RowType
         /\ ReplayedRow(rw) \in RowType
BY DEF RowType, Statuses, NoRow, None, Leased, SentRow, RetryRow, DeadRow,
       ReplayedRow

(* What a claim and the results of a delivery make of the status            *)
(* (outbox_store.go, outbox_relay.go).                                      *)
LEMMA RowStatus ==
  ASSUME NEW rw \in RowType, NEW n, NEW t
  PROVE  /\ Leased(rw, t, n).status = "processing"
         /\ SentRow(rw).status = "sent"
         /\ RetryRow(rw, n, t).status = "pending"
         /\ DeadRow(rw, n).status = "dead"
         /\ ReplayedRow(rw).status = "pending"
BY DEF RowType, Leased, SentRow, RetryRow, DeadRow, ReplayedRow

(* The part of TypeOK about what the workers keep to themselves.            *)
WorkerTypeOK ==
  /\ pc \in [Workers -> {"idle", "claiming", "sending", "waiting", "replied"}]
  /\ at \in [Workers -> Nat]
  /\ todo \in [Workers -> SUBSET RowIds]
  /\ snap \in [Workers -> [RowIds -> Nat]]
  /\ held \in [Workers -> [RowIds -> Nat]]
  /\ answer \in [Workers -> Answers]

(* A crashed worker forgets its rows.                                       *)
LEMMA DropType ==
  ASSUME WorkerTypeOK, NEW p \in Workers, Drop(p)
  PROVE  WorkerTypeOK'
BY DEF WorkerTypeOK, Drop, NoTokens, Answers

(* Writing a result back changes one row and what the worker holds.         *)
LEMMA WriteBackType ==
  ASSUME TypeOK, NEW p \in Workers, NEW r \in RowIds, NEW new \in RowType,
         WriteBack(p, r, new)
  PROVE  TypeOK'
<1> USE DEF TypeOK
<1>1. UNCHANGED <<now, claims, es, orphans, accepted, admin, adminOps>>
  BY DEF WriteBack, esVars, adminVars
<1>2. Record(p, r) => failed' \in [RowIds -> [http : Nat, net : Nat]]
  <2>1. /\ [failed EXCEPT ![r].net = @ + 1] \in [RowIds -> [http : Nat, net : Nat]]
        /\ [failed EXCEPT ![r].http = @ + 1] \in [RowIds -> [http : Nat, net : Nat]]
    <3> DEFINE F == [http : Nat, net : Nat]
    <3>1. failed \in [RowIds -> F] /\ failed[r] \in F
      OBVIOUS
    <3>2. /\ [failed[r] EXCEPT !.net = @ + 1] \in F
          /\ [failed[r] EXCEPT !.http = @ + 1] \in F
      BY <3>1
    <3> HIDE DEF F, TypeOK
    <3>3. ASSUME NEW v \in F
          PROVE  [failed EXCEPT ![r] = v] \in [RowIds -> F]
      BY <3>1
    <3>4. /\ [failed EXCEPT ![r] = [failed[r] EXCEPT !.net = @ + 1]]
                \in [RowIds -> F]
          /\ [failed EXCEPT ![r] = [failed[r] EXCEPT !.http = @ + 1]]
                \in [RowIds -> F]
      BY <3>2, <3>3
    <3>5. QED
      BY <3>4 DEF F
  <2>2. CASE answer[p] = "ok"
    BY <2>2 DEF Record
  <2>3. CASE answer[p] = "none"
    BY <2>1, <2>3 DEF Record
  <2>4. CASE answer[p] \notin {"ok", "none"}
    BY <2>1, <2>4 DEF Record
  <2>5. QED
    BY <2>2, <2>3, <2>4
<1>3. row' \in [RowIds -> RowType]
  BY DEF WriteBack
<1>4. failed' \in [RowIds -> [http : Nat, net : Nat]]
  BY <1>2 DEF WriteBack
<1>5. faults' \in Nat
  BY DEF WriteBack, Fault
<1>6. NextInBatch(p, r) => WorkerTypeOK'
  BY DEF NextInBatch, WorkerTypeOK, Answers
<1>7. WorkerTypeOK'
  BY <1>6, DropType DEF WriteBack, WorkerTypeOK
<1>8. QED
  BY <1>1, <1>3, <1>4, <1>5, <1>7 DEF WorkerTypeOK

(* Elasticsearch applies an operation to one document and answers.          *)
LEMMA EsApplyType ==
  ASSUME TypeOK, NEW r \in RowIds, NEW token \in Nat, EsApply(r, token)
  PROVE  /\ es' \in [Docs -> RowIds \cup {Absent}]
         /\ accepted' \in SUBSET Requests
         /\ EsStatus(r) \in Answers
BY DocAssumption DEF TypeOK, EsApply, EsStatus, Requests, Answers

(* Every step preserves the types, one action at a time.                    *)
LEMMA TypeStep ==
  ASSUME TypeOK, [Next]_vars
  PROVE  TypeOK'
<1> USE DEF TypeOK
<1>1. CASE Tick
  BY <1>1 DEF Tick, workerVars, esVars, adminVars
<1>2. ASSUME NEW r \in RowIds, Insert(r)
      PROVE  TypeOK'
  <2>1. row' \in [RowIds -> RowType]
    BY <1>2, RowTypes DEF Insert
  <2>2. QED
    BY <1>2, <2>1 DEF Insert, AdminStep, workerVars, esVars, adminVars
<1>3. ASSUME NEW p \in Workers, QueryCandidates(p)
      PROVE  TypeOK'
  <2>1. Candidates \in SUBSET RowIds
    BY DEF Candidates
  <2>2. [r \in RowIds |-> IF r \in Candidates THEN row[r].attempts ELSE 0]
          \in [RowIds -> Nat]
    BY DEF RowType
  <2>3. WorkerTypeOK'
    BY <1>3, <2>1, <2>2 DEF QueryCandidates, WorkerTypeOK
  <2>4. QED
    BY <1>3, <2>3 DEF QueryCandidates, WorkerTypeOK, esVars, adminVars
<1>4. ASSUME NEW p \in Workers, NEW r \in RowIds, TryClaim(p, r)
      PROVE  TypeOK'
  <2>0. at[p] \in Nat /\ claims[r] \in Nat /\ row[r] \in RowType /\ Lease \in Nat
    BY ConfigAssumption
  <2> HIDE DEF TypeOK
  <2>1. After(at[p], Lease) \in Nat /\ NewToken(r) \in Nat
    <3>1. After(at[p], Lease) \in Nat
      BY <2>0, TimeType
    <3>2. NewToken(r) \in Nat
      BY <2>0 DEF NewToken
    <3>3. QED
      BY <3>1, <3>2
  <2>2a. Leased(row[r], After(at[p], Lease), NewToken(r)) \in RowType
    BY <2>0, <2>1, RowTypes
  <2> USE DEF TypeOK
  <2>2. /\ row' \in [RowIds -> RowType]
        /\ claims' \in [RowIds -> Nat]
        /\ held' \in [Workers -> [RowIds -> Nat]]
    <3>1. row' \in [RowIds -> RowType]
      BY <1>4, <2>2a DEF TryClaim
    <3>2. claims' \in [RowIds -> Nat]
      BY <1>4 DEF TryClaim
    <3>3. held' \in [Workers -> [RowIds -> Nat]]
      <4>1. [held EXCEPT ![p][r] = NewToken(r)] \in [Workers -> [RowIds -> Nat]]
        BY <2>1
      <4>2. QED
        BY <1>4, <4>1 DEF TryClaim
    <3>4. QED
      BY <3>1, <3>2, <3>3
  <2>3. /\ pc' \in [Workers -> {"idle", "claiming", "sending", "waiting",
                                "replied"}]
        /\ at' \in [Workers -> Nat]
        /\ todo' \in [Workers -> SUBSET RowIds]
        /\ snap' \in [Workers -> [RowIds -> Nat]]
    BY <1>4, <2>2 DEF TryClaim, NextCandidate
  <2>4. QED
    BY <1>4, <2>2, <2>3 DEF TryClaim, esVars, adminVars
<1>5. ASSUME NEW p \in Workers, NEW r \in RowIds, Send(p, r)
      PROVE  TypeOK'
  BY <1>5 DEF Send, Answers, esVars, adminVars
<1>6. ASSUME NEW p \in Workers, NEW r \in RowIds, EsHandles(p, r)
      PROVE  TypeOK'
  BY <1>6, EsApplyType DEF EsHandles, Replied, Waiting, adminVars
<1>7. ASSUME NEW p \in Workers, NEW r \in RowIds, MarkSent(p, r)
      PROVE  TypeOK'
  BY <1>7, RowTypes, WriteBackType DEF MarkSent
<1>8. ASSUME NEW p \in Workers, NEW r \in RowIds, MarkRetry(p, r)
      PROVE  TypeOK'
  <2>1. snap[p][r] + 1 \in Nat
    OBVIOUS
  <2>2. After(now, Backoff(snap[p][r] + 1)) \in Nat
    BY <2>1, BackoffType, TimeType
  <2>3. QED
    BY <1>8, <2>1, <2>2, RowTypes, WriteBackType DEF MarkRetry
<1>9. ASSUME NEW p \in Workers, NEW r \in RowIds, MarkDead(p, r)
      PROVE  TypeOK'
  <2>1. snap[p][r] + 1 \in Nat /\ row[r] \in RowType
    OBVIOUS
  <2>2. DeadRow(row[r], snap[p][r] + 1) \in RowType
    BY <2>1, RowTypes
  <2>3. QED
    BY <1>9, <2>2, WriteBackType DEF MarkDead
<1>10. ASSUME NEW p \in Workers, ClaimError(p)
       PROVE  TypeOK'
  BY <1>10, DropType DEF ClaimError, WorkerTypeOK, Fault, esVars, adminVars
<1>11. ASSUME NEW p \in Workers, Crash(p)
       PROVE  TypeOK'
  <2>1. WorkerTypeOK'
    BY <1>11, DropType DEF Crash, WorkerTypeOK
  <2>2. orphans' \in SUBSET Requests
    BY <1>11 DEF Crash, Requests
  <2>3. QED
    BY <1>11, <2>1, <2>2 DEF Crash, WorkerTypeOK, Fault, adminVars
<1>12. ASSUME NEW p \in Workers, NEW r \in RowIds,
              EsHandlesAnswerLost(p, r) \/ EsHandlesRepeated(p, r)
       PROVE  TypeOK'
  <2>1. CASE EsHandlesAnswerLost(p, r)
    BY <2>1, EsApplyType
       DEF EsHandlesAnswerLost, Replied, Waiting, Answers, Fault, adminVars
  <2>2. CASE EsHandlesRepeated(p, r)
    BY <2>2, EsApplyType DEF EsHandlesRepeated, Fault, workerVars, adminVars
  <2>3. QED
    BY <1>12, <2>1, <2>2
<1>13. ASSUME NEW p \in Workers, NEW r \in RowIds, EsRefuses(p, r)
       PROVE  TypeOK'
  BY <1>13 DEF EsRefuses, Replied, Answers, Fault, esVars, adminVars
<1>14. ASSUME NEW p \in Workers, NEW r \in RowIds, NoResponse(p, r)
       PROVE  TypeOK'
  <2>1. orphans' \in SUBSET Requests
    BY <1>14 DEF NoResponse, Requests
  <2>2. QED
    BY <1>14, <2>1 DEF NoResponse, Replied, Answers, Fault, adminVars
<1>15. ASSUME NEW o \in orphans, EsHandlesOrphan(o)
       PROVE  TypeOK'
  <2>1. o.id \in RowIds /\ o.token \in Nat
    BY DEF Requests
  <2>2. QED
    BY <1>15, <2>1, EsApplyType DEF EsHandlesOrphan, workerVars, adminVars
<1>16. CASE Operator
  <2>1. ASSUME NEW ids, Replay(ids)
        PROVE  /\ row' \in [RowIds -> RowType]
               /\ failed' \in [RowIds -> [http : Nat, net : Nat]]
    BY <2>1, RowTypes DEF Replay
  <2>2. ASSUME NEW ids, Cleanup(ids)
        PROVE  row' \in [RowIds -> RowType] /\ failed' = failed
    BY <2>2, RowTypes DEF Cleanup
  <2>3. AdminUnchanged => UNCHANGED <<now, claims, pc, at, todo, snap, held,
                                      answer, es, orphans, accepted, faults>>
    BY DEF AdminUnchanged, workerVars, esVars
  <2>4. CASE ReplayAtOnce
    BY <2>1, <2>3, <2>4 DEF ReplayAtOnce, AdminStep
  <2>5. CASE SelectForReplay
    BY <2>3, <2>5 DEF SelectForReplay, AdminStep, DeadRows
  <2>6. CASE ReplaySelected
    BY <2>1, <2>3, <2>6 DEF ReplaySelected
  <2>7. CASE CleanupAtOnce
    BY <2>2, <2>3, <2>7 DEF CleanupAtOnce, AdminStep
  <2>8. CASE SelectForCleanup
    BY <2>3, <2>8 DEF SelectForCleanup, AdminStep, OldRows, Existing
  <2>9. CASE CleanupSelected
    BY <2>2, <2>3, <2>9 DEF CleanupSelected
  <2>10. QED
    BY <1>16, <2>4, <2>5, <2>6, <2>7, <2>8, <2>9 DEF Operator
<1>17. CASE UNCHANGED vars
  BY <1>17 DEF vars
<1>18. QED
  BY <1>1, <1>2, <1>3, <1>4, <1>5, <1>6, <1>7, <1>8, <1>9, <1>10, <1>11,
     <1>12, <1>13, <1>14, <1>15, <1>16, <1>17
  DEF Next, Work, Disturb

(* Type correctness: every reachable state of the table, the workers and    *)
(* Elasticsearch is of the declared types.                                  *)
THEOREM TypeCorrect == Spec => []TypeOK
<1>1. Init => TypeOK
  BY RowTypes DEF Init, TypeOK, RowType, Statuses, NoRow, NoTokens, Answers,
     None, Absent
<1>2. TypeOK /\ [Next]_vars => TypeOK'
  BY TypeStep
<1>3. QED
  BY <1>1, <1>2, PTL DEF Spec

----------------------------------------------------------------------------
(* What a step does to the tokens: workers give tokens up, or one worker    *)
(* takes the next token of one row.                                         *)
LEMMA TokenStep ==
  ASSUME TypeOK, [Next]_vars
  PROVE  \/ /\ claims' = claims
            /\ \A p \in Workers : \A r \in RowIds :
                 held'[p][r] \in {held[p][r], 0}
         \/ \E p \in Workers : \E r \in RowIds :
              /\ claims' = [claims EXCEPT ![r] = @ + 1]
              /\ held' = [held EXCEPT ![p][r] = claims[r] + 1]
<1> DEFINE Released == /\ claims' = claims
                       /\ \A p \in Workers : \A r \in RowIds :
                            held'[p][r] \in {held[p][r], 0}
<1>1. UNCHANGED <<held, claims>> => Released
  OBVIOUS
<1>2. ASSUME NEW p \in Workers, Drop(p), claims' = claims
      PROVE  Released
  BY <1>2 DEF Drop, NoTokens, TypeOK
<1>3. ASSUME NEW p \in Workers, NEW r \in RowIds, NEW new, WriteBack(p, r, new)
      PROVE  Released
  BY <1>2, <1>3 DEF WriteBack, NextInBatch, TypeOK
<1>4. ASSUME NEW p \in Workers, Work(p)
      PROVE  \/ Released
             \/ \E q \in Workers : \E r \in RowIds :
                  /\ claims' = [claims EXCEPT ![r] = @ + 1]
                  /\ held' = [held EXCEPT ![q][r] = claims[r] + 1]
  <2>1. CASE QueryCandidates(p)
    BY <1>1, <2>1 DEF QueryCandidates
  <2>2. ASSUME NEW r \in RowIds, TryClaim(p, r)
        PROVE  \/ Released
               \/ /\ claims' = [claims EXCEPT ![r] = @ + 1]
                  /\ held' = [held EXCEPT ![p][r] = claims[r] + 1]
    BY <1>1, <2>2 DEF TryClaim, NewToken
  <2>3. ASSUME NEW r \in RowIds,
               Send(p, r) \/ EsHandles(p, r)
        PROVE  Released
    BY <1>1, <2>3 DEF Send, EsHandles, Replied
  <2>4. ASSUME NEW r \in RowIds,
               MarkSent(p, r) \/ MarkRetry(p, r) \/ MarkDead(p, r)
        PROVE  Released
    BY <1>3, <2>4 DEF MarkSent, MarkRetry, MarkDead
  <2>5. QED
    BY <1>4, <2>1, <2>2, <2>3, <2>4 DEF Work
<1>5. ASSUME NEW p \in Workers, Disturb(p)
      PROVE  Released
  <2>1. CASE ClaimError(p) \/ Crash(p)
    BY <1>2, <2>1 DEF ClaimError, Crash
  <2>2. ASSUME NEW r \in RowIds,
               \/ EsHandlesAnswerLost(p, r)
               \/ EsHandlesRepeated(p, r)
               \/ EsRefuses(p, r)
               \/ NoResponse(p, r)
        PROVE  Released
    BY <1>1, <2>2 DEF EsHandlesAnswerLost, EsHandlesRepeated, EsRefuses,
       NoResponse, Replied, workerVars
  <2>3. QED
    BY <1>5, <2>1, <2>2 DEF Disturb
<1>6. CASE \/ Tick
           \/ \E r \in RowIds : Insert(r)
           \/ \E o \in orphans : EsHandlesOrphan(o)
           \/ UNCHANGED vars
  BY <1>1, <1>6 DEF Tick, Insert, EsHandlesOrphan, workerVars, vars
<1>7. CASE Operator
  <2>1. AdminUnchanged
    BY <1>7 DEF Operator, ReplayAtOnce, SelectForReplay, ReplaySelected,
                CleanupAtOnce, SelectForCleanup, CleanupSelected
  <2>2. QED
    BY <1>1, <2>1 DEF AdminUnchanged, workerVars
<1>8. QED
  BY <1>4, <1>5, <1>6, <1>7 DEF Next

(* Tokens stay issued and unique.                                           *)
LEMMA TokensStep ==
  ASSUME TypeOK, TypeOK', TokensIssued, TokensUnique, [Next]_vars
  PROVE  TokensIssued' /\ TokensUnique'
<1>1. CASE /\ claims' = claims
           /\ \A p \in Workers : \A r \in RowIds :
                held'[p][r] \in {held[p][r], 0}
  <2>1. \A p \in Workers : \A r \in RowIds :
          held[p][r] \in Nat /\ claims[r] \in Nat
    BY DEF TypeOK
  <2>2. TokensIssued'
    BY <1>1, <2>1 DEF TokensIssued
  <2>3. TokensUnique'
    BY <1>1, <2>1 DEF TokensUnique
  <2>4. QED
    BY <2>2, <2>3
<1>2. ASSUME NEW p \in Workers, NEW r \in RowIds,
             claims' = [claims EXCEPT ![r] = @ + 1],
             held' = [held EXCEPT ![p][r] = claims[r] + 1]
      PROVE  TokensIssued' /\ TokensUnique'
  <2>1. \A q \in Workers : \A s \in RowIds :
          /\ held[q][s] \in Nat /\ claims[s] \in Nat
          /\ held'[q][s] = IF q = p /\ s = r THEN claims[r] + 1 ELSE held[q][s]
          /\ claims'[s] = IF s = r THEN claims[r] + 1 ELSE claims[s]
    BY <1>2 DEF TypeOK
  <2>2. TokensIssued'
    BY <2>1 DEF TokensIssued
  <2>3. TokensUnique'
    BY <2>1 DEF TokensIssued, TokensUnique
  <2>4. QED
    BY <2>2, <2>3
<1>3. QED
  BY <1>1, <1>2, TokenStep

(* A 2xx in hand stays backed when only worker p changes and p's own answer  *)
(* is backed.                                                                *)
LEMMA AnswersFrame ==
  ASSUME AnswersBacked, NEW p \in Workers,
         \A q \in Workers \ {p} :
           pc'[q] = pc[q] /\ answer'[q] = answer[q] /\ held'[q] = held[q],
         accepted \subseteq accepted',
         \A r \in RowIds :
           pc'[p] = "replied" /\ answer'[p] = "ok" /\ IsFirst(r, HeldBy(p)') =>
             [id |-> r, token |-> held'[p][r]] \in accepted'
  PROVE  AnswersBacked'
<1> SUFFICES ASSUME NEW q \in Workers, NEW r \in RowIds,
                    pc'[q] = "replied", answer'[q] = "ok",
                    IsFirst(r, HeldBy(q)')
             PROVE  [id |-> r, token |-> held'[q][r]] \in accepted'
  BY DEF AnswersBacked, IsFirst
<1>1. CASE q = p
  BY <1>1
<1>2. CASE q # p
  <2>1. HeldBy(q)' = HeldBy(q)
    BY <1>2 DEF HeldBy
  <2>2. QED
    BY <1>2, <2>1 DEF AnswersBacked
<1>3. QED
  BY <1>1, <1>2

(* Only one row is the next of a batch.                                     *)
LEMMA FirstUnique ==
  ASSUME NEW S \in SUBSET RowIds, NEW r, NEW s, IsFirst(r, S), IsFirst(s, S)
  PROVE  r = s
BY RowIdsAssumption DEF IsFirst

(* An answer the worker has was given by Elasticsearch, after every step.   *)
LEMMA AnswersStep ==
  ASSUME TypeOK, AnswersBacked, [Next]_vars
  PROVE  AnswersBacked'
<1>1. ASSUME UNCHANGED <<pc, held, answer>>, accepted \subseteq accepted'
      PROVE  AnswersBacked'
  <2>1. \A p \in Workers : HeldBy(p)' = HeldBy(p)
    BY <1>1 DEF HeldBy
  <2>2. QED
    BY <1>1, <2>1 DEF AnswersBacked
<1>2. ASSUME NEW p \in Workers,
             \A q \in Workers \ {p} :
               pc'[q] = pc[q] /\ answer'[q] = answer[q] /\ held'[q] = held[q],
             accepted \subseteq accepted',
             pc'[p] # "replied" \/ answer'[p] # "ok"
      PROVE  AnswersBacked'
  BY <1>2, AnswersFrame
<1>3. ASSUME NEW p \in Workers, Drop(p), accepted' = accepted
      PROVE  AnswersBacked'
  <2>1. /\ pc'[p] = "idle"
        /\ \A q \in Workers \ {p} :
             pc'[q] = pc[q] /\ answer'[q] = answer[q] /\ held'[q] = held[q]
    BY <1>3 DEF Drop, TypeOK
  <2>2. QED
    BY <1>2, <1>3, <2>1
<1>4. ASSUME NEW p \in Workers, NEW r \in RowIds, NEW new, WriteBack(p, r, new)
      PROVE  AnswersBacked'
  <2>1. accepted' = accepted
    BY <1>4 DEF WriteBack, esVars
  <2>2. CASE NextInBatch(p, r)
    <3>1. /\ pc'[p] # "replied"
          /\ \A q \in Workers \ {p} :
               pc'[q] = pc[q] /\ answer'[q] = answer[q] /\ held'[q] = held[q]
      BY <2>2 DEF NextInBatch, TypeOK
    <3>2. QED
      BY <1>2, <2>1, <3>1
  <2>3. QED
    BY <1>3, <1>4, <2>1, <2>2 DEF WriteBack
<1>5. ASSUME NEW p \in Workers, NEW status, Replied(p, status),
             status # "ok", accepted \subseteq accepted'
      PROVE  AnswersBacked'
  <2>1. /\ answer'[p] # "ok"
        /\ \A q \in Workers \ {p} :
             pc'[q] = pc[q] /\ answer'[q] = answer[q] /\ held'[q] = held[q]
    BY <1>5 DEF Replied, TypeOK
  <2>2. QED
    BY <1>2, <1>5, <2>1
<1>6. ASSUME NEW r, NEW token, EsApply(r, token)
      PROVE  accepted \subseteq accepted'
  BY <1>6 DEF EsApply
<1>7. ASSUME NEW p \in Workers, Work(p)
      PROVE  AnswersBacked'
  <2>1. CASE QueryCandidates(p)
    <3>1. /\ pc'[p] # "replied" /\ accepted' = accepted
          /\ \A q \in Workers \ {p} :
               pc'[q] = pc[q] /\ answer'[q] = answer[q] /\ held'[q] = held[q]
      BY <2>1 DEF QueryCandidates, esVars, TypeOK
    <3>2. QED
      BY <1>2, <3>1
  <2>2. ASSUME NEW r \in RowIds, TryClaim(p, r)
        PROVE  AnswersBacked'
    <3>1. accepted' = accepted /\ answer' = answer
      BY <2>2 DEF TryClaim, esVars
    <3>2. /\ pc'[p] # "replied"
          /\ \A q \in Workers \ {p} : pc'[q] = pc[q]
      BY <2>2 DEF TryClaim, NextCandidate, TypeOK
    <3>3. \A q \in Workers \ {p} : held'[q] = held[q]
      BY <2>2 DEF TryClaim, TypeOK
    <3>4. QED
      BY <1>2, <3>1, <3>2, <3>3
  <2>3. ASSUME NEW r \in RowIds, Send(p, r)
        PROVE  AnswersBacked'
    <3>1. /\ pc'[p] # "replied" \/ answer'[p] # "ok"
          /\ accepted' = accepted
          /\ \A q \in Workers \ {p} :
               pc'[q] = pc[q] /\ answer'[q] = answer[q] /\ held'[q] = held[q]
      BY <2>3 DEF Send, esVars, TypeOK
    <3>2. QED
      BY <1>2, <3>1
  <2>4. ASSUME NEW r \in RowIds, EsHandles(p, r)
        PROVE  AnswersBacked'
    <3>1. /\ held' = held
          /\ answer'[p] = EsStatus(r)
          /\ \A q \in Workers \ {p} :
               pc'[q] = pc[q] /\ answer'[q] = answer[q] /\ held'[q] = held[q]
      BY <2>4 DEF EsHandles, Replied, TypeOK
    <3>2. accepted \subseteq accepted'
      BY <1>6, <2>4 DEF EsHandles
    <3>3. EsStatus(r) = "ok" => [id |-> r, token |-> held[p][r]] \in accepted'
      BY <2>4 DEF EsHandles, EsApply
    <3>4. ASSUME NEW s \in RowIds, IsFirst(s, HeldBy(p)')
          PROVE  s = r
      BY <2>4, <3>1, <3>4, FirstUnique DEF EsHandles, Waiting, HeldBy
    <3>5. QED
      BY <3>1, <3>2, <3>3, <3>4, AnswersFrame
  <2>5. ASSUME NEW r \in RowIds,
               MarkSent(p, r) \/ MarkRetry(p, r) \/ MarkDead(p, r)
        PROVE  AnswersBacked'
    BY <1>4, <2>5 DEF MarkSent, MarkRetry, MarkDead
  <2>6. QED
    BY <1>7, <2>1, <2>2, <2>3, <2>4, <2>5 DEF Work
<1>8. ASSUME NEW p \in Workers, Disturb(p)
      PROVE  AnswersBacked'
  <2>1. CASE ClaimError(p) \/ Crash(p)
    BY <1>3, <2>1 DEF ClaimError, Crash, esVars
  <2>2. ASSUME NEW r \in RowIds, EsHandlesAnswerLost(p, r)
        PROVE  AnswersBacked'
    BY <1>5, <1>6, <2>2 DEF EsHandlesAnswerLost
  <2>3. ASSUME NEW r \in RowIds, EsRefuses(p, r) \/ NoResponse(p, r)
        PROVE  AnswersBacked'
    BY <1>5, <2>3 DEF EsRefuses, NoResponse, esVars
  <2>4. ASSUME NEW r \in RowIds, EsHandlesRepeated(p, r)
        PROVE  AnswersBacked'
    BY <1>1, <1>6, <2>4 DEF EsHandlesRepeated, workerVars
  <2>5. QED
    BY <1>8, <2>1, <2>2, <2>3, <2>4 DEF Disturb
<1>9. CASE Tick \/ (\E r \in RowIds : Insert(r)) \/ UNCHANGED vars
  BY <1>1, <1>9 DEF Tick, Insert, workerVars, esVars, vars
<1>10. ASSUME NEW o \in orphans, EsHandlesOrphan(o)
       PROVE  AnswersBacked'
  BY <1>1, <1>6, <1>10 DEF EsHandlesOrphan, workerVars
<1>11. CASE Operator
  <2>1. AdminUnchanged
    BY <1>11 DEF Operator, ReplayAtOnce, SelectForReplay, ReplaySelected,
                 CleanupAtOnce, SelectForCleanup, CleanupSelected
  <2>2. QED
    BY <1>1, <2>1 DEF AdminUnchanged, workerVars, esVars
<1>12. QED
  BY <1>7, <1>8, <1>9, <1>10, <1>11 DEF Next

(* No worker is ahead of the clock, after every step.                       *)
LEMMA ClocksStep ==
  ASSUME TypeOK, ClocksBehind, [Next]_vars
  PROVE  ClocksBehind'
<1> DEFINE Kept == /\ now' >= now
                   /\ \A p \in Workers : at'[p] \in {at[p], 0, now}
<1>1. now \in Nat /\ \A p \in Workers : at[p] \in Nat
  BY DEF TypeOK
<1>2. ASSUME UNCHANGED <<now, at>>
      PROVE  Kept
  BY <1>1, <1>2
<1>3. ASSUME NEW p \in Workers, Drop(p), now' = now
      PROVE  Kept
  BY <1>1, <1>3 DEF Drop, TypeOK
<1>4. ASSUME NEW p \in Workers, NEW r \in RowIds, NEW new, WriteBack(p, r, new)
      PROVE  Kept
  BY <1>2, <1>3, <1>4 DEF WriteBack, NextInBatch
<1>5. ASSUME NEW p \in Workers, Work(p)
      PROVE  Kept
  <2>1. CASE QueryCandidates(p)
    BY <1>1, <2>1 DEF QueryCandidates, TypeOK
  <2>2. ASSUME NEW r \in RowIds, TryClaim(p, r)
        PROVE  Kept
    BY <1>1, <2>2 DEF TryClaim, NextCandidate, TypeOK
  <2>3. ASSUME NEW r \in RowIds, Send(p, r) \/ EsHandles(p, r)
        PROVE  Kept
    BY <1>2, <2>3 DEF Send, EsHandles, Replied
  <2>4. ASSUME NEW r \in RowIds,
               MarkSent(p, r) \/ MarkRetry(p, r) \/ MarkDead(p, r)
        PROVE  Kept
    BY <1>4, <2>4 DEF MarkSent, MarkRetry, MarkDead
  <2>5. QED
    BY <1>5, <2>1, <2>2, <2>3, <2>4 DEF Work
<1>6. ASSUME NEW p \in Workers, Disturb(p)
      PROVE  Kept
  BY <1>2, <1>3, <1>6 DEF Disturb, ClaimError, Crash, EsHandlesAnswerLost,
     EsHandlesRepeated, EsRefuses, NoResponse, Replied, workerVars
<1>7. ASSUME Tick
      PROVE  Kept
  <2>1. now' = now + 1 /\ at' = at
    BY <1>7 DEF Tick, workerVars
  <2>2. QED
    BY <1>1, <2>1
<1>8. ASSUME \/ \E r \in RowIds : Insert(r)
             \/ \E o \in orphans : EsHandlesOrphan(o)
             \/ UNCHANGED vars
      PROVE  Kept
  <2>1. UNCHANGED <<now, at>>
    BY <1>8 DEF Insert, EsHandlesOrphan, workerVars, vars
  <2>2. QED
    BY <1>2, <2>1
<1>9. ASSUME Operator
      PROVE  Kept
  <2>1. AdminUnchanged
    BY <1>9 DEF Operator, ReplayAtOnce, SelectForReplay, ReplaySelected,
                CleanupAtOnce, SelectForCleanup, CleanupSelected
  <2>2. UNCHANGED <<now, at>>
    BY <2>1 DEF AdminUnchanged, workerVars
  <2>3. QED
    BY <1>2, <2>2
<1>10. Kept
  BY <1>5, <1>6, <1>7, <1>8, <1>9 DEF Next
<1>11. now' \in Nat
  BY TypeStep DEF TypeOK
<1>12. QED
  BY <1>1, <1>10, <1>11 DEF ClocksBehind

(* The inductive invariant of the lease protocol.                            *)
THEOREM FencingInvariant == Spec => []FencingInv
<1>1. Init => FencingInv
  <2> SUFFICES ASSUME Init
               PROVE  FencingInv
    OBVIOUS
  <2>1. TypeOK
    BY RowTypes DEF Init, TypeOK, RowType, Statuses, NoRow, NoTokens, Answers,
       None, Absent
  <2>2. TokensIssued /\ TokensUnique
    BY DEF Init, TokensIssued, TokensUnique, NoTokens
  <2>3. AnswersBacked /\ ClocksBehind
    BY DEF Init, AnswersBacked, ClocksBehind
  <2>4. QED
    BY <2>1, <2>2, <2>3 DEF FencingInv
<1>2. FencingInv /\ [Next]_vars => FencingInv'
  BY TypeStep, TokensStep, AnswersStep, ClocksStep DEF FencingInv
<1>3. QED
  BY <1>1, <1>2, PTL DEF Spec

(* Two workers never both hold a lease of a row that the write-back of      *)
(* updateClaimedRow would accept.                                           *)
THEOREM LeasesExclude == Spec => []LeaseExclusive
<1>1. FencingInv => LeaseExclusive
  BY DEF FencingInv, TokensUnique, LeaseExclusive, Holds, LeaseMatches
<1>2. QED
  BY <1>1, FencingInvariant, PTL

----------------------------------------------------------------------------
(* How the table changes.                                                   *)

(* A row is changed by its insertion, by a claim, by the holder of its       *)
(* lease, or by an operator command.                                        *)
LEMMA RowStep ==
  ASSUME TypeOK, [Next]_vars, NEW r \in RowIds, row'[r] # row[r]
  PROVE  \/ row[r].status = "absent" /\ row'[r].status = "pending"
         \/ \E p \in Workers :
              /\ Grantable(row[r], at[p])
              /\ row'[r] = Leased(row[r], After(at[p], Lease), NewToken(r))
         \/ \E p \in Workers :
              /\ Holds(p, r) /\ IsFirst(r, HeldBy(p)) /\ pc[p] = "replied"
              /\ WritesBack(p, r)
              /\ row'[r].status = "sent" => answer[p] = "ok"
              /\ row'[r].status \in {"sent", "pending", "dead"}
         \/ /\ adminVars' # adminVars
            /\ row'[r].status \in {"pending", "deleted"}
<1> DEFINE ByHolder(p) ==
      /\ Holds(p, r) /\ IsFirst(r, HeldBy(p)) /\ pc[p] = "replied"
      /\ WritesBack(p, r)
      /\ row'[r].status = "sent" => answer[p] = "ok"
      /\ row'[r].status \in {"sent", "pending", "dead"}
<1>1. ASSUME NEW p \in Workers, NEW s \in RowIds, NEW new, WriteBack(p, s, new)
      PROVE  /\ r = s /\ row'[r] = new
             /\ Holds(p, r) /\ IsFirst(r, HeldBy(p)) /\ pc[p] = "replied"
             /\ WritesBack(p, r)
  <2>1. row' = [row EXCEPT ![s] = new] /\ LeaseMatches(p, s)
    BY <1>1 DEF WriteBack
  <2>2. r = s /\ row'[r] = new
    BY <2>1 DEF TypeOK
  <2>3. Holds(p, r) /\ IsFirst(r, HeldBy(p)) /\ pc[p] = "replied"
    BY <1>1, <2>1, <2>2 DEF WriteBack, Holds, IsFirst, HeldBy
  <2>4. NextInBatch(p, s) \/ Drop(p)
    BY <1>1 DEF WriteBack
  <2>5. held \in [Workers -> [RowIds -> Nat]] /\ pc \in [Workers -> {"idle", "claiming", "sending", "waiting", "replied"}]
    BY DEF TypeOK
  <2>6. /\ held'[p][r] = 0
        /\ \A q \in Workers \ {p} : pc'[q] = pc[q] /\ held'[q] = held[q]
    <3>1. CASE NextInBatch(p, s)
      BY <2>2, <2>5, <3>1 DEF NextInBatch
    <3>2. CASE Drop(p)
      BY <2>5, <3>2 DEF Drop, NoTokens
    <3>3. QED
      BY <2>4, <3>1, <3>2
  <2>7. WritesBack(p, r)
    BY <2>3, <2>6 DEF WritesBack, Holds, LeaseMatches
  <2>8. QED
    BY <2>2, <2>3, <2>7
<1>2. ASSUME NEW p \in Workers, NEW s \in RowIds, MarkSent(p, s)
      PROVE  ByHolder(p)
  <2>1. row[s] \in RowType
    BY DEF TypeOK
  <2>2. QED
    BY <1>1, <1>2, <2>1, RowStatus DEF MarkSent
<1>3. ASSUME NEW p \in Workers, NEW s \in RowIds, MarkRetry(p, s)
      PROVE  ByHolder(p)
  <2>1. row[s] \in RowType
    BY DEF TypeOK
  <2>2. QED
    BY <1>1, <1>3, <2>1, RowStatus DEF MarkRetry
<1>4. ASSUME NEW p \in Workers, NEW s \in RowIds, MarkDead(p, s)
      PROVE  ByHolder(p)
  <2>1. row[s] \in RowType
    BY DEF TypeOK
  <2>2. QED
    BY <1>1, <1>4, <2>1, RowStatus DEF MarkDead
<1>5. ASSUME NEW p \in Workers, NEW s \in RowIds, TryClaim(p, s)
      PROVE  /\ Grantable(row[r], at[p])
             /\ row'[r] = Leased(row[r], After(at[p], Lease), NewToken(r))
  BY <1>5 DEF TryClaim, TypeOK
<1>6. ASSUME NEW p \in Workers,
             \/ QueryCandidates(p)
             \/ \E s \in RowIds : Send(p, s) \/ EsHandles(p, s)
             \/ Disturb(p)
      PROVE  FALSE
  BY <1>6 DEF QueryCandidates, Send, EsHandles, Replied, Disturb, ClaimError,
     Crash, EsHandlesAnswerLost, EsHandlesRepeated, EsRefuses, NoResponse
<1>7. ASSUME NEW s \in RowIds, Insert(s)
      PROVE  row[r].status = "absent" /\ row'[r].status = "pending"
  BY <1>7 DEF Insert, NoRow, TypeOK
<1>8. ASSUME Operator
      PROVE  adminVars' # adminVars /\ row'[r].status \in {"pending", "deleted"}
  <2>1. ASSUME NEW ids, Replay(ids)
        PROVE  row'[r].status = "pending"
    <3>1. row[r] \in RowType
      BY DEF TypeOK
    <3>2. row'[r] = ReplayedRow(row[r])
      BY <2>1 DEF Replay
    <3>3. QED
      BY <3>1, <3>2, RowStatus
  <2>2. ASSUME NEW ids, Cleanup(ids)
        PROVE  row'[r].status = "deleted"
    BY <2>2 DEF Cleanup, NoRow, TypeOK
  <2>3. AdminStep => adminVars' # adminVars
    BY DEF AdminStep, adminVars, TypeOK
  <2>4. CASE ReplayAtOnce \/ CleanupAtOnce
    BY <2>1, <2>2, <2>3, <2>4 DEF ReplayAtOnce, CleanupAtOnce
  <2>5. CASE SelectForReplay \/ SelectForCleanup
    BY <2>5 DEF SelectForReplay, SelectForCleanup
  <2>6. CASE ReplaySelected
    BY <2>1, <2>6 DEF ReplaySelected, adminVars
  <2>7. CASE CleanupSelected
    BY <2>2, <2>7 DEF CleanupSelected, adminVars
  <2>8. QED
    BY <1>8, <2>4, <2>5, <2>6, <2>7 DEF Operator
<1>9. ~Tick /\ ~(\E o \in orphans : EsHandlesOrphan(o)) /\ ~UNCHANGED vars
  BY DEF Tick, EsHandlesOrphan, vars
<1>10. QED
  BY <1>2, <1>3, <1>4, <1>5, <1>6, <1>7, <1>8, <1>9 DEF Next, Work

(* A row turns sent only when Elasticsearch accepted the request made under  *)
(* the lease the row has.                                                   *)
THEOREM NoFalseAcknowledgement == Spec => SentMeansAccepted
<1> DEFINE Step == \A r \in RowIds :
             row[r].status = "processing" /\ row'[r].status = "sent" =>
               [id |-> r, token |-> row[r].token] \in accepted
<1>1. FencingInv /\ [Next]_vars => Step
  <2> SUFFICES ASSUME FencingInv, [Next]_vars, NEW r \in RowIds,
                      row[r].status = "processing", row'[r].status = "sent"
               PROVE  [id |-> r, token |-> row[r].token] \in accepted
    OBVIOUS
  <2>1. PICK p \in Workers : /\ Holds(p, r) /\ IsFirst(r, HeldBy(p))
                             /\ pc[p] = "replied" /\ answer[p] = "ok"
    BY RowStep DEF FencingInv, Leased, RowType, TypeOK
  <2>2. [id |-> r, token |-> held[p][r]] \in accepted
    BY <2>1 DEF FencingInv, AnswersBacked
  <2>3. QED
    BY <2>1, <2>2 DEF Holds, LeaseMatches
<1>2. QED
  BY <1>1, FencingInvariant, PTL DEF Spec, SentMeansAccepted

(* Until a lease runs out, the row is changed by an operator command or by   *)
(* the write-back of the worker that has the lease, and by no other worker   *)
(* (outbox_store.go:147-163, 246-259).                                       *)
THEOREM LeasesProtect == Spec => LeaseRespected
<1> DEFINE Step == \A r \in RowIds :
             /\ row[r].status = "processing"
             /\ now < row[r].leasedUntil
             /\ row'[r] # row[r]
             => adminVars' # adminVars \/ \E p \in Workers : WritesBack(p, r)
<1>1. FencingInv /\ [Next]_vars => Step
  <2> SUFFICES ASSUME FencingInv, [Next]_vars, NEW r \in RowIds,
                      row[r].status = "processing",
                      now < row[r].leasedUntil, row'[r] # row[r],
                      ~\E p \in Workers : WritesBack(p, r)
               PROVE  adminVars' # adminVars
    OBVIOUS
  <2>1. ASSUME NEW p \in Workers, Grantable(row[r], at[p])
        PROVE  FALSE
    BY <2>1 DEF FencingInv, TypeOK, RowType, ClocksBehind, Grantable, Free
  <2>2. QED
    BY <2>1, RowStep DEF FencingInv
<1>2. QED
  BY <1>1, FencingInvariant, PTL DEF Spec, LeaseRespected

(* No worker takes a row before its scheduled retry.                        *)
THEOREM RetriesWait == Spec => BackoffRespected
<1> DEFINE Step == \A r \in RowIds :
             row[r].status = "pending" /\ row'[r].status = "processing" =>
               row[r].retryAt <= now
<1>1. FencingInv /\ [Next]_vars => Step
  <2> SUFFICES ASSUME FencingInv, [Next]_vars, NEW r \in RowIds,
                      row[r].status = "pending", row'[r].status = "processing"
               PROVE  row[r].retryAt <= now
    OBVIOUS
  <2>1. PICK p \in Workers : Grantable(row[r], at[p])
    BY RowStep DEF FencingInv
  <2>2. QED
    BY <2>1 DEF FencingInv, TypeOK, RowType, ClocksBehind, Grantable, Due, None
<1>2. QED
  BY <1>1, FencingInvariant, PTL DEF Spec, BackoffRespected

----------------------------------------------------------------------------
(* The relay implements the queue of OutboxQueue.                           *)

(* Only rows that were inserted are candidates, claimed or asked about.     *)
RowsKnown ==
  /\ \A p \in Workers : \A r \in RowIds :
       held[p][r] # 0 \/ r \in todo[p] => row[r].status # "absent"
  /\ \A o \in orphans : row[o.id].status # "absent"

(* A row that was inserted never looks as if it had not been.               *)
LEMMA InsertedStays ==
  ASSUME TypeOK, [Next]_vars, NEW r \in RowIds, row[r].status # "absent"
  PROVE  row'[r].status # "absent"
<1>1. row[r] \in RowType
  BY DEF TypeOK
<1>2. ASSUME NEW t, NEW n
      PROVE  Leased(row[r], t, n).status = "processing"
  BY <1>1, RowStatus
<1>3. CASE row'[r] = row[r]
  BY <1>3
<1>4. CASE row'[r] # row[r]
  <2>1. ASSUME NEW p \in Workers,
               row'[r] = Leased(row[r], After(at[p], Lease), NewToken(r))
        PROVE  row'[r].status # "absent"
    BY <1>2, <2>1
  <2>2. QED
    BY <1>4, <2>1, RowStep
<1>5. QED
  BY <1>3, <1>4

(* A worker's batch and its candidates grow only by rows it could read.     *)
LEMMA RowsTakenUp ==
  ASSUME TypeOK, [Next]_vars, NEW p \in Workers, NEW r \in RowIds
  PROVE  /\ held'[p][r] # 0 => held[p][r] # 0 \/ Grantable(row[r], at[p])
         /\ r \in todo'[p] => r \in todo[p] \/ r \in Candidates
<1> DEFINE Taken == /\ held'[p][r] # 0 =>
                         held[p][r] # 0 \/ Grantable(row[r], at[p])
                    /\ r \in todo'[p] => r \in todo[p] \/ r \in Candidates
<1>1. ASSUME UNCHANGED <<held, todo>>
      PROVE  Taken
  BY <1>1
<1>2. ASSUME NEW q \in Workers, Drop(q)
      PROVE  Taken
  BY <1>2 DEF Drop, NoTokens, TypeOK
<1>3. ASSUME NEW q \in Workers, NEW s \in RowIds, NEW new, WriteBack(q, s, new)
      PROVE  Taken
  BY <1>2, <1>3 DEF WriteBack, NextInBatch, TypeOK
<1>4. ASSUME NEW q \in Workers, Work(q)
      PROVE  Taken
  <2>1. CASE QueryCandidates(q)
    BY <2>1 DEF QueryCandidates, TypeOK
  <2>2. ASSUME NEW s \in RowIds, TryClaim(q, s)
        PROVE  Taken
    <3>1. held'[p][r] # 0 => held[p][r] # 0 \/ Grantable(row[r], at[p])
      <4>1. CASE held' = held
        BY <4>1
      <4>2. CASE /\ Grantable(row[s], at[q])
                 /\ held' = [held EXCEPT ![q][s] = NewToken(s)]
        <5>1. (p = q /\ r = s) \/ held'[p][r] = held[p][r]
          BY <4>2 DEF TypeOK
        <5>2. QED
          BY <4>2, <5>1
      <4>3. QED
        BY <2>2, <4>1, <4>2 DEF TryClaim
    <3>2. r \in todo'[p] => r \in todo[p]
      BY <2>2 DEF TryClaim, NextCandidate, TypeOK
    <3>3. QED
      BY <3>1, <3>2
  <2>3. ASSUME NEW s \in RowIds, Send(q, s) \/ EsHandles(q, s)
        PROVE  Taken
    BY <1>1, <2>3 DEF Send, EsHandles, Replied
  <2>4. ASSUME NEW s \in RowIds,
               MarkSent(q, s) \/ MarkRetry(q, s) \/ MarkDead(q, s)
        PROVE  Taken
    BY <1>3, <2>4 DEF MarkSent, MarkRetry, MarkDead
  <2>5. QED
    BY <1>4, <2>1, <2>2, <2>3, <2>4 DEF Work
<1>5. ASSUME NEW q \in Workers, Disturb(q)
      PROVE  Taken
  BY <1>1, <1>2, <1>5 DEF Disturb, ClaimError, Crash, EsHandlesAnswerLost,
     EsHandlesRepeated, EsRefuses, NoResponse, Replied, workerVars
<1>6. CASE \/ Tick
           \/ \E s \in RowIds : Insert(s)
           \/ \E o \in orphans : EsHandlesOrphan(o)
           \/ UNCHANGED vars
  BY <1>1, <1>6 DEF Tick, Insert, EsHandlesOrphan, workerVars, vars
<1>7. CASE Operator
  <2>1. AdminUnchanged
    BY <1>7 DEF Operator, ReplayAtOnce, SelectForReplay, ReplaySelected,
                CleanupAtOnce, SelectForCleanup, CleanupSelected
  <2>2. QED
    BY <1>1, <2>1 DEF AdminUnchanged, workerVars
<1>8. QED
  BY <1>4, <1>5, <1>6, <1>7 DEF Next

(* A request given up by its sender is one about a row of its batch.        *)
LEMMA OrphansStep ==
  ASSUME TypeOK, [Next]_vars, NEW o \in orphans', o \notin orphans
  PROVE  \E p \in Workers : \E r \in RowIds : o.id = r /\ held[p][r] # 0
<1>1. ASSUME NEW p \in Workers, NEW r \in RowIds, Waiting(p, r)
      PROVE  held[p][r] # 0
  BY <1>1 DEF Waiting, IsFirst, HeldBy
<1>2. ASSUME NEW p \in Workers, NEW r \in RowIds,
             MarkSent(p, r) \/ MarkRetry(p, r) \/ MarkDead(p, r)
      PROVE  orphans' = orphans
  BY <1>2 DEF MarkSent, MarkRetry, MarkDead, WriteBack, esVars
<1>3. ASSUME NEW p \in Workers, Work(p)
      PROVE  orphans' = orphans
  BY <1>2, <1>3 DEF Work, QueryCandidates, TryClaim, Send, EsHandles, esVars
<1>4. ASSUME NEW p \in Workers, Disturb(p)
      PROVE  \E r \in RowIds : o.id = r /\ held[p][r] # 0
  <2>1. CASE ClaimError(p)
    BY <2>1 DEF ClaimError, esVars
  <2>2. CASE Crash(p)
    BY <1>1, <2>2 DEF Crash
  <2>3. ASSUME NEW r \in RowIds,
               EsHandlesAnswerLost(p, r) \/ EsHandlesRepeated(p, r)
               \/ EsRefuses(p, r)
        PROVE  orphans' = orphans
    BY <2>3 DEF EsHandlesAnswerLost, EsHandlesRepeated, EsRefuses, esVars
  <2>4. ASSUME NEW r \in RowIds, NoResponse(p, r)
        PROVE  o.id = r /\ held[p][r] # 0
    BY <1>1, <2>4 DEF NoResponse
  <2>5. QED
    BY <1>4, <2>1, <2>2, <2>3, <2>4 DEF Disturb
<1>5. ASSUME \/ Tick
             \/ \E r \in RowIds : Insert(r)
             \/ \E x \in orphans : EsHandlesOrphan(x)
             \/ UNCHANGED vars
      PROVE  FALSE
  BY <1>5 DEF Tick, Insert, EsHandlesOrphan, esVars, vars
<1>6. ASSUME Operator
      PROVE  FALSE
  <2>1. AdminUnchanged
    BY <1>6 DEF Operator, ReplayAtOnce, SelectForReplay, ReplaySelected,
                CleanupAtOnce, SelectForCleanup, CleanupSelected
  <2>2. QED
    BY <2>1 DEF AdminUnchanged, esVars
<1>7. QED
  BY <1>3, <1>4, <1>5, <1>6 DEF Next

(* Every step keeps to rows that exist.                                     *)
LEMMA RowsKnownStep ==
  ASSUME TypeOK, RowsKnown, [Next]_vars
  PROVE  RowsKnown'
<1>1. ASSUME NEW p \in Workers, NEW r \in RowIds,
             held'[p][r] # 0 \/ r \in todo'[p]
      PROVE  row'[r].status # "absent"
  <2>1. \/ held[p][r] # 0 \/ r \in todo[p]
        \/ Grantable(row[r], at[p]) \/ r \in Candidates
    BY <1>1, RowsTakenUp
  <2>2. row[r].status # "absent"
    BY <2>1 DEF RowsKnown, Grantable, Candidates, Candidate, Free
  <2>3. QED
    BY <2>2, InsertedStays
<1>2. ASSUME NEW o \in orphans'
      PROVE  row'[o.id].status # "absent"
  <2>1. CASE o \in orphans
    <3>1. o.id \in RowIds /\ row[o.id].status # "absent"
      BY <2>1 DEF RowsKnown, TypeOK, Requests
    <3>2. QED
      BY <3>1, InsertedStays
  <2>2. CASE o \notin orphans
    <3>1. PICK p \in Workers : \E r \in RowIds : o.id = r /\ held[p][r] # 0
      BY <2>2, OrphansStep
    <3>2. o.id \in RowIds /\ row[o.id].status # "absent"
      BY <3>1 DEF RowsKnown
    <3>3. QED
      BY <3>2, InsertedStays
  <2>3. QED
    BY <2>1, <2>2
<1>3. QED
  BY <1>1, <1>2 DEF RowsKnown

(* What the queue sees of the table and of Elasticsearch.                   *)
EventStates == [r \in RowIds |-> QueueState(row[r].status)]
EventsTaken == {a.id : a \in accepted}

(* A statement that leaves requests alone and writes one row moves at most   *)
(* that row's event.                                                        *)
LEMMA EventMoves ==
  ASSUME TypeOK, NEW r \in RowIds, NEW new,
         row' = [row EXCEPT ![r] = new], accepted' = accepted
  PROVE  /\ EventStates' = [EventStates EXCEPT ![r] = QueueState(new.status)]
         /\ EventsTaken' = EventsTaken
<1>1. \A q \in RowIds : row'[q] = IF q = r THEN new ELSE row[q]
  BY DEF TypeOK
<1>2. \A q \in RowIds :
        EventStates'[q] =
          IF q = r THEN QueueState(new.status) ELSE EventStates[q]
  BY <1>1 DEF EventStates
<1>3. EventStates' = [EventStates EXCEPT ![r] = QueueState(new.status)]
  BY <1>2 DEF EventStates
<1>4. QED
  BY <1>3 DEF EventsTaken

(* A request Elasticsearch handles is an event taken by the consumer, or     *)
(* changes nothing.                                                         *)
LEMMA HandledMeansTaken ==
  ASSUME TypeOK, NEW r \in RowIds, NEW token, EsApply(r, token), row' = row,
         row[r].status # "absent"
  PROVE  Queue!Take(r) \/ UNCHANGED <<EventStates, EventsTaken>>
<1>1. EventStates' = EventStates
  BY DEF EventStates
<1>2. CASE EsStatus(r) # "ok"
  BY <1>1, <1>2 DEF EsApply, EventsTaken
<1>3. CASE EsStatus(r) = "ok"
  <2>1. EventsTaken' = EventsTaken \cup {r}
    <3>1. accepted' = accepted \cup {[id |-> r, token |-> token]}
      BY <1>3 DEF EsApply
    <3> DEFINE a == [id |-> r, token |-> token]
    <3>2. a.id = r
      OBVIOUS
    <3> HIDE DEF a
    <3>3. accepted' = accepted \cup {a}
      BY <3>1 DEF a
    <3>4. QED
      BY <3>2, <3>3 DEF EventsTaken
  <2>2. EventStates[r] # "absent"
    BY DEF EventStates, QueueState, TypeOK, RowType, Statuses
  <2>3. QED
    BY <1>1, <2>1, <2>2 DEF Queue!Take, EventStates, EventsTaken
<1>4. QED
  BY <1>2, <1>3

(* The result of a delivery: delivered if the consumer took the event,       *)
(* failed, or queued again.                                                 *)
LEMMA WriteBackMoves ==
  ASSUME TypeOK, NEW p \in Workers, NEW r \in RowIds, NEW new,
         WriteBack(p, r, new),
         \/ new.status = "sent" /\ r \in EventsTaken
         \/ new.status \in {"pending", "dead"}
  PROVE  Queue!Deliver(r) \/ Queue!Fail(r) \/ UNCHANGED <<EventStates, EventsTaken>>
<1>1. accepted' = accepted
  BY DEF WriteBack, esVars
<1>2. CASE row' = row
  BY <1>1, <1>2 DEF EventStates, EventsTaken
<1>3. CASE LeaseMatches(p, r) /\ row' = [row EXCEPT ![r] = new]
  <2>1. EventStates[r] = "queued"
    BY <1>3 DEF EventStates, QueueState, LeaseMatches
  <2>2. /\ EventStates' = [EventStates EXCEPT ![r] = QueueState(new.status)]
        /\ EventsTaken' = EventsTaken
    BY <1>1, <1>3, EventMoves
  <2>3. CASE new.status = "sent" /\ r \in EventsTaken
    <3>1. QueueState(new.status) = "delivered"
      BY <2>3 DEF QueueState
    <3>2. QED
      BY <2>1, <2>2, <2>3, <3>1
      DEF Queue!Deliver, Queue!Move, EventStates, EventsTaken
  <2>4. CASE new.status = "dead"
    <3>1. QueueState(new.status) = "failed"
      BY <2>4 DEF QueueState
    <3>2. QED
      BY <2>1, <2>2, <3>1 DEF Queue!Fail, Queue!Move, EventStates, EventsTaken
  <2>5. CASE new.status = "pending"
    <3>1. QueueState(new.status) = "queued"
      BY <2>5 DEF QueueState
    <3>2. EventStates' = EventStates
      BY <2>1, <2>2, <3>1 DEF EventStates
    <3>3. QED
      BY <2>2, <3>2
  <2>6. QED
    BY <2>3, <2>4, <2>5
<1>4. QED
  BY <1>2, <1>3 DEF WriteBack

(* A replay or a cleanup is an operator command of the queue.               *)
LEMMA CommandMoves ==
  ASSUME TypeOK, NEW ids \in SUBSET Existing, accepted' = accepted
  PROVE  /\ Replay(ids) => Queue!MoveAll(ids, "queued")
         /\ Cleanup(ids) => Queue!MoveAll(ids, "purged")
<1>1. \A r \in ids : r \in RowIds /\ EventStates[r] \notin {"absent", "purged"}
  BY DEF Existing, EventStates, QueueState, Statuses
<1>2. EventsTaken' = EventsTaken
  BY DEF EventsTaken
<1>3. ASSUME Replay(ids)
      PROVE  Queue!MoveAll(ids, "queued")
  <2>1. \A r \in ids : row'[r].status = "pending"
    BY <1>3, <1>1, RowStatus DEF Replay, TypeOK
  <2>2. \A r \in RowIds \ ids : row'[r] = row[r]
    BY <1>3 DEF Replay
  <2>3. EventStates' = [r \in RowIds |->
                          IF r \in ids THEN "queued" ELSE EventStates[r]]
    <3>1. QueueState("pending") = "queued"
      BY DEF QueueState
    <3>2. QED
      BY <2>1, <2>2, <3>1 DEF EventStates
  <2>4. QED
    BY <1>1, <1>2, <2>3 DEF Queue!MoveAll, EventStates, EventsTaken
<1>4. ASSUME Cleanup(ids)
      PROVE  Queue!MoveAll(ids, "purged")
  <2>1. \A r \in ids : row'[r].status = "deleted"
    BY <1>4, <1>1 DEF Cleanup, NoRow
  <2>2. \A r \in RowIds \ ids : row'[r] = row[r]
    BY <1>4 DEF Cleanup
  <2>3. EventStates' = [r \in RowIds |->
                          IF r \in ids THEN "purged" ELSE EventStates[r]]
    <3>1. QueueState("deleted") = "purged"
      BY DEF QueueState
    <3>2. QED
      BY <2>1, <2>2, <3>1 DEF EventStates
  <2>4. QED
    BY <1>1, <1>2, <2>3 DEF Queue!MoveAll, EventStates, EventsTaken
<1>5. QED
  BY <1>3, <1>4

(* Every step of the relay is a step of the queue, or the queue stutters.   *)
LEMMA QueueStep ==
  ASSUME FencingInv, RowsKnown, [Next]_vars
  PROVE  Queue!Next \/ UNCHANGED <<EventStates, EventsTaken>>
<1> DEFINE Goal == Queue!Next \/ UNCHANGED <<EventStates, EventsTaken>>
<1>0. TypeOK
  BY DEF FencingInv
<1>1. ASSUME UNCHANGED <<row, accepted>>
      PROVE  Goal
  BY <1>1 DEF EventStates, EventsTaken
<1>2. ASSUME NEW r \in RowIds, NEW token, EsApply(r, token), row' = row,
             row[r].status # "absent"
      PROVE  Goal
  BY <1>0, <1>2, HandledMeansTaken DEF Queue!Next
<1>3. ASSUME NEW r \in RowIds, Insert(r)
      PROVE  Goal
  <2>1. row' = [row EXCEPT ![r] = NoRow("pending")] /\ accepted' = accepted
        /\ row[r].status = "absent"
    BY <1>3 DEF Insert, esVars
  <2>2. /\ EventStates' = [EventStates EXCEPT ![r] =
                             QueueState(NoRow("pending").status)]
        /\ EventsTaken' = EventsTaken
    BY <1>0, <2>1, EventMoves
  <2>3. /\ EventStates[r] = "absent"
        /\ QueueState(NoRow("pending").status) = "queued"
    BY <2>1 DEF EventStates, QueueState, NoRow
  <2>4. Queue!Enqueue(r)
    BY <2>2, <2>3 DEF Queue!Enqueue, Queue!Move, EventStates, EventsTaken
  <2>5. QED
    BY <2>4 DEF Queue!Next
<1>4. ASSUME NEW p \in Workers, NEW r \in RowIds, TryClaim(p, r)
      PROVE  Goal
  <2>1. accepted' = accepted
    BY <1>4 DEF TryClaim, esVars
  <2>2. CASE row' = row
    BY <1>1, <2>1, <2>2
  <2>3. CASE /\ Grantable(row[r], at[p])
             /\ row' = [row EXCEPT ![r] =
                          Leased(@, After(at[p], Lease), NewToken(r))]
    <3> DEFINE new == Leased(row[r], After(at[p], Lease), NewToken(r))
    <3>1. new.status = "processing"
      BY <1>0, RowStatus DEF TypeOK
    <3>2. EventStates[r] = "queued"
      BY <2>3 DEF EventStates, QueueState, Grantable, Free
    <3> HIDE DEF new
    <3>3. /\ EventStates' = [EventStates EXCEPT ![r] = QueueState(new.status)]
          /\ EventsTaken' = EventsTaken
      <4>1. row' = [row EXCEPT ![r] = new]
        BY <2>3 DEF new
      <4>2. QED
        BY <1>0, <2>1, <4>1, EventMoves
    <3>4. QueueState(new.status) = "queued"
      BY <3>1 DEF QueueState
    <3>5. EventStates' = EventStates
      BY <3>2, <3>3, <3>4 DEF EventStates
    <3>6. QED
      BY <3>3, <3>5
  <2>4. QED
    BY <1>4, <2>2, <2>3 DEF TryClaim
<1>5. ASSUME NEW p \in Workers, NEW r \in RowIds, NEW new,
             WriteBack(p, r, new),
             \/ new.status = "sent" /\ r \in EventsTaken
             \/ new.status \in {"pending", "dead"}
      PROVE  Goal
  BY <1>0, <1>5, WriteBackMoves DEF Queue!Next
<1>6. ASSUME NEW p \in Workers, NEW r \in RowIds, MarkSent(p, r)
      PROVE  Goal
  <2>1. [id |-> r, token |-> held[p][r]] \in accepted
    BY <1>6 DEF FencingInv, AnswersBacked, MarkSent, WriteBack
  <2>2. r \in EventsTaken
    <3>1. PICK a \in accepted : a = [id |-> r, token |-> held[p][r]]
      BY <2>1
    <3>2. a.id = r
      BY <3>1
    <3>3. QED
      BY <3>2 DEF EventsTaken
  <2>3. SentRow(row[r]).status = "sent"
    BY <1>0, RowStatus DEF TypeOK
  <2>4. QED
    BY <1>5, <1>6, <2>2, <2>3 DEF MarkSent
<1>7. ASSUME NEW p \in Workers, NEW r \in RowIds,
             MarkRetry(p, r) \/ MarkDead(p, r)
      PROVE  Goal
  <2>1. \A n, t : /\ RetryRow(row[r], n, t).status = "pending"
                  /\ DeadRow(row[r], n).status = "dead"
    <3>1. row[r] \in RowType
      BY <1>0 DEF TypeOK
    <3>2. QED
      BY <3>1, RowStatus
  <2>2. CASE MarkRetry(p, r)
    BY <1>5, <2>1, <2>2 DEF MarkRetry
  <2>3. CASE MarkDead(p, r)
    BY <1>5, <2>1, <2>3 DEF MarkDead
  <2>4. QED
    BY <1>7, <2>2, <2>3
<1>8. ASSUME NEW p \in Workers, NEW r \in RowIds, Waiting(p, r),
             EsApply(r, held[p][r]), row' = row
      PROVE  Goal
  <2>1. row[r].status # "absent"
    BY <1>8 DEF RowsKnown, Waiting, IsFirst, HeldBy
  <2>2. QED
    BY <1>2, <1>8, <2>1
<1>9. ASSUME NEW p \in Workers, Work(p)
      PROVE  Goal
  <2>1. CASE QueryCandidates(p)
    BY <1>1, <2>1 DEF QueryCandidates, esVars
  <2>2. ASSUME NEW r \in RowIds, Send(p, r)
        PROVE  Goal
    BY <1>1, <2>2 DEF Send, esVars
  <2>3. ASSUME NEW r \in RowIds, EsHandles(p, r)
        PROVE  Goal
    BY <1>8, <2>3 DEF EsHandles, Replied
  <2>4. QED
    BY <1>4, <1>6, <1>7, <1>9, <2>1, <2>2, <2>3 DEF Work
<1>10. ASSUME NEW p \in Workers, Disturb(p)
       PROVE  Goal
  <2>1. CASE ClaimError(p) \/ Crash(p)
    BY <1>1, <2>1 DEF ClaimError, Crash, esVars
  <2>2. ASSUME NEW r \in RowIds,
               EsHandlesAnswerLost(p, r) \/ EsHandlesRepeated(p, r)
        PROVE  Goal
    BY <1>8, <2>2 DEF EsHandlesAnswerLost, EsHandlesRepeated, Replied
  <2>3. ASSUME NEW r \in RowIds, EsRefuses(p, r) \/ NoResponse(p, r)
        PROVE  Goal
    BY <1>1, <2>3 DEF EsRefuses, NoResponse, Replied, esVars
  <2>4. QED
    BY <1>10, <2>1, <2>2, <2>3 DEF Disturb
<1>11. ASSUME NEW o \in orphans, EsHandlesOrphan(o)
       PROVE  Goal
  <2>1. o.id \in RowIds /\ row[o.id].status # "absent"
    BY <1>0 DEF RowsKnown, TypeOK, Requests
  <2>2. EsApply(o.id, o.token) /\ row' = row
    BY <1>11 DEF EsHandlesOrphan
  <2>3. QED
    BY <1>2, <2>1, <2>2
<1>12. CASE Tick \/ UNCHANGED vars
  BY <1>1, <1>12 DEF Tick, esVars, vars
<1>13. CASE Operator
  <2>1. accepted' = accepted
    <3>1. AdminUnchanged
      BY <1>13 DEF Operator, ReplayAtOnce, SelectForReplay, ReplaySelected,
                   CleanupAtOnce, SelectForCleanup, CleanupSelected
    <3>2. QED
      BY <3>1 DEF AdminUnchanged, esVars
  <2>2. ASSUME NEW ids \in SUBSET Existing, Replay(ids) \/ Cleanup(ids)
        PROVE  Goal
    <3>1. ids \in SUBSET RowIds
      BY DEF Existing
    <3>2. QED
      BY <1>0, <2>1, <2>2, <3>1, CommandMoves DEF Queue!Next
  <2>3. CASE ReplayAtOnce
    <3>1. DeadRows \in SUBSET Existing
      BY DEF DeadRows, Existing, Statuses
    <3>2. QED
      BY <2>2, <2>3, <3>1 DEF ReplayAtOnce
  <2>4. CASE SelectForReplay \/ SelectForCleanup
    BY <1>1, <2>1, <2>4 DEF SelectForReplay, SelectForCleanup
  <2>5. CASE ReplaySelected
    BY <2>2, <2>5 DEF ReplaySelected
  <2>6. CASE CleanupAtOnce
    <3>1. \A last \in RowIds : OldRows(last) \in SUBSET Existing
      BY DEF OldRows
    <3>2. QED
      BY <2>2, <2>6, <3>1 DEF CleanupAtOnce
  <2>7. CASE CleanupSelected
    BY <2>2, <2>7 DEF CleanupSelected
  <2>8. QED
    BY <1>13, <2>3, <2>4, <2>5, <2>6, <2>7 DEF Operator
<1>14. QED
  BY <1>3, <1>9, <1>10, <1>11, <1>12, <1>13 DEF Next

(* The outbox, with all its workers, leases and faults, is an at-least-once  *)
(* event queue: an event stays queued until it is settled, is settled as     *)
(* delivered only if Elasticsearch took it, and changes afterwards only by a *)
(* replay or a cleanup.                                                     *)
THEOREM RelayImplementsQueue == Spec => ImplementsQueue
<1>1. Init => RowsKnown
  BY DEF Init, RowsKnown, NoTokens
<1>2. Init => Queue!Init
  <2> SUFFICES ASSUME Init
               PROVE  Queue!Init
    OBVIOUS
  <2>1. EventStates = [r \in RowIds |-> "absent"]
    BY DEF Init, EventStates, QueueState, NoRow
  <2>2. EventsTaken = {}
    BY DEF Init, EventsTaken
  <2>3. QED
    BY <2>1, <2>2 DEF Queue!Init, EventStates, EventsTaken
<1>3. TypeOK /\ RowsKnown /\ [Next]_vars => RowsKnown'
  BY RowsKnownStep
<1>4. FencingInv /\ RowsKnown /\ [Next]_vars => [Queue!Next]_(Queue!queueVars)
  BY QueueStep DEF Queue!queueVars, EventStates, EventsTaken
<1>5. FencingInv => TypeOK
  BY DEF FencingInv
<1>6. Spec => []RowsKnown
  BY <1>1, <1>3, TypeCorrect, PTL DEF Spec
<1>7. QED
  BY <1>2, <1>4, <1>6, FencingInvariant, PTL DEF Spec, ImplementsQueue, Queue!Spec

----------------------------------------------------------------------------
(* The attempts a worker counts from, without operator commands.            *)

(* A worker that is idle has no batch.                                      *)
IdleHoldsNothing ==
  \A p \in Workers : pc[p] = "idle" => HeldBy(p) = {}

(* The attempts of a row are the failures written to it ...                 *)
AttemptsCounted ==
  \A r \in RowIds : row[r].attempts = failed[r].http + failed[r].net

(* ... and a worker that can still claim a row read them when it asked for  *)
(* candidates: whoever changed them since has also postponed the row beyond *)
(* the worker's clock.                                                      *)
CandidatesFresh ==
  \A p \in Workers : \A r \in RowIds :
    /\ pc[p] = "claiming" /\ r \in todo[p]
    /\ row[r].status \in {"pending", "processing"} /\ Due(row[r], at[p])
    => snap[p][r] = row[r].attempts

LeasesFresh ==
  \A p \in Workers : \A r \in RowIds :
    Holds(p, r) => snap[p][r] = row[r].attempts

(* A row starts without failures.                                           *)
NewRowsClean ==
  \A r \in RowIds : row[r].status = "absent" => row[r].attempts = 0

AttemptsInv ==
  /\ now <= MaxTime
  /\ IdleHoldsNothing
  /\ NewRowsClean
  /\ adminOps = 0 =>
       admin.op = "none" /\ AttemptsCounted /\ CandidatesFresh /\ LeasesFresh

(* A worker sends a request, or gets or misses its answer.                  *)
RequestStep(p) ==
  /\ pc[p] \in {"sending", "waiting"}
  /\ \E c \in {"waiting", "replied"} : pc' = [pc EXCEPT ![p] = c]
  /\ UNCHANGED <<now, row, at, todo, snap, held, failed, adminVars>>

(* A worker writes the outcome of its request back.                         *)
OutcomeStep(p, r) == MarkSent(p, r) \/ MarkRetry(p, r) \/ MarkDead(p, r)

(* What a step does, seen from the table and the batches.                   *)
LEMMA StepKinds ==
  ASSUME TypeOK, [Next]_vars
  PROVE  \/ /\ now' \in {now, now + 1} /\ (now' # now => now < MaxTime)
            /\ UNCHANGED <<row, failed, workerVars, adminVars>>
         \/ \E r \in RowIds : Insert(r)
         \/ \E p \in Workers : QueryCandidates(p)
         \/ \E p \in Workers : \E r \in RowIds : TryClaim(p, r)
         \/ \E p \in Workers : RequestStep(p)
         \/ \E p \in Workers : Drop(p) /\ UNCHANGED <<now, row, failed, adminVars>>
         \/ \E p \in Workers : \E r \in RowIds : OutcomeStep(p, r)
         \/ Operator
<1>1. ASSUME NEW p \in Workers, NEW r \in RowIds,
             Send(p, r) \/ EsHandles(p, r) \/ EsHandlesAnswerLost(p, r)
             \/ EsRefuses(p, r) \/ NoResponse(p, r)
      PROVE  RequestStep(p)
  BY <1>1 DEF Send, EsHandles, EsHandlesAnswerLost, EsRefuses, NoResponse,
     Waiting, Replied, RequestStep
<1>2. ASSUME NEW p \in Workers, ClaimError(p) \/ Crash(p)
      PROVE  Drop(p) /\ UNCHANGED <<now, row, failed, adminVars>>
  BY <1>2 DEF ClaimError, Crash
<1>3. ASSUME \/ Tick
             \/ \E p \in Workers : \E r \in RowIds : EsHandlesRepeated(p, r)
             \/ \E o \in orphans : EsHandlesOrphan(o)
             \/ UNCHANGED vars
      PROVE  /\ now' \in {now, now + 1} /\ (now' # now => now < MaxTime)
             /\ UNCHANGED <<row, failed, workerVars, adminVars>>
  BY <1>3 DEF Tick, EsHandlesRepeated, EsHandlesOrphan, vars, workerVars,
     adminVars
<1>4. QED
  BY <1>1, <1>2, <1>3 DEF Next, Work, Disturb, OutcomeStep

(* An outcome is written by the holder of the lease, and its batch goes on  *)
(* without the row or is dropped.                                           *)
LEMMA OutcomeWritten ==
  ASSUME TypeOK, NEW p \in Workers, NEW r \in RowIds, NEW new \in RowType,
         WriteBack(p, r, new)
  PROVE  /\ UNCHANGED <<now, adminVars>>
         /\ pc'[p] \in {"idle", "sending"}
         /\ pc'[p] = "idle" => HeldBy(p)' = {}
         /\ \A q \in Workers \ {p} :
              /\ pc'[q] = pc[q] /\ at'[q] = at[q] /\ todo'[q] = todo[q]
              /\ snap'[q] = snap[q] /\ held'[q] = held[q]
         /\ \A s \in RowIds :
              held'[p][s] # 0 =>
                s # r /\ held'[p][s] = held[p][s] /\ snap'[p][s] = snap[p][s]
         /\ \/ UNCHANGED <<row, failed>>
            \/ /\ Holds(p, r) /\ row' = [row EXCEPT ![r] = new]
               /\ Record(p, r)
<1>1. UNCHANGED <<now, adminVars>>
  BY DEF WriteBack
<1>2. \/ UNCHANGED <<row, failed>>
      \/ Holds(p, r) /\ row' = [row EXCEPT ![r] = new] /\ Record(p, r)
  BY DEF WriteBack, Holds, IsFirst, HeldBy
<1>3. CASE Drop(p)
  <2>1. /\ pc'[p] = "idle"
        /\ \A s \in RowIds : held'[p][s] = 0
        /\ \A q \in Workers \ {p} :
              /\ pc'[q] = pc[q] /\ at'[q] = at[q] /\ todo'[q] = todo[q]
              /\ snap'[q] = snap[q] /\ held'[q] = held[q]
    BY <1>3 DEF Drop, NoTokens, TypeOK
  <2>2. HeldBy(p)' = {}
    BY <2>1 DEF HeldBy
  <2>3. QED
    BY <1>1, <1>2, <2>1, <2>2
<1>4. CASE NextInBatch(p, r)
  <2>1. /\ pc'[p] \in {"idle", "sending"}
        /\ pc'[p] = "idle" => HeldBy(p) = {r}
    BY <1>4 DEF NextInBatch, TypeOK
  <2>2. \A q \in Workers \ {p} :
              /\ pc'[q] = pc[q] /\ at'[q] = at[q] /\ todo'[q] = todo[q]
              /\ snap'[q] = snap[q] /\ held'[q] = held[q]
    BY <1>4 DEF NextInBatch, TypeOK
  <2>3. \A s \in RowIds :
          /\ held'[p][s] = IF s = r THEN 0 ELSE held[p][s]
          /\ snap'[p][s] = IF s = r THEN 0 ELSE snap[p][s]
    BY <1>4 DEF NextInBatch, TypeOK
  <2>4. pc'[p] = "idle" => HeldBy(p)' = {}
    BY <2>1, <2>3 DEF HeldBy
  <2>5. QED
    BY <1>1, <1>2, <2>1, <2>2, <2>3, <2>4
<1>5. QED
  BY <1>3, <1>4 DEF WriteBack

(* The next retry of a row is in the future of every worker's clock, as     *)
(* long as stored times do not saturate (outbox_relay.go:218-236).          *)
LEMMA RetryIsLater ==
  ASSUME MaxTime < Horizon, now \in Nat, now <= MaxTime, NEW n \in Nat
  PROVE  After(now, Backoff(n)) > now
<1>1. PICK b \in Nat : b = Backoff(n) /\ b >= 1
  BY BackoffType
<1>2. now + b > now /\ Horizon > now
  BY <1>1, BoundsAssumption
<1>3. QED
  BY <1>1, <1>2 DEF After, Min2

(* What the three outcomes make of the row.                                 *)
LEMMA OutcomeRows ==
  ASSUME NEW rw \in RowType, NEW n \in Nat, NEW t \in Nat
  PROVE  /\ SentRow(rw).attempts = rw.attempts
         /\ RetryRow(rw, n, t).attempts = n
         /\ RetryRow(rw, n, t).retryAt = t
         /\ DeadRow(rw, n).attempts = n
         /\ Leased(rw, t, n).attempts = rw.attempts
         /\ Leased(rw, t, n).retryAt = rw.retryAt
         /\ Leased(rw, t, n).token = n
BY DEF RowType, SentRow, RetryRow, DeadRow, Leased

(* A worker without a lease holds no row, after every step.                 *)
LEMMA IdleStep ==
  ASSUME TypeOK, IdleHoldsNothing, [Next]_vars
  PROVE  IdleHoldsNothing'
<1>1. ASSUME UNCHANGED <<pc, held>>
      PROVE  IdleHoldsNothing'
  BY <1>1 DEF IdleHoldsNothing, HeldBy
<1>2. ASSUME NEW p \in Workers,
             \A q \in Workers \ {p} : pc'[q] = pc[q] /\ held'[q] = held[q],
             pc'[p] = "idle" => HeldBy(p)' = {}
      PROVE  IdleHoldsNothing'
  BY <1>2 DEF IdleHoldsNothing, HeldBy
<1>3. ASSUME NEW p \in Workers, Drop(p)
      PROVE  IdleHoldsNothing'
  <2>1. /\ \A q \in Workers \ {p} : pc'[q] = pc[q] /\ held'[q] = held[q]
        /\ \A s \in RowIds : held'[p][s] = 0
    BY <1>3 DEF Drop, NoTokens, TypeOK
  <2>2. HeldBy(p)' = {}
    BY <2>1 DEF HeldBy
  <2>3. QED
    BY <1>2, <2>1, <2>2
<1>4. ASSUME NEW p \in Workers, QueryCandidates(p) \/ RequestStep(p)
      PROVE  IdleHoldsNothing'
  <2>1. /\ \A q \in Workers \ {p} : pc'[q] = pc[q] /\ held'[q] = held[q]
        /\ pc'[p] # "idle"
    BY <1>4 DEF QueryCandidates, RequestStep, TypeOK
  <2>2. QED
    BY <1>2, <2>1
<1>5. ASSUME NEW p \in Workers, NEW r \in RowIds, TryClaim(p, r)
      PROVE  IdleHoldsNothing'
  <2>1. \A q \in Workers \ {p} : pc'[q] = pc[q] /\ held'[q] = held[q]
    BY <1>5 DEF TryClaim, NextCandidate, TypeOK
  <2>2. pc'[p] = "idle" => HeldBy(p)' = {}
    BY <1>5 DEF TryClaim, NextCandidate, TypeOK, HeldBy
  <2>3. QED
    BY <1>2, <2>1, <2>2
<1>6. ASSUME NEW p \in Workers, NEW r \in RowIds, NEW new, WriteBack(p, r, new)
      PROVE  IdleHoldsNothing'
  <2>1. CASE Drop(p)
    BY <1>3, <2>1
  <2>2. CASE NextInBatch(p, r)
    <3>1. \A q \in Workers \ {p} : pc'[q] = pc[q] /\ held'[q] = held[q]
      BY <2>2 DEF NextInBatch, TypeOK
    <3>2. /\ pc'[p] = "idle" => HeldBy(p) = {r}
          /\ \A s \in RowIds : held'[p][s] = IF s = r THEN 0 ELSE held[p][s]
      BY <2>2 DEF NextInBatch, TypeOK
    <3>3. pc'[p] = "idle" => HeldBy(p)' = {}
      BY <3>2 DEF HeldBy
    <3>4. QED
      BY <1>2, <3>1, <3>3
  <2>3. QED
    BY <1>6, <2>1, <2>2 DEF WriteBack
<1>7. ASSUME NEW r \in RowIds, Insert(r)
      PROVE  IdleHoldsNothing'
  BY <1>1, <1>7 DEF Insert, workerVars
<1>8. ASSUME Operator
      PROVE  IdleHoldsNothing'
  <2>1. AdminUnchanged
    BY <1>8 DEF Operator, ReplayAtOnce, SelectForReplay, ReplaySelected,
                CleanupAtOnce, SelectForCleanup, CleanupSelected
  <2>2. QED
    BY <1>1, <2>1 DEF AdminUnchanged, workerVars
<1>9. QED
  BY <1>1, <1>3, <1>4, <1>5, <1>6, <1>7, <1>8, StepKinds
  DEF workerVars, OutcomeStep, MarkSent, MarkRetry, MarkDead

(* Without operator commands there is none afterwards that had an effect:    *)
(* adminOps counts them all.                                                *)
LEMMA NoCommandBefore ==
  ASSUME TypeOK, AttemptsInv, [Next]_vars, adminOps' = 0
  PROVE  adminOps = 0 /\ UNCHANGED admin /\ ~Operator
<1>1. ~Operator
  BY DEF Operator, ReplayAtOnce, SelectForReplay, ReplaySelected,
     CleanupAtOnce, SelectForCleanup, CleanupSelected, AdminStep, TypeOK,
     AttemptsInv
<1>2. ASSUME NEW p \in Workers, NEW r \in RowIds, OutcomeStep(p, r)
      PROVE  UNCHANGED adminVars
  BY <1>2 DEF OutcomeStep, MarkSent, MarkRetry, MarkDead, WriteBack
<1>3. UNCHANGED adminVars
  <2>1. ASSUME NEW r \in RowIds, Insert(r)
        PROVE  UNCHANGED adminVars
    BY <2>1 DEF Insert, AdminStep, TypeOK
  <2>2. QED
    BY <1>1, <1>2, <2>1, StepKinds DEF QueryCandidates, TryClaim, RequestStep
<1>4. QED
  BY <1>1, <1>3 DEF adminVars

(* The attempts stay those a worker counts from while no operator acts: a    *)
(* query reads them, a claim keeps them, and the outcome that changes them   *)
(* ends the lease and postpones the row.                                    *)
AttemptsFresh == AttemptsCounted /\ CandidatesFresh /\ LeasesFresh

(* A query reads the attempts with the rows (outbox_store.go:95-139).        *)
LEMMA FreshByQuery ==
  ASSUME TypeOK, IdleHoldsNothing, AttemptsFresh,
         NEW p \in Workers, QueryCandidates(p)
  PROVE  AttemptsFresh'
<1>1. /\ UNCHANGED <<row, failed, held>>
      /\ HeldBy(p) = {}
      /\ todo'[p] = Candidates
      /\ \A r \in Candidates : snap'[p][r] = row[r].attempts
      /\ \A q \in Workers \ {p} :
           pc'[q] = pc[q] /\ at'[q] = at[q] /\ todo'[q] = todo[q]
           /\ snap'[q] = snap[q]
  BY DEF QueryCandidates, IdleHoldsNothing, TypeOK, Candidates
<1>2. LeasesFresh'
  BY <1>1 DEF LeasesFresh, AttemptsFresh, Holds, LeaseMatches, HeldBy
<1>3. CandidatesFresh'
  BY <1>1 DEF CandidatesFresh, AttemptsFresh
<1>4. AttemptsCounted'
  BY <1>1 DEF AttemptsCounted, AttemptsFresh
<1>5. QED
  BY <1>2, <1>3, <1>4 DEF AttemptsFresh

(* A claim takes a row as the query read it and leaves its attempts alone    *)
(* (outbox_store.go:147-163).                                                *)
LEMMA FreshByClaim ==
  ASSUME TypeOK, TokensIssued, AttemptsFresh,
         NEW p \in Workers, NEW r \in RowIds, TryClaim(p, r)
  PROVE  AttemptsFresh'
<1>1. /\ pc[p] = "claiming" /\ r \in todo[p] /\ failed' = failed
      /\ \A q \in Workers \ {p} :
           /\ pc'[q] = pc[q] /\ at'[q] = at[q] /\ todo'[q] = todo[q]
           /\ snap'[q] = snap[q] /\ held'[q] = held[q]
  BY DEF TryClaim, NextCandidate, IsFirst, TypeOK
<1>2. /\ \A s \in RowIds : held'[p][s] # 0 => snap'[p][s] = snap[p][s]
      /\ pc'[p] = "claiming" =>
           /\ at'[p] = at[p] /\ todo'[p] \subseteq todo[p]
           /\ \A s \in RowIds : snap'[p][s] = snap[p][s]
  BY DEF TryClaim, NextCandidate, TypeOK
<1>3. CASE UNCHANGED <<row, held>>
  <2>1. LeasesFresh'
    BY <1>1, <1>2, <1>3 DEF LeasesFresh, AttemptsFresh, Holds, LeaseMatches
  <2>2. CandidatesFresh'
    BY <1>1, <1>2, <1>3 DEF CandidatesFresh, AttemptsFresh
  <2>3. AttemptsCounted'
    BY <1>1, <1>3 DEF AttemptsCounted, AttemptsFresh
  <2>4. QED
    BY <2>1, <2>2, <2>3 DEF AttemptsFresh
<1>4. CASE /\ Grantable(row[r], at[p])
           /\ row' = [row EXCEPT ![r] =
                        Leased(@, After(at[p], Lease), NewToken(r))]
           /\ held' = [held EXCEPT ![p][r] = NewToken(r)]
  <2>1. /\ \A s \in RowIds \ {r} : row'[s] = row[s]
        /\ row'[r].attempts = row[r].attempts
        /\ row'[r].retryAt = row[r].retryAt
        /\ row'[r].token = NewToken(r)
    <3>1. row[r] \in RowType /\ NewToken(r) \in Nat /\ After(at[p], Lease) \in Nat
      <4>1. row[r] \in RowType /\ claims[r] \in Nat /\ at[p] \in Nat
        BY DEF TypeOK
      <4>2. NewToken(r) \in Nat
        BY <4>1 DEF NewToken
      <4>3. After(at[p], Lease) \in Nat
        BY <4>1, ConfigAssumption, TimeType
      <4>4. QED
        BY <4>1, <4>2, <4>3
    <3>2. row'[r] = Leased(row[r], After(at[p], Lease), NewToken(r))
          /\ \A s \in RowIds \ {r} : row'[s] = row[s]
      BY <1>4 DEF TypeOK
    <3>3. QED
      BY <3>1, <3>2, OutcomeRows
  <2>2. snap[p][r] = row[r].attempts
    BY <1>1, <1>4 DEF AttemptsFresh, CandidatesFresh, Grantable, Free
  <2>3. \A s \in RowIds : held'[p][s] = IF s = r THEN NewToken(r) ELSE held[p][s]
    BY <1>4 DEF TypeOK
  <2>4. NewToken(r) \in Nat \ {0} /\ \A q \in Workers : held[q][r] # NewToken(r)
    BY DEF TokensIssued, NewToken, TypeOK
  <2>5. LeasesFresh'
    <3> SUFFICES ASSUME NEW q \in Workers, NEW s \in RowIds, Holds(q, s)'
                 PROVE  snap'[q][s] = row'[s].attempts
      BY DEF LeasesFresh
    <3>1. held'[q][s] # 0 /\ row'[s].status = "processing"
          /\ row'[s].token = held'[q][s]
      BY DEF Holds, LeaseMatches
    <3>2. CASE s = r
      <4>1. q = p
        BY <1>1, <2>1, <2>4, <3>1, <3>2
      <4>2. QED
        BY <1>2, <2>1, <2>2, <3>1, <3>2, <4>1
    <3>3. CASE s # r
      <4>1. held'[q][s] = held[q][s] /\ row'[s] = row[s]
        BY <1>1, <2>1, <2>3, <3>3
      <4>2. snap'[q][s] = snap[q][s]
        BY <1>1, <1>2, <3>1
      <4>3. snap[q][s] = row[s].attempts
        BY <3>1, <4>1 DEF AttemptsFresh, LeasesFresh, Holds, LeaseMatches
      <4>4. QED
        BY <4>1, <4>2, <4>3
    <3>4. QED
      BY <3>2, <3>3
  <2>6. CandidatesFresh'
    <3> SUFFICES ASSUME NEW q \in Workers, NEW s \in RowIds,
                        pc'[q] = "claiming", s \in todo'[q],
                        row'[s].status \in {"pending", "processing"},
                        Due(row'[s], at'[q])
                 PROVE  snap'[q][s] = row'[s].attempts
      BY DEF CandidatesFresh
    <3>1. /\ pc[q] = "claiming" /\ s \in todo[q] /\ at'[q] = at[q]
          /\ snap'[q][s] = snap[q][s]
      BY <1>1, <1>2
    <3>2. /\ row'[s].attempts = row[s].attempts
          /\ row'[s].retryAt = row[s].retryAt
          /\ row[s].status \in {"pending", "processing"}
      BY <1>4, <2>1 DEF Grantable, Free
    <3>3. QED
      BY <3>1, <3>2 DEF AttemptsFresh, CandidatesFresh, Due
  <2>7. AttemptsCounted'
    BY <1>1, <2>1 DEF AttemptsCounted, AttemptsFresh
  <2>8. QED
    BY <2>5, <2>6, <2>7 DEF AttemptsFresh
<1>5. QED
  BY <1>3, <1>4 DEF TryClaim

(* The failure that an outcome adds is the attempt it writes.               *)
LEMMA RecordCounts ==
  ASSUME TypeOK, NEW p \in Workers, NEW r \in RowIds, Record(p, r)
  PROVE  /\ \A s \in RowIds \ {r} : failed'[s] = failed[s]
         /\ answer[p] = "ok" => failed'[r] = failed[r]
         /\ answer[p] # "ok" => failed'[r].http + failed'[r].net
                                  = failed[r].http + failed[r].net + 1
<1>1. failed[r] \in [http : Nat, net : Nat]
  BY DEF TypeOK
<1>2. CASE answer[p] = "ok"
  BY <1>2 DEF Record
<1>3. CASE answer[p] = "none"
  <2>1. failed' = [failed EXCEPT ![r].net = @ + 1]
    BY <1>3 DEF Record
  <2>2. /\ \A s \in RowIds \ {r} : failed'[s] = failed[s]
        /\ failed'[r].net = failed[r].net + 1 /\ failed'[r].http = failed[r].http
    BY <1>1, <2>1 DEF TypeOK
  <2>3. QED
    BY <1>1, <1>3, <2>2
<1>4. CASE answer[p] \notin {"ok", "none"}
  <2>1. failed' = [failed EXCEPT ![r].http = @ + 1]
    BY <1>4 DEF Record
  <2>2. /\ \A s \in RowIds \ {r} : failed'[s] = failed[s]
        /\ failed'[r].http = failed[r].http + 1 /\ failed'[r].net = failed[r].net
    BY <1>1, <2>1 DEF TypeOK
  <2>3. QED
    BY <1>1, <1>4, <2>2
<1>5. QED
  BY <1>2, <1>3, <1>4

(* The outcome writes the attempts its worker counted, and lets the row go:  *)
(* no other worker holds it or may still claim it (outbox_relay.go:213-290). *)
LEMMA FreshByOutcome ==
  ASSUME MaxTime < Horizon, TypeOK, ClocksBehind, now <= MaxTime, AttemptsFresh,
         NEW p \in Workers, NEW r \in RowIds, OutcomeStep(p, r)
  PROVE  AttemptsFresh'
<1> DEFINE n == snap[p][r] + 1
           t == After(now, Backoff(n))
<1>1. row[r] \in RowType /\ now \in Nat /\ n \in Nat
  BY DEF TypeOK
<1>2. t \in Nat /\ t > now
  BY <1>1, RetryIsLater, BackoffType, TimeType
<1> HIDE DEF n, t
<1>3. PICK new \in RowType :
        /\ WriteBack(p, r, new)
        /\ \/ answer[p] = "ok" /\ new = SentRow(row[r])
           \/ answer[p] # "ok" /\ new = RetryRow(row[r], n, t)
           \/ answer[p] # "ok" /\ new = DeadRow(row[r], n)
  BY <1>1, <1>2, RowTypes DEF OutcomeStep, MarkSent, MarkRetry, MarkDead, n, t
<1>4. /\ new.status \in {"sent", "pending", "dead"}
      /\ new.status = "pending" => new.retryAt = t
      /\ answer[p] = "ok" => new.attempts = row[r].attempts
      /\ answer[p] # "ok" => new.attempts = n
  BY <1>1, <1>2, <1>3, RowStatus, OutcomeRows
<1>5. /\ pc'[p] # "claiming"
      /\ \A q \in Workers \ {p} :
           /\ pc'[q] = pc[q] /\ at'[q] = at[q] /\ todo'[q] = todo[q]
           /\ snap'[q] = snap[q] /\ held'[q] = held[q]
      /\ \A s \in RowIds :
           held'[p][s] # 0 =>
             s # r /\ held'[p][s] = held[p][s] /\ snap'[p][s] = snap[p][s]
  BY <1>3, OutcomeWritten
<1>6. CASE UNCHANGED <<row, failed>>
  <2>1. LeasesFresh'
    BY <1>5, <1>6 DEF LeasesFresh, AttemptsFresh, Holds, LeaseMatches
  <2>2. CandidatesFresh'
    BY <1>5, <1>6 DEF CandidatesFresh, AttemptsFresh
  <2>3. AttemptsCounted'
    BY <1>6 DEF AttemptsCounted, AttemptsFresh
  <2>4. QED
    BY <2>1, <2>2, <2>3 DEF AttemptsFresh
<1>7. CASE Holds(p, r) /\ row' = [row EXCEPT ![r] = new] /\ Record(p, r)
  <2>1. row'[r] = new /\ \A s \in RowIds \ {r} : row'[s] = row[s]
    BY <1>7 DEF TypeOK
  <2>2. LeasesFresh'
    <3> SUFFICES ASSUME NEW q \in Workers, NEW s \in RowIds, Holds(q, s)'
                 PROVE  snap'[q][s] = row'[s].attempts
      BY DEF LeasesFresh
    <3>1. held'[q][s] # 0 /\ row'[s].status = "processing"
          /\ row'[s].token = held'[q][s]
      BY DEF Holds, LeaseMatches
    <3>2. s # r
      BY <1>4, <2>1, <3>1
    <3>3. held'[q][s] = held[q][s] /\ snap'[q][s] = snap[q][s] /\ row'[s] = row[s]
      BY <1>5, <2>1, <3>1, <3>2
    <3>4. QED
      BY <3>1, <3>3 DEF AttemptsFresh, LeasesFresh, Holds, LeaseMatches
  <2>3. CandidatesFresh'
    <3> SUFFICES ASSUME NEW q \in Workers, NEW s \in RowIds,
                        pc'[q] = "claiming", s \in todo'[q],
                        row'[s].status \in {"pending", "processing"},
                        Due(row'[s], at'[q])
                 PROVE  snap'[q][s] = row'[s].attempts
      BY DEF CandidatesFresh
    <3>1. /\ pc[q] = "claiming" /\ s \in todo[q] /\ at'[q] = at[q]
          /\ snap'[q][s] = snap[q][s]
      BY <1>5
    <3>2. s # r
      <4>1. at[q] <= now /\ at[q] \in Nat
        BY DEF ClocksBehind, TypeOK
      <4>2. SUFFICES ASSUME s = r
                     PROVE  FALSE
        OBVIOUS
      <4>3. row'[s].retryAt = t
        BY <1>4, <2>1, <4>2
      <4>4. QED
        BY <1>1, <1>2, <3>1, <4>1, <4>3 DEF Due, None
    <3>3. QED
      BY <2>1, <3>1, <3>2 DEF AttemptsFresh, CandidatesFresh
  <2>4. AttemptsCounted'
    <3>1. snap[p][r] = row[r].attempts
      BY <1>7 DEF AttemptsFresh, LeasesFresh
    <3>2. failed[r].http + failed[r].net = row[r].attempts
      BY DEF AttemptsFresh, AttemptsCounted
    <3>3. /\ \A s \in RowIds \ {r} : failed'[s] = failed[s]
          /\ answer[p] = "ok" => failed'[r] = failed[r]
          /\ answer[p] # "ok" => failed'[r].http + failed'[r].net
                                   = failed[r].http + failed[r].net + 1
      BY <1>7, RecordCounts
    <3>4. row'[r].attempts = failed'[r].http + failed'[r].net
      BY <1>4, <2>1, <3>1, <3>2, <3>3 DEF n
    <3>5. \A s \in RowIds \ {r} :
            row'[s].attempts = failed'[s].http + failed'[s].net
      BY <2>1, <3>3 DEF AttemptsFresh, AttemptsCounted
    <3>6. QED
      BY <3>4, <3>5 DEF AttemptsCounted
  <2>5. QED
    BY <2>2, <2>3, <2>4 DEF AttemptsFresh
<1>8. QED
  BY <1>3, <1>6, <1>7, OutcomeWritten

(* The other steps without an operator: an insertion, a request, a crash.   *)
LEMMA FreshByOthers ==
  ASSUME TypeOK, RowsKnown, AttemptsFresh
  PROVE  /\ \A r \in RowIds :
              Insert(r) /\ row[r].attempts = 0 => AttemptsFresh'
         /\ UNCHANGED <<row, failed, workerVars>> => AttemptsFresh'
         /\ \A p \in Workers : RequestStep(p) => AttemptsFresh'
         /\ \A p \in Workers :
              Drop(p) /\ UNCHANGED <<row, failed>> => AttemptsFresh'
<1>1. ASSUME UNCHANGED <<row, failed>>, NEW p \in Workers,
             \A q \in Workers \ {p} :
               /\ pc'[q] = pc[q] /\ at'[q] = at[q] /\ todo'[q] = todo[q]
               /\ snap'[q] = snap[q] /\ held'[q] = held[q],
             pc'[p] # "claiming",
             \A s \in RowIds : held'[p][s] # 0 =>
               held'[p][s] = held[p][s] /\ snap'[p][s] = snap[p][s]
      PROVE  AttemptsFresh'
  <2>1. LeasesFresh'
    BY <1>1 DEF LeasesFresh, AttemptsFresh, Holds, LeaseMatches
  <2>2. CandidatesFresh'
    BY <1>1 DEF CandidatesFresh, AttemptsFresh
  <2>3. AttemptsCounted'
    BY <1>1 DEF AttemptsCounted, AttemptsFresh
  <2>4. QED
    BY <2>1, <2>2, <2>3 DEF AttemptsFresh
<1>2. ASSUME NEW r \in RowIds, Insert(r), row[r].attempts = 0
      PROVE  AttemptsFresh'
  <2>1. /\ row[r].status = "absent"
        /\ row'[r] = NoRow("pending")
        /\ \A s \in RowIds \ {r} : row'[s] = row[s]
        /\ failed' = failed /\ UNCHANGED <<pc, at, todo, snap, held>>
    BY <1>2 DEF Insert, TypeOK, workerVars
  <2>2. row'[r].attempts = 0 /\ row'[r].status = "pending"
    BY <2>1 DEF NoRow
  <2>3. LeasesFresh'
    BY <2>1, <2>2 DEF LeasesFresh, AttemptsFresh, Holds, LeaseMatches
  <2>4. CandidatesFresh'
    BY <2>1 DEF CandidatesFresh, AttemptsFresh, RowsKnown
  <2>5. AttemptsCounted'
    BY <1>2, <2>1, <2>2 DEF AttemptsCounted, AttemptsFresh
  <2>6. QED
    BY <2>3, <2>4, <2>5 DEF AttemptsFresh
<1>3. ASSUME UNCHANGED <<row, failed, workerVars>>
      PROVE  AttemptsFresh'
  BY <1>3 DEF workerVars, AttemptsFresh, AttemptsCounted, CandidatesFresh,
     LeasesFresh, Holds, LeaseMatches
<1>4. ASSUME NEW p \in Workers, RequestStep(p)
      PROVE  AttemptsFresh'
  BY <1>1, <1>4 DEF RequestStep, TypeOK
<1>5. ASSUME NEW p \in Workers, Drop(p), UNCHANGED <<row, failed>>
      PROVE  AttemptsFresh'
  BY <1>1, <1>5 DEF Drop, NoTokens, TypeOK
<1>6. QED
  BY <1>2, <1>3, <1>4, <1>5

(* Every step keeps the attempts of rows and workers in agreement.          *)
LEMMA AttemptsStep ==
  ASSUME MaxTime < Horizon, FencingInv, RowsKnown, AttemptsInv, [Next]_vars
  PROVE  AttemptsInv'
<1>1. TypeOK /\ TokensIssued /\ ClocksBehind
  BY DEF FencingInv
<1>2. now' <= MaxTime
  <2>1. now \in Nat /\ now <= MaxTime
    BY <1>1 DEF TypeOK, AttemptsInv
  <2>2. ASSUME NEW p \in Workers, NEW r \in RowIds, OutcomeStep(p, r)
        PROVE  now' = now
    BY <2>2 DEF OutcomeStep, MarkSent, MarkRetry, MarkDead, WriteBack
  <2>3. ASSUME Operator
        PROVE  now' = now
    BY <2>3 DEF Operator, ReplayAtOnce, SelectForReplay, ReplaySelected,
       CleanupAtOnce, SelectForCleanup, CleanupSelected, AdminUnchanged
  <2>4. now' = now \/ (now' = now + 1 /\ now < MaxTime)
    BY <1>1, <2>2, <2>3, StepKinds
    DEF Insert, QueryCandidates, TryClaim, RequestStep
  <2>5. QED
    BY <2>1, <2>4, BoundsAssumption
<1>3. IdleHoldsNothing'
  BY <1>1, IdleStep DEF AttemptsInv
<1>4. NewRowsClean'
  <2> SUFFICES ASSUME NEW r \in RowIds, row'[r].status = "absent"
               PROVE  row'[r].attempts = 0
    BY DEF NewRowsClean
  <2>1. row[r].status = "absent"
    BY <1>1, InsertedStays
  <2>2. row'[r] = row[r]
    <3>1. \A n, t : Leased(row[r], t, n).status # "absent"
      <4>1. row[r] \in RowType
        BY <1>1 DEF TypeOK
      <4>2. QED
        BY <4>1, RowStatus
    <3>2. QED
      BY <1>1, <2>1, <3>1, RowStep
  <2>3. QED
    BY <2>1, <2>2 DEF AttemptsInv, NewRowsClean
<1>5. ASSUME adminOps' = 0
      PROVE  admin'.op = "none" /\ AttemptsFresh'
  <2>1. adminOps = 0 /\ UNCHANGED admin /\ ~Operator
    BY <1>1, <1>5, NoCommandBefore
  <2>2. AttemptsFresh /\ admin'.op = "none"
    BY <2>1 DEF AttemptsInv, AttemptsFresh
  <2>3. ASSUME NEW r \in RowIds, Insert(r)
        PROVE  AttemptsFresh'
    BY <1>1, <2>2, <2>3, FreshByOthers DEF Insert, AttemptsInv, NewRowsClean
  <2>4. ASSUME NEW p \in Workers, QueryCandidates(p)
        PROVE  AttemptsFresh'
    BY <1>1, <2>2, <2>4, FreshByQuery DEF AttemptsInv
  <2>5. ASSUME NEW p \in Workers, NEW r \in RowIds, TryClaim(p, r)
        PROVE  AttemptsFresh'
    BY <1>1, <2>2, <2>5, FreshByClaim
  <2>6. ASSUME NEW p \in Workers, NEW r \in RowIds, OutcomeStep(p, r)
        PROVE  AttemptsFresh'
    BY <1>1, <2>2, <2>6, FreshByOutcome DEF AttemptsInv
  <2>7. ASSUME UNCHANGED <<row, failed, workerVars>>
        PROVE  AttemptsFresh'
    BY <1>1, <2>2, <2>7, FreshByOthers
  <2>8. ASSUME NEW p \in Workers,
               \/ RequestStep(p)
               \/ Drop(p) /\ UNCHANGED <<row, failed>>
        PROVE  AttemptsFresh'
    BY <1>1, <2>2, <2>8, FreshByOthers
  <2>9. QED
    BY <1>1, <2>1, <2>2, <2>3, <2>4, <2>5, <2>6, <2>7, <2>8, StepKinds
<1>6. QED
  BY <1>2, <1>3, <1>4, <1>5 DEF AttemptsInv, AttemptsFresh

(* Attempts agree with the failures written, in every reachable state.      *)
LEMMA AttemptsAgree ==
  ASSUME MaxTime < Horizon
  PROVE  Spec => [](FencingInv /\ RowsKnown /\ AttemptsInv)
<1>1. Init => RowsKnown /\ AttemptsInv
  <2> SUFFICES ASSUME Init
               PROVE  RowsKnown /\ AttemptsInv
    OBVIOUS
  <2>1. RowsKnown
    BY DEF Init, RowsKnown, NoTokens
  <2>2. now <= MaxTime
    BY BoundsAssumption DEF Init
  <2>3. /\ \A p \in Workers : pc[p] = "idle" /\ HeldBy(p) = {}
        /\ \A r \in RowIds : row[r] = NoRow("absent") /\ row[r].attempts = 0
                             /\ failed[r].http = 0 /\ failed[r].net = 0
        /\ \A p \in Workers : \A r \in RowIds : held[p][r] = 0
        /\ admin.op = "none"
    BY DEF Init, HeldBy, NoTokens, NoRow
  <2>4. AttemptsInv
    BY <2>2, <2>3 DEF AttemptsInv, IdleHoldsNothing, NewRowsClean,
       AttemptsCounted, CandidatesFresh, LeasesFresh, Holds
  <2>5. QED
    BY <2>1, <2>4
<1>2. FencingInv => TypeOK
  BY DEF FencingInv
<1>3. FencingInv /\ RowsKnown /\ AttemptsInv /\ [Next]_vars
        => RowsKnown' /\ AttemptsInv'
  BY <1>2, RowsKnownStep, AttemptsStep
<1>4. QED
  BY <1>1, <1>3, FencingInvariant, PTL DEF Spec

(* The attempts a worker counts from are the row's, for every interleaving  *)
(* of workers, expired leases and crashes, as long as no operator resets    *)
(* the row: tryClaimRow may use the value the candidate query returned.     *)
THEOREM SnapshotsFresh ==
  ASSUME MaxTime < Horizon
  PROVE  Spec => []FreshSnapshot
<1>1. AttemptsInv => FreshSnapshot
  BY DEF AttemptsInv, LeasesFresh, FreshSnapshot
<1>2. QED
  BY <1>1, AttemptsAgree, PTL

(* A row that dies is written by a worker that found the budget spent.      *)
LEMMA DeathStep ==
  ASSUME TypeOK, [Next]_vars, NEW r \in RowIds,
         row[r].status = "processing", row'[r].status = "dead"
  PROVE  \E p \in Workers : Holds(p, r) /\ MarkDead(p, r)
<1>1. row[r] \in RowType /\ row'[r] # row[r]
  BY DEF TypeOK
<1>2. \A n, t : /\ Leased(row[r], t, n).status # "dead"
                /\ SentRow(row[r]).status # "dead"
                /\ RetryRow(row[r], n, t).status # "dead"
                /\ ReplayedRow(row[r]).status # "dead"
  BY <1>1, RowStatus
<1>3. ASSUME NEW p \in Workers, NEW s \in RowIds, NEW new, WriteBack(p, s, new)
      PROVE  r = s /\ row'[r] = new /\ Holds(p, r)
  <2>1. row' = [row EXCEPT ![s] = new] /\ LeaseMatches(p, s)
    BY <1>1, <1>3 DEF WriteBack
  <2>2. r = s /\ row'[r] = new
    BY <1>1, <2>1 DEF TypeOK
  <2>3. QED
    BY <1>3, <2>1, <2>2 DEF WriteBack, Holds, IsFirst, HeldBy
<1>4. ASSUME NEW p \in Workers, NEW s \in RowIds, OutcomeStep(p, s)
      PROVE  Holds(p, r) /\ MarkDead(p, r)
  BY <1>2, <1>3, <1>4 DEF OutcomeStep, MarkSent, MarkRetry, MarkDead
<1>5. ASSUME NEW p \in Workers, NEW s \in RowIds, TryClaim(p, s)
      PROVE  FALSE
  BY <1>1, <1>2, <1>5 DEF TryClaim, TypeOK
<1>6. ASSUME NEW s \in RowIds, Insert(s)
      PROVE  FALSE
  BY <1>1, <1>6 DEF Insert, NoRow, TypeOK
<1>7. ASSUME Operator
      PROVE  FALSE
  <2>1. ASSUME NEW ids, Replay(ids) \/ Cleanup(ids)
        PROVE  FALSE
    BY <1>1, <1>2, <2>1 DEF Replay, Cleanup, NoRow
  <2>2. QED
    BY <1>1, <1>7, <2>1 DEF Operator, ReplayAtOnce, SelectForReplay,
       ReplaySelected, CleanupAtOnce, SelectForCleanup, CleanupSelected
<1>8. QED
  BY <1>1, <1>4, <1>5, <1>6, <1>7, StepKinds DEF QueryCandidates, RequestStep

(* A row dies of a retryable status only when MaxAttempts failures were     *)
(* written to it since it was inserted, whoever wrote them: no worker cuts  *)
(* the budget short by counting from an old value.                          *)
THEOREM BudgetSpent ==
  ASSUME MaxTime < Horizon
  PROVE  Spec => DeadMeansBudgetSpent
<1> DEFINE Step == \A r \in RowIds :
             /\ adminOps = 0
             /\ row[r].status = "processing"
             /\ row'[r].status = "dead"
             /\ \E p \in Workers : Holds(p, r) /\ answer[p] = "busy"
             => failed[r].http + failed[r].net >= MaxAttempts
<1>1. FencingInv /\ AttemptsInv /\ [Next]_vars => Step
  <2> SUFFICES ASSUME FencingInv, AttemptsInv, [Next]_vars, NEW r \in RowIds,
                      adminOps = 0,
                      row[r].status = "processing", row'[r].status = "dead",
                      NEW q \in Workers, Holds(q, r), answer[q] = "busy"
               PROVE  failed[r].http + failed[r].net >= MaxAttempts
    OBVIOUS
  <2>1. TypeOK
    BY DEF FencingInv
  <2>2. PICK p \in Workers : Holds(p, r) /\ MarkDead(p, r)
    BY <2>1, DeathStep
  <2>3. p = q
    BY <2>2 DEF FencingInv, TokensUnique, Holds, LeaseMatches
  <2>4. ~(snap[p][r] < MaxAttempts)
    BY <2>2, <2>3 DEF MarkDead, RetryAgain, Retryable, TransportFailure
  <2>5. /\ snap[p][r] = row[r].attempts
        /\ row[r].attempts = failed[r].http + failed[r].net
    BY <2>2 DEF AttemptsInv, LeasesFresh, AttemptsCounted
  <2>6. snap[p][r] \in Nat /\ MaxAttempts \in Nat
    BY <2>1, ConfigAssumption DEF TypeOK
  <2>7. QED
    BY <2>4, <2>5, <2>6
<1>2. QED
  BY <1>1, AttemptsAgree, PTL DEF Spec, DeadMeansBudgetSpent

----------------------------------------------------------------------------
(* One worker delivers in order.                                            *)

Earlier(q, r) == q < r /\ DocOf[q] = DocOf[r]

(* The actions of one document in the order of its rows: an update follows  *)
(* an event that leaves the document there.  Nothing is asked of deletes.   *)
UpdatesFollow ==
  \A r \in RowIds :
    /\ Supported(r)
    /\ ActionOf[r] = "update" =>
         \E q \in RowIds :
           /\ Earlier(q, r) /\ ActionOf[q] # "delete"
           /\ \A x \in RowIds : Earlier(x, r) => x <= q

SettledRow(r) == row[r].status \in {"sent", "dead"}

(* The rows that Elasticsearch has handled: the settled ones, and the one   *)
(* the worker has the answer of.                                            *)
Handled(w, r) ==
  SettledRow(r) \/ (pc[w] = "replied" /\ IsFirst(r, HeldBy(w)))

Effect(r) == IF ActionOf[r] = "delete" THEN Absent ELSE r

(* The only worker has every processing row, and the rows of a document are *)
(* inserted, claimed and settled in their order ...                         *)
TableInOrder(w) ==
  /\ \A r \in RowIds :
       /\ row[r].status # "deleted"
       /\ row[r].status = "pending" => row[r] = NoRow("pending")
       /\ row[r].status = "processing" <=> held[w][r] # 0
       /\ row[r].status = "processing" => row[r].token = held[w][r]
  /\ \A q, r \in RowIds : Earlier(q, r) =>
       /\ row[r].status # "absent" => row[q].status # "absent"
       /\ row[r].status \notin {"absent", "pending"} => row[q].status # "pending"
       /\ SettledRow(r) => SettledRow(q)

(* ... because the candidates still to be tried are pending and leave no    *)
(* earlier row of their document out ...                                    *)
TodoInOrder(w) ==
  /\ \A r \in todo[w] : row[r].status = "pending"
  /\ \A q, r \in RowIds : Earlier(q, r) /\ r \in todo[w] =>
       q \in todo[w] \/ row[q].status # "pending"

(* ... and every document has the effect of the last row handled.           *)
DocsInOrder(w) ==
  /\ \A r \in RowIds :
       /\ Handled(w, r)
       /\ \A q \in RowIds : Handled(w, q) /\ DocOf[q] = DocOf[r] => q <= r
       => es[DocOf[r]] = Effect(r)
  /\ \A d \in Docs :
       (\A r \in RowIds : DocOf[r] = d => ~Handled(w, r)) => es[d] = Absent

OrderInv(w) ==
  /\ admin.op = "none" /\ orphans = {}
  /\ pc[w] = "replied" => answer[w] \in {"ok", "notfound"}
  /\ TableInOrder(w)
  /\ TodoInOrder(w)
  /\ DocsInOrder(w)

(* The candidate query leaves no earlier row of a document out, although it *)
(* looks at four batches only (outbox_store.go:95-139).                     *)
LEMMA CandidatesInOrder ==
  ASSUME TypeOK, NEW w \in Workers, TableInOrder(w), HeldBy(w) = {}
  PROVE  /\ \A r \in Candidates : row[r].status = "pending"
         /\ \A q, r \in RowIds : Earlier(q, r) /\ r \in Candidates =>
              q \in Candidates \/ row[q].status # "pending"
<1>1. \A r \in RowIds : held[w][r] = 0
  BY DEF HeldBy
<1>2. \A r \in Candidates : row[r].status = "pending"
  BY <1>1 DEF Candidates, Candidate, Free, TableInOrder
<1>3. ASSUME NEW q \in RowIds, NEW r \in RowIds, Earlier(q, r),
             r \in Candidates, row[q].status = "pending"
      PROVE  q \in Candidates
  <2> DEFINE C == {x \in RowIds : Candidate(row[x], now)}
             A == {x \in C : x < q}
             B == {x \in C : x < r}
  <2>1. q \in C
    BY <1>3 DEF TableInOrder, Candidate, Due, Free, NoRow, None
  <2>2. q \in Nat /\ r \in Nat /\ q < r
    BY <1>3, RowIdsAssumption DEF Earlier
  <2>3. C \in SUBSET Nat
    BY RowIdsAssumption
  <2> HIDE DEF C
  <2>3a. \A x \in C : x \in Nat /\ (x < q => x < r) /\ (x < r => x <= r)
    BY <2>2, <2>3
  <2>4. IsFiniteSet(B)
    <3>1. B \in SUBSET Nat /\ \A x \in B : x <= r
      BY <2>3a
    <3>2. QED
      BY <2>2, <3>1, FS_BoundedSetOfNaturals
  <2>5. A \subseteq B
    BY <2>3a
  <2>6. Cardinality(A) <= Cardinality(B)
    BY <2>4, <2>5, FS_Subset
  <2>7. Cardinality(B) \in Nat /\ Cardinality(A) \in Nat
    BY <2>4, <2>5, FS_Subset, FS_CardinalityType
  <2>8. Cardinality(B) < 4 * BatchSize
    BY <1>3 DEF Candidates, C
  <2>9. PICK b \in Nat : b = 4 * BatchSize
    BY ConfigAssumption
  <2>10. Cardinality(A) < 4 * BatchSize
    BY <2>6, <2>7, <2>8, <2>9
  <2>11. QED
    BY <2>1, <2>10 DEF Candidates, C
<1>4. QED
  BY <1>2, <1>3

(* A row no operator asked for comes after those of its document             *)
(* (outbox_store.go:35-72).                                                 *)
LEMMA OrderByInsert ==
  ASSUME TypeOK, NEW w \in Workers, OrderInv(w), NEW s \in RowIds, Insert(s),
         ~AdminStep
  PROVE  OrderInv(w)'
<1>1. /\ row[s].status = "absent"
      /\ \A q \in RowIds : Earlier(q, s) => row[q].status # "absent"
      /\ row'[s] = NoRow("pending")
      /\ \A r \in RowIds \ {s} : row'[r] = row[r]
      /\ UNCHANGED <<pc, at, todo, snap, held, answer, es, orphans, admin>>
  BY DEF Insert, InTurn, Earlier, TypeOK, workerVars, esVars, adminVars
<1>2. NoRow("pending").status = "pending"
  BY DEF NoRow
<1>3. HeldBy(w)' = HeldBy(w)
  BY <1>1 DEF HeldBy
<1>4. \A r \in RowIds : SettledRow(r)' <=> SettledRow(r)
  BY <1>1, <1>2 DEF SettledRow
<1>5. \A r \in RowIds : Handled(w, r)' <=> Handled(w, r)
  BY <1>1, <1>3, <1>4 DEF Handled
<1>6. TableInOrder(w)'
  BY <1>1, <1>2, <1>4 DEF TableInOrder, OrderInv, Earlier
<1>7. TodoInOrder(w)'
  <2>1. \A r \in todo[w] : r \in RowIds /\ row[r].status = "pending"
    BY DEF TodoInOrder, OrderInv, TypeOK
  <2>2. \A q, r \in RowIds : Earlier(q, r) /\ r \in todo[w] =>
          q # s /\ (q \in todo[w] \/ row[q].status # "pending")
    BY <1>1, <2>1 DEF TodoInOrder, TableInOrder, OrderInv
  <2>3. \A r \in todo[w] : row'[r].status = "pending"
    BY <1>1, <2>1
  <2>4. \A q, r \in RowIds : Earlier(q, r) /\ r \in todo[w] =>
          q \in todo[w] \/ row'[q].status # "pending"
    BY <1>1, <2>2
  <2>5. QED
    BY <1>1, <2>3, <2>4 DEF TodoInOrder, Earlier
<1>8. DocsInOrder(w)'
  BY <1>1, <1>5 DEF DocsInOrder, OrderInv, Effect
<1>9. QED
  BY <1>1, <1>6, <1>7, <1>8 DEF OrderInv

(* A query gives a lone worker the oldest rows first (outbox_store.go:95-139).*)
LEMMA OrderByQuery ==
  ASSUME TypeOK, NEW w \in Workers, OrderInv(w), HeldBy(w) = {},
         QueryCandidates(w)
  PROVE  OrderInv(w)'
<1>1. /\ UNCHANGED <<row, held, answer, es, orphans, admin>>
      /\ todo'[w] = Candidates
      /\ pc[w] # "replied" /\ pc'[w] # "replied"
  BY DEF QueryCandidates, TypeOK, esVars, adminVars
<1>2. \A r \in RowIds : SettledRow(r)' <=> SettledRow(r)
  BY <1>1 DEF SettledRow
<1>3. \A r \in RowIds : Handled(w, r)' <=> Handled(w, r)
  BY <1>1, <1>2 DEF Handled
<1>4. TableInOrder(w)'
  BY <1>1, <1>2 DEF TableInOrder, OrderInv
<1>5. TodoInOrder(w)'
  BY <1>1, CandidatesInOrder DEF TodoInOrder, OrderInv
<1>6. DocsInOrder(w)'
  BY <1>1, <1>3 DEF DocsInOrder, OrderInv
<1>7. QED
  BY <1>1, <1>4, <1>5, <1>6 DEF OrderInv

(* Claims follow the order of the candidates (outbox_store.go:147-163).      *)
LEMMA OrderByClaim ==
  ASSUME TypeOK, NEW w \in Workers, OrderInv(w), NEW s \in RowIds, TryClaim(w, s)
  PROVE  OrderInv(w)'
<1>1. /\ s \in todo[w] /\ \A q \in todo[w] : s <= q
      /\ todo'[w] \in {{}, todo[w] \ {s}}
      /\ pc[w] = "claiming" /\ pc'[w] # "replied"
      /\ UNCHANGED <<answer, es, orphans, admin>>
  BY DEF TryClaim, NextCandidate, IsFirst, TypeOK, esVars, adminVars
<1>2. row[s] = NoRow("pending")
  BY <1>1 DEF OrderInv, TodoInOrder, TableInOrder
<1>3. Grantable(row[s], at[w])
  BY <1>2 DEF Grantable, Due, Free, NoRow, None
<1>4. /\ row' = [row EXCEPT ![s] = Leased(@, After(at[w], Lease), NewToken(s))]
      /\ held' = [held EXCEPT ![w][s] = NewToken(s)]
  BY <1>3 DEF TryClaim
<1>5. /\ \A r \in RowIds \ {s} : row'[r] = row[r] /\ held'[w][r] = held[w][r]
      /\ held'[w][s] = NewToken(s)
      /\ row'[s] = Leased(row[s], After(at[w], Lease), NewToken(s))
  BY <1>4 DEF TypeOK
<1>6. NewToken(s) # 0
  BY DEF NewToken, TypeOK
<1>7. row'[s].status = "processing" /\ row'[s].token = NewToken(s)
  BY <1>2, <1>5 DEF Leased, NoRow
<1>8. row[s].status = "pending"
  BY <1>2 DEF NoRow
<1>9. \A r \in RowIds : SettledRow(r)' <=> SettledRow(r)
  BY <1>5, <1>7, <1>8 DEF SettledRow
<1>10. \A r \in RowIds : Handled(w, r)' <=> Handled(w, r)
  BY <1>1, <1>9 DEF Handled
<1>11. TableInOrder(w)'
  <2>1. \A r \in RowIds :
          /\ row'[r].status # "deleted"
          /\ row'[r].status = "pending" => row'[r] = NoRow("pending")
          /\ row'[r].status = "processing" <=> held'[w][r] # 0
          /\ row'[r].status = "processing" => row'[r].token = held'[w][r]
    BY <1>5, <1>6, <1>7 DEF TableInOrder, OrderInv
  <2>2. ASSUME NEW q \in RowIds, NEW r \in RowIds, Earlier(q, r)
        PROVE  /\ row'[r].status # "absent" => row'[q].status # "absent"
               /\ row'[r].status \notin {"absent", "pending"} =>
                    row'[q].status # "pending"
               /\ SettledRow(r)' => SettledRow(q)'
    <3>1. q \in Nat /\ r \in Nat /\ s \in Nat /\ q < r
      BY <2>2, RowIdsAssumption DEF Earlier
    <3>2. row'[r].status # "absent" => row'[q].status # "absent"
      BY <1>5, <1>7, <1>8, <2>2 DEF TableInOrder, OrderInv
    <3>3. ASSUME row'[r].status \notin {"absent", "pending"}
          PROVE  row'[q].status # "pending"
      <4>1. CASE r = s
        <5>1. q \notin todo[w] /\ q # s
          BY <1>1, <3>1, <4>1
        <5>2. row[q].status # "pending"
          BY <1>1, <2>2, <4>1, <5>1 DEF TodoInOrder, OrderInv
        <5>3. QED
          BY <1>5, <5>1, <5>2
      <4>2. CASE r # s
        BY <1>5, <1>7, <2>2, <3>3, <4>2 DEF TableInOrder, OrderInv
      <4>3. QED
        BY <4>1, <4>2
    <3>4. SettledRow(r)' => SettledRow(q)'
      BY <1>9, <2>2 DEF TableInOrder, OrderInv
    <3>5. QED
      BY <3>2, <3>3, <3>4
  <2>3. QED
    BY <2>1, <2>2 DEF TableInOrder, Earlier
<1>12. TodoInOrder(w)'
  <2>1. \A r \in todo'[w] : r \in todo[w] /\ r # s /\ r \in RowIds
    BY <1>1 DEF TypeOK
  <2>2. \A r \in todo'[w] : row'[r].status = "pending"
    BY <1>5, <2>1 DEF TodoInOrder, OrderInv
  <2>3. ASSUME NEW q \in RowIds, NEW r \in RowIds, Earlier(q, r),
               r \in todo'[w]
        PROVE  q \in todo'[w] \/ row'[q].status # "pending"
    <3>1. q \in todo[w] \/ row[q].status # "pending"
      BY <2>1, <2>3 DEF TodoInOrder, OrderInv
    <3>2. todo'[w] = todo[w] \ {s}
      BY <1>1, <2>3
    <3>3. QED
      BY <1>5, <1>7, <3>1, <3>2
  <2>4. QED
    BY <2>2, <2>3 DEF TodoInOrder, Earlier
<1>13. DocsInOrder(w)'
  BY <1>1, <1>10 DEF DocsInOrder, OrderInv
<1>14. QED
  BY <1>1, <1>11, <1>12, <1>13 DEF OrderInv

(* Sending, and the outcome of the request, leave the table and the          *)
(* documents in order.                                                      *)
LEMMA OrderBySend ==
  ASSUME TypeOK, UpdatesFollow, NEW w \in Workers, OrderInv(w),
         NEW s \in RowIds, Send(w, s)
  PROVE  OrderInv(w)'
<1>1. /\ UNCHANGED <<row, todo, held, answer, es, orphans, admin>>
      /\ pc[w] # "replied" /\ pc'[w] = "waiting"
  BY DEF Send, UpdatesFollow, TypeOK, esVars, adminVars
<1>2. \A r \in RowIds : SettledRow(r)' <=> SettledRow(r)
  BY <1>1 DEF SettledRow
<1>3. \A r \in RowIds : Handled(w, r)' <=> Handled(w, r)
  BY <1>1, <1>2 DEF Handled
<1>4. TableInOrder(w)' /\ TodoInOrder(w)'
  BY <1>1, <1>2 DEF TableInOrder, TodoInOrder, OrderInv
<1>5. DocsInOrder(w)'
  BY <1>1, <1>3 DEF DocsInOrder, OrderInv
<1>6. QED
  BY <1>1, <1>4, <1>5 DEF OrderInv

(* The row the worker sends is its document's next one: every earlier row   *)
(* was settled, and the lease is the worker's.                              *)
LEMMA FirstHeldIsNext ==
  ASSUME TypeOK, NEW w \in Workers, TableInOrder(w), NEW s \in RowIds,
         IsFirst(s, HeldBy(w))
  PROVE  /\ row[s].status = "processing" /\ LeaseMatches(w, s)
         /\ \A q \in RowIds : Earlier(q, s) => SettledRow(q)
<1>1. row[s].status = "processing" /\ LeaseMatches(w, s)
  BY DEF TableInOrder, IsFirst, HeldBy, LeaseMatches
<1>2. ASSUME NEW q \in RowIds, Earlier(q, s)
      PROVE  SettledRow(q)
  <2>1. row[q].status \notin {"absent", "pending", "deleted"}
    BY <1>1, <1>2 DEF TableInOrder
  <2>2. row[q].status # "processing"
    <3>1. q \notin HeldBy(w)
      <4>1. q \in Nat /\ s \in Nat /\ q < s
        BY <1>2, RowIdsAssumption DEF Earlier
      <4>2. \A x \in HeldBy(w) : s <= x
        BY DEF IsFirst
      <4>3. QED
        BY <4>1, <4>2
    <3>2. QED
      BY <3>1 DEF TableInOrder, HeldBy
  <2>3. QED
    BY <2>1, <2>2 DEF SettledRow, TypeOK, RowType, Statuses
<1>3. QED
  BY <1>1, <1>2

(* The row Elasticsearch handles is the first of its document not yet        *)
(* handled, so its effect replaces that of the row before.                   *)
LEMMA OrderByEs ==
  ASSUME TypeOK, UpdatesFollow, NEW w \in Workers, OrderInv(w),
         NEW s \in RowIds, EsHandles(w, s)
  PROVE  OrderInv(w)'
<1>1. /\ UNCHANGED <<row, todo, held, orphans, admin>>
      /\ pc[w] = "waiting" /\ pc'[w] = "replied"
      /\ answer'[w] = EsStatus(s) /\ EsApply(s, held[w][s])
      /\ IsFirst(s, HeldBy(w)) /\ HeldBy(w)' = HeldBy(w)
  BY DEF EsHandles, Replied, Waiting, HeldBy, TypeOK, adminVars
<1>2. EsStatus(s) \in {"ok", "notfound"}
  BY DEF EsStatus
<1>3. \A r \in RowIds : SettledRow(r)' <=> SettledRow(r)
  BY <1>1 DEF SettledRow
<1>4. HeldBy(w) \in SUBSET RowIds
  BY DEF HeldBy
<1>5. \A r \in RowIds : Handled(w, r) <=> SettledRow(r)
  BY <1>1 DEF Handled
<1>6. \A r \in RowIds : Handled(w, r)' <=> Handled(w, r) \/ r = s
  <2>1. \A r \in RowIds : IsFirst(r, HeldBy(w)) <=> r = s
    BY <1>1, <1>4, FirstUnique
  <2>2. QED
    BY <1>1, <1>3, <1>5, <2>1 DEF Handled
<1>7. TableInOrder(w)' /\ TodoInOrder(w)'
  BY <1>1, <1>3 DEF TableInOrder, TodoInOrder, OrderInv
<1>8. row[s].status = "processing"
  BY <1>1, FirstHeldIsNext DEF OrderInv
<1>9. \A q \in RowIds : Earlier(q, s) => SettledRow(q)
  BY <1>1, FirstHeldIsNext DEF OrderInv
<1>10. \A q \in RowIds : DocOf[q] = DocOf[s] /\ SettledRow(q) => Earlier(q, s)
  <2> SUFFICES ASSUME NEW q \in RowIds, DocOf[q] = DocOf[s], SettledRow(q),
                      ~(q < s)
               PROVE  FALSE
    BY DEF Earlier
  <2>1. q # s
    BY <1>8 DEF SettledRow
  <2>2. Earlier(s, q)
    BY <2>1, RowIdsAssumption DEF Earlier
  <2>3. SettledRow(s)
    BY <2>2 DEF OrderInv, TableInOrder
  <2>4. QED
    BY <1>8, <2>3 DEF SettledRow
<1>11. es'[DocOf[s]] = Effect(s) /\ \A d \in Docs \ {DocOf[s]} : es'[d] = es[d]
  <2>1. DocOf[s] \in Docs /\ es \in [Docs -> RowIds \cup {Absent}]
    BY DocAssumption DEF TypeOK
  <2>2. es' = [es EXCEPT ![DocOf[s]] =
                 IF EsStatus(s) # "ok" THEN @
                 ELSE IF ActionOf[s] = "delete" THEN Absent ELSE s]
    BY <1>1 DEF EsApply
  <2>3. CASE ActionOf[s] = "delete"
    BY <2>1, <2>2, <2>3 DEF EsStatus, Effect
  <2>4. CASE ActionOf[s] = "index"
    BY <2>1, <2>2, <2>4 DEF EsStatus, Effect
  <2>5. CASE ActionOf[s] = "update"
    <3>1. PICK q \in RowIds : /\ Earlier(q, s) /\ ActionOf[q] # "delete"
                              /\ \A x \in RowIds : Earlier(x, s) => x <= q
      BY <2>5 DEF UpdatesFollow
    <3>2. Handled(w, q) /\ DocOf[q] = DocOf[s]
      BY <1>5, <1>9, <3>1 DEF Earlier
    <3>3. \A x \in RowIds : Handled(w, x) /\ DocOf[x] = DocOf[q] => x <= q
      BY <1>5, <1>10, <3>1, <3>2
    <3>4. es[DocOf[s]] = q
      BY <3>1, <3>2, <3>3 DEF OrderInv, DocsInOrder, Effect
    <3>5. q # Absent
      BY RowIdsAssumption DEF Absent
    <3>6. QED
      BY <2>1, <2>2, <2>5, <3>4, <3>5 DEF EsStatus, Effect
  <2>6. QED
    BY <2>3, <2>4, <2>5 DEF UpdatesFollow, Supported
<1>12. DocsInOrder(w)'
  <2>1. ASSUME NEW r \in RowIds, Handled(w, r)',
               \A q \in RowIds : Handled(w, q)' /\ DocOf[q] = DocOf[r] => q <= r
        PROVE  es'[DocOf[r]] = Effect(r)
    <3>1. CASE r = s
      BY <1>11, <3>1
    <3>2. CASE r # s
      <4>1. SettledRow(r)
        BY <1>5, <1>6, <2>1, <3>2
      <4>2. DocOf[r] # DocOf[s]
        <5> SUFFICES ASSUME DocOf[r] = DocOf[s]
                     PROVE  FALSE
          OBVIOUS
        <5>1. s <= r /\ r < s
          BY <1>6, <1>10, <2>1, <4>1 DEF Earlier
        <5>2. QED
          BY <5>1, RowIdsAssumption
      <4>3. es[DocOf[r]] = Effect(r)
        BY <1>5, <1>6, <2>1, <4>1 DEF OrderInv, DocsInOrder
      <4>4. QED
        BY <1>11, <4>2, <4>3, DocAssumption
    <3>3. QED
      BY <3>1, <3>2
  <2>2. ASSUME NEW d \in Docs,
               \A r \in RowIds : DocOf[r] = d => ~Handled(w, r)'
        PROVE  es'[d] = Absent
    BY <1>6, <1>11, <2>2 DEF OrderInv, DocsInOrder
  <2>3. QED
    BY <2>1, <2>2 DEF DocsInOrder, Effect
<1>13. QED
  BY <1>1, <1>2, <1>7, <1>12 DEF OrderInv

(* Without a fault a delivery ends its row for good, in the order of ids     *)
(* (outbox_relay.go:213-290).                                                *)
LEMMA OrderByOutcome ==
  ASSUME TypeOK, NEW w \in Workers, OrderInv(w), faults' = 0,
         NEW s \in RowIds, OutcomeStep(w, s)
  PROVE  OrderInv(w)'
<1>1. pc[w] = "replied" /\ IsFirst(s, HeldBy(w))
  BY DEF OutcomeStep, MarkSent, MarkRetry, MarkDead, WriteBack
<1>2. /\ row[s].status = "processing" /\ LeaseMatches(w, s)
      /\ \A q \in RowIds : Earlier(q, s) => SettledRow(q)
  BY <1>1, FirstHeldIsNext DEF OrderInv
<1>3. PICK new : /\ WriteBack(w, s, new) /\ new.status \in {"sent", "dead"}
  <2>1. answer[w] \in {"ok", "notfound"} /\ row[s] \in RowType
    BY <1>1 DEF OrderInv, TypeOK
  <2>2. ~MarkRetry(w, s)
    BY <2>1 DEF MarkRetry, RetryAgain, Retryable, TransportFailure
  <2>3. /\ SentRow(row[s]).status = "sent"
        /\ DeadRow(row[s], snap[w][s] + 1).status = "dead"
    BY <2>1, RowStatus
  <2>4. QED
    BY <2>2, <2>3 DEF OutcomeStep, MarkSent, MarkDead
<1>4. row' = [row EXCEPT ![s] = new] /\ NextInBatch(w, s)
  BY <1>2, <1>3 DEF WriteBack, Fault, TypeOK
<1>5. /\ row'[s] = new
      /\ \A r \in RowIds \ {s} : row'[r] = row[r] /\ held'[w][r] = held[w][r]
      /\ held'[w][s] = 0
      /\ pc'[w] # "replied" /\ todo' = todo
      /\ UNCHANGED <<es, orphans, admin>>
  BY <1>3, <1>4 DEF NextInBatch, WriteBack, TypeOK, esVars, adminVars
<1>6. \A r \in RowIds : SettledRow(r)' <=> SettledRow(r) \/ r = s
  BY <1>3, <1>5 DEF SettledRow
<1>7. \A r \in RowIds : Handled(w, r)' <=> Handled(w, r)
  <2>1. HeldBy(w) \in SUBSET RowIds
    BY DEF HeldBy
  <2>2. \A r \in RowIds : IsFirst(r, HeldBy(w)) <=> r = s
    BY <1>1, <2>1, FirstUnique
  <2>3. QED
    BY <1>1, <1>5, <1>6, <2>2 DEF Handled
<1>8. TableInOrder(w)'
  <2>1. \A r \in RowIds :
          /\ row'[r].status # "deleted"
          /\ row'[r].status = "pending" => row'[r] = NoRow("pending")
          /\ row'[r].status = "processing" <=> held'[w][r] # 0
          /\ row'[r].status = "processing" => row'[r].token = held'[w][r]
    BY <1>3, <1>5 DEF TableInOrder, OrderInv
  <2>2. ASSUME NEW q \in RowIds, NEW r \in RowIds, Earlier(q, r)
        PROVE  /\ row'[r].status # "absent" => row'[q].status # "absent"
               /\ row'[r].status \notin {"absent", "pending"} =>
                    row'[q].status # "pending"
               /\ SettledRow(r)' => SettledRow(q)'
    <3>1. /\ row'[r].status \in {"absent", "pending"} =>
               row[r].status = row'[r].status
          /\ row'[q].status \in {"absent", "pending"} =>
               row[q].status = row'[q].status
          /\ row'[r].status = "absent" <=> row[r].status = "absent"
          /\ row'[r].status = "pending" <=> row[r].status = "pending"
      BY <1>2, <1>3, <1>5
    <3>2. SettledRow(r)' => SettledRow(q)'
      BY <1>2, <1>6, <2>2 DEF TableInOrder, OrderInv
    <3>3. QED
      BY <2>2, <3>1, <3>2 DEF TableInOrder, OrderInv
  <2>3. QED
    BY <2>1, <2>2 DEF TableInOrder, Earlier
<1>9. TodoInOrder(w)'
  <2>1. \A r \in todo[w] : r \in RowIds /\ row[r].status = "pending"
    BY DEF TodoInOrder, OrderInv, TypeOK
  <2>2. \A r \in todo[w] : row'[r].status = "pending"
    BY <1>2, <1>5, <2>1
  <2>3. \A q \in RowIds : row'[q].status = "pending" => row[q].status = "pending"
    BY <1>3, <1>5
  <2>4. \A q, r \in RowIds : Earlier(q, r) /\ r \in todo[w] =>
          q \in todo[w] \/ row'[q].status # "pending"
    BY <2>3 DEF TodoInOrder, OrderInv
  <2>5. QED
    BY <1>5, <2>2, <2>4 DEF TodoInOrder, Earlier
<1>10. DocsInOrder(w)'
  BY <1>5, <1>7 DEF DocsInOrder, OrderInv, Effect
<1>11. QED
  BY <1>5, <1>8, <1>9, <1>10 DEF OrderInv

(* Every step of the only worker, without a fault or a command, keeps the   *)
(* order.                                                                   *)
LEMMA OrderStep ==
  ASSUME UpdatesFollow, NEW w, Workers = {w}, TypeOK, IdleHoldsNothing,
         faults = 0 /\ adminOps = 0 => OrderInv(w),
         [Next]_vars, faults' = 0, adminOps' = 0
  PROVE  OrderInv(w)'
<1>1. /\ faults = 0 /\ adminOps = 0 /\ ~Fault /\ ~AdminStep
  <2>1. ~Fault /\ ~AdminStep
    BY DEF Fault, AdminStep, TypeOK
  <2>2. faults' \in {faults, faults + 1} /\ adminOps' \in {adminOps, adminOps + 1}
    <3>1. ASSUME NEW p \in Workers, NEW r \in RowIds, NEW new, WriteBack(p, r, new)
          PROVE  faults' \in {faults, faults + 1} /\ adminOps' = adminOps
      BY <3>1 DEF WriteBack, Fault, adminVars
    <3>2. ASSUME NEW p \in Workers, Work(p) \/ Disturb(p)
          PROVE  faults' \in {faults, faults + 1} /\ adminOps' = adminOps
      BY <3>1, <3>2 DEF Work, Disturb, QueryCandidates, TryClaim, Send,
         EsHandles, MarkSent, MarkRetry, MarkDead, ClaimError, Crash,
         EsHandlesAnswerLost, EsHandlesRepeated, EsRefuses, NoResponse,
         Replied, Fault, adminVars
    <3>3. ASSUME Operator
          PROVE  /\ faults' \in {faults, faults + 1}
                 /\ adminOps' \in {adminOps, adminOps + 1}
      BY <3>3 DEF Operator, ReplayAtOnce, SelectForReplay, ReplaySelected,
         CleanupAtOnce, SelectForCleanup, CleanupSelected, AdminUnchanged,
         AdminStep
    <3>4. QED
      BY <3>2, <3>3 DEF Next, Tick, Insert, AdminStep, EsHandlesOrphan, vars,
         adminVars
  <2>3. faults \in Nat /\ adminOps \in Nat
    BY DEF TypeOK
  <2>4. QED
    BY <2>1, <2>2, <2>3
<1>2. OrderInv(w) /\ w \in Workers
  BY <1>1
<1>3. ~(\E p \in Workers : Disturb(p))
  BY <1>1 DEF Disturb, ClaimError, Crash, EsHandlesAnswerLost,
     EsHandlesRepeated, EsRefuses, NoResponse
<1>4. ~(\E o \in orphans : EsHandlesOrphan(o)) /\ ~Operator
  BY <1>1, <1>2 DEF OrderInv, Operator, ReplayAtOnce, SelectForReplay,
     ReplaySelected, CleanupAtOnce, SelectForCleanup, CleanupSelected
<1>5. ASSUME Work(w)
      PROVE  OrderInv(w)'
  <2>1. CASE QueryCandidates(w)
    BY <1>2, <2>1, OrderByQuery DEF IdleHoldsNothing, QueryCandidates
  <2>2. QED
    BY <1>2, <1>5, <2>1, OrderByClaim, OrderBySend, OrderByEs, OrderByOutcome
    DEF Work, OutcomeStep
<1>6. ASSUME NEW s \in RowIds, Insert(s)
      PROVE  OrderInv(w)'
  BY <1>1, <1>2, <1>6, OrderByInsert
<1>7. ASSUME Tick \/ UNCHANGED vars
      PROVE  OrderInv(w)'
  <2>1. UNCHANGED <<row, pc, todo, held, answer, es, orphans, admin>>
    BY <1>7 DEF Tick, vars, workerVars, esVars, adminVars
  <2>2. \A r \in RowIds : SettledRow(r)' <=> SettledRow(r)
    BY <2>1 DEF SettledRow
  <2>3. \A r \in RowIds : Handled(w, r)' <=> Handled(w, r)
    BY <2>1, <2>2 DEF Handled, HeldBy
  <2>4. TableInOrder(w)' /\ TodoInOrder(w)'
    BY <1>2, <2>1, <2>2 DEF TableInOrder, TodoInOrder, OrderInv
  <2>5. DocsInOrder(w)'
    BY <1>2, <2>1, <2>3 DEF DocsInOrder, OrderInv
  <2>6. QED
    BY <1>2, <2>1, <2>4, <2>5 DEF OrderInv
<1>8. QED
  BY <1>3, <1>4, <1>5, <1>6, <1>7 DEF Next

(* One worker delivers the events of a document in order: whatever commits  *)
(* between its queries, however small the batches and however late the      *)
(* worker, once every row is settled each document has the effect of its    *)
(* last row - unless a request failed or an operator acted.                 *)
THEOREM DeliveredInOrder ==
  ASSUME UpdatesFollow
  PROVE  Spec => []InOrderUnlessDisturbed
<1>1. CASE Cardinality(Workers) # 1
  <2>1. InOrderUnlessDisturbed
    BY <1>1 DEF InOrderUnlessDisturbed
  <2>2. QED
    BY <2>1, PTL
<1>2. CASE Cardinality(Workers) = 1
  <2>1. PICK w : Workers = {w}
    BY <1>2, WorkersAssumption, FS_Singleton
  <2> DEFINE Ordered == faults = 0 /\ adminOps = 0 => OrderInv(w)
  <2>2. Init => IdleHoldsNothing /\ Ordered
    <3> SUFFICES ASSUME Init
                 PROVE  IdleHoldsNothing /\ OrderInv(w)
      OBVIOUS
    <3>1. /\ \A r \in RowIds : row[r] = NoRow("absent")
                              /\ row[r].status = "absent" /\ held[w][r] = 0
          /\ \A p \in Workers : HeldBy(p) = {}
          /\ pc[w] = "idle" /\ todo[w] = {}
          /\ \A d \in Docs : es[d] = Absent
          /\ admin.op = "none" /\ orphans = {}
      BY <2>1 DEF Init, NoRow, NoTokens, HeldBy
    <3>2. \A r \in RowIds : ~SettledRow(r) /\ ~Handled(w, r)
      BY <3>1 DEF SettledRow, Handled
    <3>3. QED
      BY <3>1, <3>2 DEF IdleHoldsNothing, OrderInv, TableInOrder,
         TodoInOrder, DocsInOrder
  <2>3. TypeOK /\ IdleHoldsNothing /\ Ordered /\ [Next]_vars
          => IdleHoldsNothing' /\ Ordered'
    BY <2>1, IdleStep, OrderStep
  <2>4. TypeOK /\ Ordered => InOrderUnlessDisturbed
    <3> SUFFICES ASSUME TypeOK, OrderInv(w),
                        \A r \in RowIds : Settled(r),
                        NEW d \in Docs, NEW r \in RowIds, LastRow(d, r)
                 PROVE  es[d] = Effect(r)
      BY DEF InOrderUnlessDisturbed, LastRowsInEffect, Effect
    <3>1. DocOf[r] = d /\ SettledRow(r)
      BY DEF LastRow, Settled, SettledRow
    <3>2. \A q \in RowIds : Handled(w, q) /\ DocOf[q] = DocOf[r] => q <= r
      <4> SUFFICES ASSUME NEW q \in RowIds, Handled(w, q), DocOf[q] = DocOf[r]
                   PROVE  q <= r
        OBVIOUS
      <4>1. row[q].status # "absent"
        BY DEF Handled, SettledRow, IsFirst, HeldBy, OrderInv, TableInOrder
      <4>2. QED
        BY <3>1, <4>1 DEF LastRow
    <3>3. QED
      BY <3>1, <3>2 DEF OrderInv, DocsInOrder, Handled
  <2>5. QED
    BY <2>2, <2>3, <2>4, TypeCorrect, PTL DEF Spec
<1>3. QED
  BY <1>1, <1>2
============================================================================
