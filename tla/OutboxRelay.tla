---------------------------- MODULE OutboxRelay ----------------------------
(***************************************************************************)
(* The outbox table and the workers that deliver its rows to               *)
(* Elasticsearch: outbox_store.go, outbox_relay.go and the operator        *)
(* commands of ops.go that rewrite or delete rows.                         *)
(*                                                                         *)
(* A worker is any goroutine that runs runOutboxBatch: the relay loop of   *)
(* one process, the relay loop of another, or a DrainOutbox call.  Every   *)
(* SQL statement is one atomic step, every HTTP request is at least two    *)
(* (it is sent, it is handled), and nothing else is atomic: between any    *)
(* two steps of a worker the clock may advance, other workers and the      *)
(* operator may act, and the worker may die.                               *)
(***************************************************************************)
EXTENDS Integers, FiniteSets

CONSTANTS
  RowIds,        \* ids of the outbox rows of the instance (auto-increment)
  Docs,          \* Elasticsearch documents
  DocOf,         \* the document a row is about (index alias, document id)
  ActionOf,      \* the row's action
  Workers,       \* goroutines running runOutboxBatch
  BatchSize,     \* OutboxConfig.BatchSize
  Lease,         \* OutboxConfig.Lease
  PollInterval,  \* OutboxConfig.PollInterval, the base of the backoff
  MaxAttempts,   \* OutboxConfig.MaxAttempts
  CleanupStatuses, \* statuses the operator passes to CleanupOutbox
  WithLimit      \* the operator passes a Limit: select first, then write

\* Bounds of the instance; they appear in guards only.
CONSTANTS
  MaxTime,       \* the clock stops here
  Horizon,       \* timestamps saturate here
  MaxClaims,     \* leases one row may be given
  MaxFaults,     \* refusals, lost answers, crashes and failed statements
  MaxAdmin       \* operator commands

ASSUME RowIdsAssumption == RowIds \subseteq Nat \ {0}
ASSUME DocAssumption == DocOf \in [RowIds -> Docs]
ASSUME WorkersAssumption == IsFiniteSet(Workers)
\* normalizeOutboxConfig replaces every non-positive setting by its default.
ASSUME ConfigAssumption ==
  /\ BatchSize \in Nat \ {0}
  /\ Lease \in Nat \ {0}
  /\ PollInterval \in Nat \ {0}
  /\ MaxAttempts \in Nat \ {0}
ASSUME BoundsAssumption ==
  /\ MaxTime \in Nat
  /\ Horizon \in Nat
  /\ MaxClaims \in Nat
  /\ MaxFaults \in Nat
  /\ MaxAdmin \in Nat

VARIABLES
  now,       \* the clock the workers read
  row,       \* the outbox table
  claims,    \* leases each row was given: the next token is the next number
  pc,        \* what each worker does
  at,        \* `now` as claimPending captured it
  todo,      \* candidates of the query not tried yet
  snap,      \* attempts of each candidate as the query returned them
  held,      \* lease token of each row of the worker's batch, 0 for none
  answer,    \* outcome of the request for the first row of the batch
  es,        \* the row whose content each document has, or Absent
  orphans,   \* requests given up by their sender that may still be handled
  accepted,  \* history: requests Elasticsearch handled with a 2xx
  failed,    \* history: failures written to a row since insert or replay
  admin,     \* the ids an operator command has selected
  faults,    \* faults so far
  adminOps   \* operator commands so far

workerVars == <<pc, at, todo, snap, held, answer>>
esVars == <<es, orphans, accepted>>
adminVars == <<admin, adminOps>>
vars == <<now, row, claims, pc, at, todo, snap, held, answer, es, orphans,
          accepted, failed, admin, faults, adminOps>>

None == 0        \* SQL NULL in a time column
Absent == 0      \* the document does not exist

Statuses == {"pending", "processing", "sent", "dead"}
Answers == {"none", "ok", "notfound", "busy", "bad", "unsupported"}
RowType ==
  [status : Statuses \cup {"absent", "deleted"}, attempts : Nat,
   retryAt : Nat, leasedUntil : Nat, token : Nat]

Min2(a, b) == IF a <= b THEN a ELSE b
Max2(a, b) == IF a >= b THEN a ELSE b

\* Rows are claimed and sent in the order of their ids.
IsFirstMutant(r, S) == r \in S /\ \A q \in S : q <= r
IsFirst(r, S) == r \in S /\ \A q \in S : r <= q
HeldBy(p) == {r \in RowIds : held[p][r] # 0}
NoTokens == [r \in RowIds |-> 0]

----------------------------------------------------------------------------
(* Time.  A timestamp saturates at Horizon; with Horizon well above MaxTime *)
(* this never happens.                                                      *)

AfterMutant(t, d) == Min2(t - d, Horizon)
After(t, d) == Min2(t + d, Horizon)

\* relayBackoff: PollInterval << min(max(attempt-1, 0), 8).
BackoffFactor == <<1, 2, 4, 8, 16, 32, 64, 128, 256>>
Backoff(attempt) ==
  PollInterval * BackoffFactor[Min2(Max2(attempt - 1, 0), 8) + 1]

----------------------------------------------------------------------------
(* Rows.                                                                    *)

NoRow(s) == [status |-> s, attempts |-> 0, retryAt |-> None,
             leasedUntil |-> None, token |-> 0]

Due(rw, t) == rw.retryAt = None \/ rw.retryAt <= t

FreeIgnoringLeaseMutant(rw, t) == rw.status \in {"pending", "processing"}
FreePendingOnlyMutant(rw, t) ==
  rw.status = "pending" /\ (rw.leasedUntil = None \/ rw.leasedUntil <= t)
Free(rw, t) ==
  \/ rw.status = "pending" /\ (rw.leasedUntil = None \/ rw.leasedUntil <= t)
  \/ rw.status = "processing" /\ rw.leasedUntil # None /\ rw.leasedUntil <= t

\* The WHERE of the candidate query, and the WHERE of the conditional UPDATE
\* that takes the lease: the same conditions, evaluated at different times.
Candidate(rw, t) == Due(rw, t) /\ Free(rw, t)
GrantableMutant(rw, t) == Free(rw, t)
Grantable(rw, t) == Due(rw, t) /\ Free(rw, t)

\* The oldest candidates, at most four batches of them.
Candidates ==
  LET C == {r \in RowIds : Candidate(row[r], now)}
  IN  {r \in C : Cardinality({q \in C : q < r}) < 4 * BatchSize}

Leased(rw, until, token) ==
  [rw EXCEPT !.status = "processing", !.leasedUntil = until, !.token = token]
SentRow(rw) ==
  [rw EXCEPT !.status = "sent", !.leasedUntil = None, !.token = 0,
             !.retryAt = None]
RetryRow(rw, attempts, retryAt) ==
  [rw EXCEPT !.status = "pending", !.attempts = attempts,
             !.retryAt = retryAt, !.leasedUntil = None, !.token = 0]
DeadRow(rw, attempts) ==
  [rw EXCEPT !.status = "dead", !.attempts = attempts, !.leasedUntil = None,
             !.token = 0, !.retryAt = None]
\* ReplayOutbox leaves lease_token as it is.
ReplayedRow(rw) ==
  [rw EXCEPT !.status = "pending", !.attempts = 0, !.retryAt = None,
             !.leasedUntil = None]

----------------------------------------------------------------------------
(* Initial state.                                                           *)

Init ==
  /\ now = 0
  /\ row = [r \in RowIds |-> NoRow("absent")]
  /\ claims = NoTokens
  /\ pc = [p \in Workers |-> "idle"]
  /\ at = [p \in Workers |-> 0]
  /\ todo = [p \in Workers |-> {}]
  /\ snap = [p \in Workers |-> NoTokens]
  /\ held = [p \in Workers |-> NoTokens]
  /\ answer = [p \in Workers |-> "none"]
  /\ es = [d \in Docs |-> Absent]
  /\ orphans = {}
  /\ accepted = {}
  /\ failed = [r \in RowIds |-> [http |-> 0, net |-> 0]]
  /\ admin = [op |-> "none", ids |-> {}]
  /\ faults = 0
  /\ adminOps = 0

Tick ==
  /\ now < MaxTime
  /\ now' = now + 1
  /\ UNCHANGED <<row, claims, workerVars, esVars, failed, adminVars, faults>>

Fault == faults < MaxFaults /\ faults' = faults + 1
AdminStep == adminOps < MaxAdmin /\ adminOps' = adminOps + 1

\* The earlier events of r's document are in the table.
InTurn(r) ==
  \A q \in RowIds : q < r /\ DocOf[q] = DocOf[r] => row[q].status # "absent"

\* A transaction commits its outbox row.  Ids are handed out before the commit,
\* so rows may appear out of order.  Those that callbacks capture for one
\* document may not, their transactions exclude each other on the document's
\* source row; the Enqueue commands of doc_ops.go take no such lock, so that
\* an operator's row and a captured one may commit in either order.
Insert(r) ==
  /\ row[r].status = "absent"
  /\ \/ InTurn(r) /\ UNCHANGED adminVars
     \/ AdminStep /\ UNCHANGED admin
  /\ row' = [row EXCEPT ![r] = NoRow("pending")]
  /\ UNCHANGED <<now, claims, workerVars, esVars, failed, faults>>

----------------------------------------------------------------------------
(* claimPending.                                                            *)

QueryCandidates(p) ==
  /\ pc[p] = "idle"
  /\ Candidates # {}
  /\ pc' = [pc EXCEPT ![p] = "claiming"]
  /\ at' = [at EXCEPT ![p] = now]
  /\ todo' = [todo EXCEPT ![p] = Candidates]
  /\ snap' = [snap EXCEPT ![p] =
       [r \in RowIds |-> IF r \in Candidates THEN row[r].attempts ELSE 0]]
  /\ UNCHANGED <<now, row, claims, held, answer, esVars, failed, adminVars,
                 faults>>

\* The loop of claimPending goes on until the batch is full or the
\* candidates are exhausted.
NextCandidate(p, r) ==
  LET rest == todo[p] \ {r}
      mine == {q \in RowIds : held'[p][q] # 0}
      done == rest = {} \/ Cardinality(mine) >= BatchSize
  IN  /\ pc' = [pc EXCEPT ![p] = IF ~done THEN "claiming"
                                 ELSE IF mine = {} THEN "idle" ELSE "sending"]
      /\ todo' = [todo EXCEPT ![p] = IF done THEN {} ELSE rest]
      /\ at' = [at EXCEPT ![p] = IF done THEN 0 ELSE @]
      /\ snap' = [snap EXCEPT ![p] =
           [q \in RowIds |-> IF done /\ q \notin mine THEN 0 ELSE @[q]]]

\* tryClaimRow: the UPDATE takes the row if its conditions still hold.
NewTokenMutant(r) == Max2(claims[r], 1)
NewToken(r) == claims[r] + 1

TryClaim(p, r) ==
  /\ pc[p] = "claiming"
  /\ IsFirst(r, todo[p])
  /\ \/ /\ Grantable(row[r], at[p])
        /\ claims[r] < MaxClaims
        /\ row' = [row EXCEPT ![r] =
                     Leased(@, After(at[p], Lease), NewToken(r))]
        /\ claims' = [claims EXCEPT ![r] = @ + 1]
        /\ held' = [held EXCEPT ![p][r] = NewToken(r)]
     \/ /\ ~Grantable(row[r], at[p])
        /\ UNCHANGED <<row, claims, held>>
  /\ NextCandidate(p, r)
  /\ UNCHANGED <<now, answer, esVars, failed, adminVars, faults>>

\* The batch is abandoned.  Rows already claimed keep their lease.
Drop(p) ==
  /\ pc' = [pc EXCEPT ![p] = "idle"]
  /\ at' = [at EXCEPT ![p] = 0]
  /\ todo' = [todo EXCEPT ![p] = {}]
  /\ snap' = [snap EXCEPT ![p] = NoTokens]
  /\ held' = [held EXCEPT ![p] = NoTokens]
  /\ answer' = [answer EXCEPT ![p] = "none"]

\* A statement of the claim loop fails: claimPending returns no row at all.
ClaimError(p) ==
  /\ pc[p] = "claiming"
  /\ Fault
  /\ Drop(p)
  /\ UNCHANGED <<now, row, claims, esVars, failed, adminVars>>

----------------------------------------------------------------------------
(* sendOutboxRow.                                                           *)

Supported(r) == ActionOf[r] \in {"index", "update", "delete"}

Send(p, r) ==
  /\ pc[p] = "sending"
  /\ IsFirst(r, HeldBy(p))
  /\ \/ /\ Supported(r)
        /\ pc' = [pc EXCEPT ![p] = "waiting"]
        /\ UNCHANGED answer
     \/ /\ ~Supported(r)
        /\ pc' = [pc EXCEPT ![p] = "replied"]
        /\ answer' = [answer EXCEPT ![p] = "unsupported"]
  /\ UNCHANGED <<now, row, claims, at, todo, snap, held, esVars, failed,
                 adminVars, faults>>

\* Elasticsearch handles the request of row r sent under a lease token: an
\* update or a delete of a document that does not exist is a 404.
EsStatus(r) ==
  IF ActionOf[r] = "index" \/ es[DocOf[r]] # Absent THEN "ok" ELSE "notfound"

EsApply(r, token) ==
  /\ es' = [es EXCEPT ![DocOf[r]] =
              IF EsStatus(r) # "ok" THEN @
              ELSE IF ActionOf[r] = "delete" THEN Absent ELSE r]
  /\ accepted' = IF EsStatus(r) # "ok" THEN accepted
                 ELSE accepted \cup {[id |-> r, token |-> token]}

Replied(p, status) ==
  /\ pc' = [pc EXCEPT ![p] = "replied"]
  /\ answer' = [answer EXCEPT ![p] = status]
  /\ UNCHANGED <<now, row, claims, at, todo, snap, held, failed, adminVars>>

Waiting(p, r) == pc[p] = "waiting" /\ IsFirst(r, HeldBy(p))

EsHandles(p, r) ==
  /\ Waiting(p, r)
  /\ EsApply(r, held[p][r])
  /\ Replied(p, EsStatus(r))
  /\ UNCHANGED <<orphans, faults>>

EsHandlesAnswerLost(p, r) ==
  /\ Waiting(p, r)
  /\ Fault
  /\ EsApply(r, held[p][r])
  /\ Replied(p, "none")
  /\ UNCHANGED orphans

\* The client sends an unanswered request again by itself (syncer.go:94-98):
\* Elasticsearch has handled it once, and the worker still waits.
EsHandlesRepeated(p, r) ==
  /\ Waiting(p, r)
  /\ Fault
  /\ EsApply(r, held[p][r])
  /\ UNCHANGED <<now, row, claims, workerVars, orphans, failed, adminVars>>

\* 429/502/503/504 ("busy") or any other refusal ("bad").
EsRefuses(p, r) ==
  /\ Waiting(p, r)
  /\ Fault
  /\ \E status \in {"busy", "bad"} : Replied(p, status)
  /\ UNCHANGED esVars

\* The request is given up (connection failure, the Lease-long timeout, a
\* cancelled relay); it may be lost or still be on its way.
NoResponse(p, r) ==
  /\ Waiting(p, r)
  /\ Fault
  /\ Replied(p, "none")
  /\ orphans' \in {orphans, orphans \cup {[id |-> r, token |-> held[p][r]]}}
  /\ UNCHANGED <<es, accepted>>

EsHandlesOrphan(o) ==
  /\ o \in orphans
  /\ orphans' = orphans \ {o}
  /\ EsApply(o.id, o.token)
  /\ UNCHANGED <<now, row, claims, workerVars, failed, adminVars, faults>>

----------------------------------------------------------------------------
(* processOutboxRow, after the request: the outcome is written back.        *)

\* classifyRetryable and the transport failures.
TransportFailure(status) == status = "none"
Retryable(status) == TransportFailure(status) \/ status = "busy"

RetryAgainMutant(p, r) ==
  /\ Retryable(answer[p])
  /\ TransportFailure(answer[p]) \/ snap[p][r] + 1 < MaxAttempts
RetryAgain(p, r) ==
  /\ Retryable(answer[p])
  /\ TransportFailure(answer[p]) \/ snap[p][r] < MaxAttempts

\* The WHERE of updateClaimedRow.
LeaseMatchesStatusOnlyMutant(p, r) == row[r].status = "processing"
LeaseMatchesIdOnlyMutant(p, r) == row[r].status \in Statuses
LeaseMatches(p, r) ==
  row[r].status = "processing" /\ row[r].token = held[p][r]

\* The row leaves the batch; the next one is sent, or the worker is idle.
NextInBatch(p, r) ==
  /\ held' = [held EXCEPT ![p][r] = 0]
  /\ snap' = [snap EXCEPT ![p][r] = 0]
  /\ pc' = [pc EXCEPT ![p] = IF HeldBy(p) = {r} THEN "idle" ELSE "sending"]
  /\ answer' = [answer EXCEPT ![p] = "none"]
  /\ UNCHANGED <<at, todo>>

Record(p, r) ==
  failed' = CASE answer[p] = "ok" -> failed
              [] answer[p] = "none" -> [failed EXCEPT ![r].net = @ + 1]
              [] OTHER -> [failed EXCEPT ![r].http = @ + 1]

\* The write-back succeeds, is refused because the lease is gone, or fails
\* with a database error after or before it took effect.  Only the first one
\* lets the batch go on.
WriteBack(p, r, new) ==
  /\ pc[p] = "replied"
  /\ IsFirst(r, HeldBy(p))
  /\ \/ /\ LeaseMatches(p, r)
        /\ row' = [row EXCEPT ![r] = new]
        /\ Record(p, r)
        /\ NextInBatch(p, r)
        /\ UNCHANGED faults
     \/ /\ ~LeaseMatches(p, r)
        /\ Drop(p)
        /\ UNCHANGED <<row, failed, faults>>
     \/ /\ LeaseMatches(p, r)
        /\ Fault
        /\ \/ row' = [row EXCEPT ![r] = new] /\ Record(p, r)
           \/ UNCHANGED <<row, failed>>
        /\ Drop(p)
  /\ UNCHANGED <<now, claims, esVars, adminVars>>

MarkSent(p, r) ==
  /\ answer[p] = "ok"
  /\ WriteBack(p, r, SentRow(row[r]))

MarkRetry(p, r) ==
  /\ answer[p] # "ok"
  /\ RetryAgain(p, r)
  /\ WriteBack(p, r, RetryRow(row[r], snap[p][r] + 1,
                              After(now, Backoff(snap[p][r] + 1))))

MarkDead(p, r) ==
  /\ answer[p] # "ok"
  /\ ~RetryAgain(p, r)
  /\ WriteBack(p, r, DeadRow(row[r], snap[p][r] + 1))

\* The worker's process dies, with or without a request on its way.
Crash(p) ==
  /\ pc[p] # "idle"
  /\ Fault
  /\ Drop(p)
  /\ \/ UNCHANGED orphans
     \/ \E r \in RowIds :
          /\ Waiting(p, r)
          /\ orphans' = orphans \cup {[id |-> r, token |-> held[p][r]]}
  /\ UNCHANGED <<now, row, claims, es, accepted, failed, adminVars>>

----------------------------------------------------------------------------
(* ReplayOutbox and CleanupOutbox.                                          *)

Existing == {r \in RowIds : row[r].status \in Statuses}
DeadRows == {r \in RowIds : row[r].status = "dead"}

AdminIdle == admin.op = "none"
AdminUnchanged == UNCHANGED <<now, claims, workerVars, esVars, faults>>

\* One UPDATE resets the rows it matches.
Replay(ids) ==
  /\ row' = [r \in RowIds |->
               IF r \in ids THEN ReplayedRow(row[r]) ELSE row[r]]
  /\ failed' = [r \in RowIds |->
                  IF r \in ids THEN [http |-> 0, net |-> 0] ELSE failed[r]]

\* Without a limit: by id, whatever the status, or every dead row.
ReplayAtOnce ==
  /\ AdminStep
  /\ \/ \E ids \in SUBSET Existing : ids # {} /\ Replay(ids)
     \/ DeadRows # {} /\ Replay(DeadRows)
  /\ UNCHANGED admin
  /\ AdminUnchanged

\* With a limit: the ids are selected first, the UPDATE names only the ids.
SelectForReplay ==
  /\ WithLimit
  /\ AdminIdle
  /\ AdminStep
  /\ \E last \in DeadRows :
       admin' = [op |-> "replay", ids |-> {r \in DeadRows : r <= last}]
  /\ UNCHANGED <<row, failed>>
  /\ AdminUnchanged

ReplaySelected ==
  /\ admin.op = "replay"
  /\ Replay(admin.ids \cap Existing)
  /\ admin' = [op |-> "none", ids |-> {}]
  /\ UNCHANGED adminOps
  /\ AdminUnchanged

\* Rows match by status and age: created_at grows with the id.
OldRows(last) ==
  {r \in Existing : row[r].status \in CleanupStatuses /\ r <= last}

Cleanup(ids) ==
  /\ row' = [r \in RowIds |-> IF r \in ids THEN NoRow("deleted") ELSE row[r]]
  /\ UNCHANGED failed

CleanupAtOnce ==
  /\ AdminStep
  /\ \E last \in RowIds : OldRows(last) # {} /\ Cleanup(OldRows(last))
  /\ UNCHANGED admin
  /\ AdminUnchanged

SelectForCleanup ==
  /\ WithLimit
  /\ AdminIdle
  /\ AdminStep
  /\ \E last \in RowIds :
       /\ OldRows(last) # {}
       /\ admin' = [op |-> "cleanup", ids |-> OldRows(last)]
  /\ UNCHANGED <<row, failed>>
  /\ AdminUnchanged

CleanupSelected ==
  /\ admin.op = "cleanup"
  /\ Cleanup(admin.ids \cap Existing)
  /\ admin' = [op |-> "none", ids |-> {}]
  /\ UNCHANGED adminOps
  /\ AdminUnchanged

----------------------------------------------------------------------------
(* Specification.                                                           *)

\* What a running worker does on its own, without a fault.
Work(p) ==
  \/ QueryCandidates(p)
  \/ \E r \in RowIds :
       \/ TryClaim(p, r) \/ Send(p, r) \/ EsHandles(p, r)
       \/ MarkSent(p, r) \/ MarkRetry(p, r) \/ MarkDead(p, r)

Disturb(p) ==
  \/ ClaimError(p)
  \/ Crash(p)
  \/ \E r \in RowIds :
       \/ EsHandlesAnswerLost(p, r) \/ EsHandlesRepeated(p, r)
       \/ EsRefuses(p, r) \/ NoResponse(p, r)

Operator ==
  \/ ReplayAtOnce \/ SelectForReplay \/ ReplaySelected
  \/ CleanupAtOnce \/ SelectForCleanup \/ CleanupSelected

Next ==
  \/ Tick
  \/ \E r \in RowIds : Insert(r)
  \/ \E p \in Workers : Work(p) \/ Disturb(p)
  \/ \E o \in orphans : EsHandlesOrphan(o)
  \/ Operator

Spec == Init /\ [][Next]_vars

\* The relay loop polls for ever, Elasticsearch answers what it receives,
\* and time passes.  Nothing is assumed of the operator, of orphans or of
\* faults; these are finitely many (MaxFaults, MaxAdmin).
FairSpec == Spec /\ WF_vars(Tick) /\ \A p \in Workers : WF_vars(Work(p))

----------------------------------------------------------------------------
(* Properties.                                                              *)

Requests == [id : RowIds, token : Nat]

\* Every variable has its type; in particular every stored time is a time of
\* the clock and every answer one the relay classifies.
TypeOK ==
  /\ now \in Nat
  /\ row \in [RowIds -> RowType]
  /\ claims \in [RowIds -> Nat]
  /\ pc \in [Workers -> {"idle", "claiming", "sending", "waiting", "replied"}]
  /\ at \in [Workers -> Nat]
  /\ todo \in [Workers -> SUBSET RowIds]
  /\ snap \in [Workers -> [RowIds -> Nat]]
  /\ held \in [Workers -> [RowIds -> Nat]]
  /\ answer \in [Workers -> Answers]
  /\ es \in [Docs -> RowIds \cup {Absent}]
  /\ orphans \in SUBSET Requests
  /\ accepted \in SUBSET Requests
  /\ failed \in [RowIds -> [http : Nat, net : Nat]]
  /\ admin \in [op : {"none", "replay", "cleanup"}, ids : SUBSET RowIds]
  /\ faults \in Nat
  /\ adminOps \in Nat

\* Worker p has row r in its batch and its write-back would be accepted.
Holds(p, r) == held[p][r] # 0 /\ LeaseMatches(p, r)

\* Mutual exclusion of leases: however claims, expiries, replays and crashes
\* interleave, two workers never both have a lease that updateClaimedRow
\* would accept.
LeaseExclusive ==
  \A p, q \in Workers : \A r \in RowIds : Holds(p, r) /\ Holds(q, r) => p = q

\* No false acknowledgement: a row turns sent only when Elasticsearch
\* accepted the request made under the very lease the row has, so neither a
\* late worker nor a mixed-up batch acknowledges somebody else's delivery.
SentMeansAccepted ==
  [][\A r \in RowIds :
       row[r].status = "processing" /\ row'[r].status = "sent" =>
         [id |-> r, token |-> row[r].token] \in accepted]_vars

\* The step is the turn of worker p alone: it has the outcome for row r, its
\* token is the row's, and r leaves its batch.
WritesBack(p, r) ==
  /\ pc[p] = "replied" /\ IsFirst(r, HeldBy(p))
  /\ row[r].token = held[p][r]
  /\ held'[p][r] = 0
  /\ \A q \in Workers \ {p} : pc'[q] = pc[q] /\ held'[q] = held[q]

\* A lease protects its row: until it runs out, a step that changes the row is
\* an operator command or the write-back of the very worker the lease was
\* given to.  No other worker takes it over, although claims are decided on a
\* stale clock, and none that held it before writes its outcome over it
\* (outbox_store.go:147-163, 246-259).
LeaseRespected ==
  [][\A r \in RowIds :
       /\ row[r].status = "processing"
       /\ now < row[r].leasedUntil
       /\ row'[r] # row[r]
       => adminVars' # adminVars \/ \E p \in Workers : WritesBack(p, r)]_vars

\* A scheduled retry waits for its time: no worker, whatever it read before,
\* takes the row earlier.
BackoffRespected ==
  [][\A r \in RowIds :
       row[r].status = "pending" /\ row'[r].status = "processing" =>
         row[r].retryAt <= now]_vars

\* The attempts a worker counts from are the row's: the value was read by the
\* candidate query, before the lease was taken, and is written back plus one.
\* (A replay between query and claim breaks it, so only without operators.)
FreshSnapshot ==
  adminOps = 0 => \A p \in Workers : \A r \in RowIds :
    Holds(p, r) => snap[p][r] = row[r].attempts

\* A row dies of a retryable status only after MaxAttempts earlier failures
\* since it was inserted, however many workers took turns (again without
\* operators).
DeadMeansBudgetSpent ==
  [][\A r \in RowIds :
       /\ adminOps = 0
       /\ row[r].status = "processing"
       /\ row'[r].status = "dead"
       /\ \E p \in Workers : Holds(p, r) /\ answer[p] = "busy"
       => failed[r].http + failed[r].net >= MaxAttempts]_vars

\* Every row is settled in the end: crashes, lost answers and failed
\* write-backs leave it behind a lease that expires, not stuck.
EventuallySettled ==
  \A r \in RowIds :
    row[r].status \in {"pending", "processing"} ~>
      row[r].status \in {"sent", "dead", "deleted"}

\* What Elasticsearch should hold once everything is delivered: per document
\* the effect of its last row.
LastRow(d, r) ==
  /\ DocOf[r] = d
  /\ row[r].status # "absent"
  /\ \A q \in RowIds : DocOf[q] = d /\ row[q].status # "absent" => q <= r

AllSent ==
  orphans = {} /\ \A r \in RowIds : row[r].status \in {"absent", "sent"}

Settled(r) == row[r].status \in {"absent", "sent", "dead"}

\* Every document has the effect of its last row.
LastRowsInEffect ==
  \A d \in Docs : \A r \in RowIds :
    LastRow(d, r) =>
      es[d] = IF ActionOf[r] = "delete" THEN Absent ELSE r

\* When every row is sent, every document has the effect of its last row.
ConvergedWhenSent == AllSent => LastRowsInEffect

\* One worker delivers in order, whatever commits between its queries: only a
\* fault, an operator command or another worker lets an older event of a
\* document overtake a newer one (outbox_store.go:95-139).  A document's
\* first event is an index.
InOrderUnlessDisturbed ==
  /\ Cardinality(Workers) = 1 /\ faults = 0 /\ adminOps = 0
  /\ orphans = {} /\ \A r \in RowIds : Settled(r)
  => LastRowsInEffect

\* Transport failures leave the budget alone: a row dies of a retryable
\* status only after MaxAttempts earlier failures at the HTTP level.
TransportFailuresAreFree ==
  [][\A r \in RowIds :
       /\ row[r].status = "processing"
       /\ row'[r].status = "dead"
       /\ \E p \in Workers : Holds(p, r) /\ answer[p] = "busy"
       => failed[r].http >= MaxAttempts]_vars

----------------------------------------------------------------------------
(* The inductive invariant behind LeaseExclusive, SentMeansAccepted,        *)
(* LeaseRespected and BackoffRespected.                                     *)

\* No token is held that was not issued, so the next one is new ...
TokensIssued ==
  \A p \in Workers : \A r \in RowIds : held[p][r] <= claims[r]

\* ... and no two workers hold the same token of a row.
TokensUnique ==
  \A p, q \in Workers : \A r \in RowIds :
    held[p][r] # 0 /\ held[p][r] = held[q][r] => p = q

\* A 2xx in a worker's hands is an answer to the request of its current row,
\* made under the token it will write back with.
AnswersBacked ==
  \A p \in Workers : \A r \in RowIds :
    pc[p] = "replied" /\ answer[p] = "ok" /\ IsFirst(r, HeldBy(p)) =>
      [id |-> r, token |-> held[p][r]] \in accepted

\* The clock a claim is decided on is never ahead of the clock.
ClocksBehind == \A p \in Workers : at[p] <= now

FencingInv ==
  TypeOK /\ TokensIssued /\ TokensUnique /\ AnswersBacked /\ ClocksBehind

----------------------------------------------------------------------------
(* Refinement: the table is a queue of events with at-least-once delivery.  *)

QueueState(status) ==
  CASE status = "absent" -> "absent"
    [] status \in {"pending", "processing"} -> "queued"
    [] status = "sent" -> "delivered"
    [] status = "dead" -> "failed"
    [] status = "deleted" -> "purged"

Queue == INSTANCE OutboxQueue WITH
  Events <- RowIds,
  state <- [r \in RowIds |-> QueueState(row[r].status)],
  taken <- {a.id : a \in accepted}

\* The relay implements the at-least-once event queue of OutboxQueue.
ImplementsQueue == Queue!Spec
============================================================================
