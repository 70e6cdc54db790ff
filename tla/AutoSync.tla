-------------------------------- MODULE AutoSync --------------------------------
(***************************************************************************)
(* Automatic synchronisation of one model (callback.go, autosync_tx.go):   *)
(* GORM runs afterCreate, afterUpdate or afterDelete inside the            *)
(* transaction of a statement, and the callback puts an event into the     *)
(* outbox of the same transaction.  EnableAutoSync and DisableAutoSync     *)
(* switch it while statements run, and operators put events into the       *)
(* outbox by hand (doc_ops.go).  The relay delivers committed events in    *)
(* the order of their ids; what it does about failures is OutboxRelay's.   *)
(*                                                                         *)
(* The module follows one row of the table.  A column holds 0 or 1; for    *)
(* SoftColumn (gorm.DeletedAt) 1 is any deletion time.                     *)
(***************************************************************************)
EXTENDS Naturals, Sequences

CONSTANTS
  Sessions,     \* goroutines that write to the table
  Columns,
  SoftColumn,   \* deleted_at
  Absent,       \* no such row, no such document
  Committed,    \* in place of the session of an outbox row
  Registrations,  \* the options the model may be registered with
  MaxStatements,  \* bound
  MaxEvents       \* bound on faults, switches and operators' requests together

Docs == [Columns -> {0, 1}]

ASSUME AutoSyncAssumption ==
  /\ SoftColumn \in Columns
  /\ Committed \notin Sessions /\ Absent \notin Docs
  /\ Registrations \subseteq [softDelete : {"none", "update", "delete"},
                               fullDoc : BOOLEAN]
  /\ MaxStatements \in Nat /\ MaxEvents \in Nat

Partial == UNION {[D -> {0, 1}] : D \in SUBSET Columns}
Zero == [c \in Columns |-> 0]
NoColumns == [c \in {} |-> 0]
Only(c, v) == [d \in {c} |-> v]

\* What an outbox row carries: action and payload.
Events == [action : {"index", "update", "delete"}, doc : Partial]
Event(action, doc) == [action |-> action, doc |-> doc]

\* Why the index may come to differ from the table.
Causes ==
  {"disabled",    \* auto sync was off, or being switched
   "reported",    \* no event: a metric, a failure sample or an error says so
   "unmatched",   \* the statement changed no row, its event was sent all the same
   "stale",       \* a whole document from memory, with other columns than the row
   "scope",       \* "delete" mode: deleted_at set or cleared by an update
   "raced",       \* an operator's document, loaded before another change
   "asked"}       \* an operator's deletion of a document whose row exists

VARIABLES
  entry,      \* options of the registration: soft delete handling, fullDocUpdate
  autoSync,   \* entry.autoSync
  hooks,      \* the callbacks GORM knows
  switching,  \* the rest of a running EnableAutoSync or DisableAutoSync
  wanted,     \* history: the last call was an EnableAutoSync, and it is done
  table,      \* the committed row
  outbox,     \* rows by id: an event, and who inserted it
  lastId,     \* the last id given out; a rollback does not give it back
  mirror,     \* the document in Elasticsearch
  pc, explicit, held, work,   \* per session: its transaction
  model,      \* per session: the struct the application holds
  stmt,       \* per session: the statement under way
  request,    \* the operator's command under way
  cause,      \* history: what the open transaction will have to answer for
  excused,    \* history: why index and table may differ now
  used        \* bounds

tx == <<pc, explicit, held, work>>
switch == <<autoSync, hooks, switching, wanted>>
log == <<outbox, lastId>>
vars == <<entry, switch, table, log, mirror, tx, model, stmt, request,
          cause, excused, used>>

Statements == [hook : {"create", "update", "delete"}, changed : Partial,
               unscoped : BOOLEAN, identified : BOOLEAN, matched : BOOLEAN,
               hooked : BOOLEAN, wanted : BOOLEAN]
NoStatement == [hook |-> "create", changed |-> NoColumns, unscoped |-> FALSE,
                identified |-> FALSE, matched |-> FALSE, hooked |-> FALSE,
                wanted |-> FALSE]
NoRequest == Event("none", NoColumns)

TypeOK ==
  /\ entry \in Registrations
  /\ autoSync \in BOOLEAN /\ wanted \in BOOLEAN
  /\ hooks \subseteq {"create", "update", "delete"}
  /\ switching \in Seq({"allOn", "allOff", "modelOn", "modelOff", "remove",
                        "create", "update", "delete"})
  /\ table \in Docs \cup {Absent} /\ mirror \in Docs \cup {Absent}
  /\ lastId \in Nat /\ DOMAIN outbox \subseteq 1..lastId
  /\ outbox \in [DOMAIN outbox -> [by : Sessions \cup {Committed}, event : Events]]
  /\ pc \in [Sessions -> {"idle", "open", "hook", "commit", "rollback"}]
  /\ explicit \in [Sessions -> BOOLEAN] /\ held \in [Sessions -> BOOLEAN]
  /\ work \in [Sessions -> Docs \cup {Absent}]
  /\ model \in [Sessions -> Docs]
  /\ stmt \in [Sessions -> Statements]
  /\ request \in Events \cup {NoRequest}
  /\ cause \in [Sessions -> SUBSET Causes] /\ excused \subseteq Causes
  /\ used \in [{"stmt", "event"} -> Nat]

Init ==
  /\ entry \in Registrations
  /\ autoSync = TRUE /\ wanted = TRUE   \* EnableAutoSync has been called
  /\ hooks = {"create", "update", "delete"}
  /\ switching = <<>>
  /\ table \in {Absent, Zero} /\ mirror = table
  /\ outbox = [k \in {} |-> NoRequest] /\ lastId = 0
  /\ pc = [s \in Sessions |-> "idle"]
  /\ explicit = [s \in Sessions |-> FALSE]
  /\ held = [s \in Sessions |-> FALSE]
  /\ work = [s \in Sessions |-> Absent]
  /\ model = [s \in Sessions |-> Zero]
  /\ stmt = [s \in Sessions |-> NoStatement]
  /\ request = NoRequest
  /\ cause = [s \in Sessions |-> {}] /\ excused = {}
  /\ used = [b \in {"stmt", "event"} |-> 0]

Spend(b, max) == used[b] < max /\ used' = [used EXCEPT ![b] = @ + 1]
Fault == Spend("event", MaxEvents)

-----------------------------------------------------------------------------
(* Rows and documents.                                                      *)

SoftDelete == entry.softDelete # "none"   \* hasSoftDelete
Matches(row, unscoped) ==
  row # Absent /\ (unscoped \/ ~SoftDelete \/ row[SoftColumn] = 0)

\* The document a rebuild of the index would make of a row.
Expected(row) == IF Matches(row, entry.softDelete # "delete") THEN row ELSE Absent

\* What Elasticsearch makes of an event; it refuses the update of a document
\* that is not there.
Merged(old, new) ==
  [c \in Columns |-> IF c \in DOMAIN new THEN new[c] ELSE old[c]]
Applied(document, e) ==
  CASE e.action = "index"  -> Merged(Zero, e.doc)
    [] e.action = "update" -> IF document = Absent THEN Absent
                              ELSE Merged(document, e.doc)
    [] e.action = "delete" -> Absent

\* The row as a session sees it, and whether it may write it.
View(s) == IF held[s] THEN work[s] ELSE table
Free(s) == \A t \in Sessions \ {s} : ~held[t]

-----------------------------------------------------------------------------
(* Transactions and statements of the application.  A statement outside an *)
(* explicit transaction (syncer.Transaction, db.Transaction) has one of    *)
(* its own, which GORM ends as the statement ends.                         *)

Goto(s, label) == pc' = [pc EXCEPT ![s] = label]

\* The transaction of a session's next statement: the open one, or a new one,
\* explicit or not (an explicit one without statements does nothing).
Transaction(s) ==
  \/ pc[s] = "open" /\ UNCHANGED explicit
  \/ /\ pc[s] = "idle"
     /\ \E byApplication \in BOOLEAN :
          explicit' = [explicit EXCEPT ![s] = byApplication]

\* The application reads the row into its struct, and may keep that for long.
Load(s, unscoped) ==
  /\ pc[s] \in {"idle", "open"}
  /\ Matches(View(s), unscoped)
  /\ model' = [model EXCEPT ![s] = View(s)]
  /\ UNCHANGED <<entry, switch, table, log, mirror, tx, stmt, request, cause,
                 excused, used>>

\* A statement has changed the row (or none) and comes to its callback.  The
\* callbacks it runs are those GORM knew when it began.
Run(s, st, row, m) ==
  /\ Transaction(s) /\ Free(s)
  /\ Spend("stmt", MaxStatements)
  /\ Goto(s, "hook")
  /\ stmt' = [stmt EXCEPT ![s] = [st EXCEPT !.hooked = st.hook \in hooks,
                                            !.wanted = wanted]]
  /\ held' = [held EXCEPT ![s] = @ \/ st.matched]
  /\ work' = [work EXCEPT ![s] = IF st.matched THEN row ELSE @]
  /\ model' = [model EXCEPT ![s] = m]
  /\ UNCHANGED <<entry, switch, table, log, mirror, request, cause, excused>>

\* A statement on a struct that carries the primary key.
Keyed(hook, matched) ==
  [NoStatement EXCEPT !.hook = hook, !.identified = TRUE, !.matched = matched]

\* db.Create; with the row there it fails and nothing happens.
Create(s, m) ==
  /\ View(s) = Absent /\ m[SoftColumn] = 0
  /\ Run(s, Keyed("create", TRUE), m, m)

\* db.Save writes every column of the struct, and inserts it if no row matches.
\* GORM does the latter in two statements, an UPDATE of no row and an INSERT,
\* each with its callback; here they are one with one event, as both events
\* carry the same document.
Save(s, c, v) ==
  LET m == [model[s] EXCEPT ![c] = v]
  IN  Run(s, Keyed("update", TRUE), m, m)

\* db.Model(&m).Updates with a map or a struct.  GORM sets the struct m as
\* well: after an update by struct Changed sees no difference between them.
Update(s, c, v, byMap, unscoped) ==
  LET matched == Matches(View(s), unscoped)
  IN  Run(s, [Keyed("update", matched)
                EXCEPT !.changed = IF byMap THEN Only(c, v) ELSE NoColumns],
          IF matched THEN [View(s) EXCEPT ![c] = v] ELSE Absent,
          [model[s] EXCEPT ![c] = v])

\* db.Model(&T{}).Where(...).Update: no primary key, any live row.
UpdateWhere(s, c, v) ==
  /\ Matches(View(s), FALSE)
  /\ Run(s, [NoStatement EXCEPT !.hook = "update", !.matched = TRUE,
                                !.changed = Only(c, v)],
         [View(s) EXCEPT ![c] = v], model[s])

\* db.Delete(&m), db.Unscoped().Delete(&m), db.Where(...).Delete(&T{}).
Delete(s, identified, unscoped) ==
  LET matched == Matches(View(s), unscoped)
      soft == SoftDelete /\ ~unscoped
  IN  /\ identified \/ matched
      /\ Run(s, [NoStatement EXCEPT !.hook = "delete", !.matched = matched,
                                    !.identified = identified,
                                    !.unscoped = unscoped],
             IF soft /\ matched THEN [View(s) EXCEPT ![SoftColumn] = 1]
                                ELSE Absent,
             IF soft /\ identified THEN [model[s] EXCEPT ![SoftColumn] = 1]
                                   ELSE model[s])

-----------------------------------------------------------------------------
(* The callbacks.                                                           *)

AfterCreate(m) == Event("index", m)

AfterUpdate(st, m) ==
  IF entry.fullDoc \/ st.changed = NoColumns THEN Event("index", m)
                                             ELSE Event("update", st.changed)

AfterDelete(st) ==
  IF SoftDelete /\ ~st.unscoped /\ entry.softDelete = "update"
  THEN Event("update", Only(SoftColumn, 1))
  ELSE Event("delete", NoColumns)

EventOf(st, m) ==
  CASE st.hook = "create" -> AfterCreate(m)
    [] st.hook = "update" -> AfterUpdate(st, m)
    [] st.hook = "delete" -> AfterDelete(st)

\* What can be wrong with an event, seen from its statement.
Flaws(s, st, e) ==
  (IF ~st.matched THEN {"unmatched"} ELSE {})
    \cup (IF st.matched /\ e.action = "index" /\ e.doc # work[s]
          THEN {"stale"} ELSE {})
    \cup (IF entry.softDelete = "delete" /\ e.action # "delete"
             /\ (e.action = "index" => e.doc[SoftColumn] = 1)
             /\ (e.action = "update" => SoftColumn \in DOMAIN e.doc)
          THEN {"scope"} ELSE {})

\* A statement on its own goes on to commit, or to roll back after an error;
\* in an explicit transaction the application has the word.
AfterCallback(s, label) ==
  /\ Goto(s, IF explicit[s] THEN "open" ELSE label)
  /\ stmt' = [stmt EXCEPT ![s] = NoStatement]

Blame(s, causes) == cause' = [cause EXCEPT ![s] = @ \cup causes]

Unchanged == UNCHANGED <<entry, switch, table, mirror, explicit, held, work,
                         model, request, excused>>

\* The callback is not there, or auto sync is off for the model.
CallbackOff(s) ==
  LET st == stmt[s]
  IN  /\ pc[s] = "hook"
      /\ ~(st.hooked /\ autoSync)
      /\ AfterCallback(s, "commit")
      /\ Blame(s, IF st.matched /\ ~(st.wanted /\ wanted) THEN {"disabled"} ELSE {})
      /\ UNCHANGED <<log, used>> /\ Unchanged

\* recordUnidentifiedRows: the write stands, a metric and a failure sample.
CallbackUnidentified(s) ==
  /\ pc[s] = "hook" /\ stmt[s].hooked /\ autoSync /\ ~stmt[s].identified
  /\ AfterCallback(s, "commit")
  /\ Blame(s, {"reported"})
  /\ UNCHANGED <<log, used>> /\ Unchanged

\* A row gets the next id.
Inserted(row) ==
  /\ lastId' = lastId + 1
  /\ outbox' = [k \in DOMAIN outbox \cup {lastId + 1} |->
                  IF k = lastId + 1 THEN row ELSE outbox[k]]

\* Mutant: the outbox row is inserted outside the transaction.
PersistMutant(s, e) == Inserted([by |-> Committed, event |-> e])

\* persistSyncEvents: the outbox row joins the transaction of the statement.
Persist(s, e) == Inserted([by |-> s, event |-> e])

CallbackPersists(s) ==
  LET e == EventOf(stmt[s], model[s])
  IN  /\ pc[s] = "hook" /\ stmt[s].hooked /\ autoSync /\ stmt[s].identified
      /\ AfterCallback(s, "commit")
      /\ Persist(s, e)
      /\ Blame(s, Flaws(s, stmt[s], e))
      /\ UNCHANGED used /\ Unchanged

\* The insert fails: AddError, and the statement rolls back, unless it is part
\* of a transaction the application commits in spite of the error.
CallbackFails(s) ==
  /\ pc[s] = "hook" /\ stmt[s].hooked /\ autoSync /\ stmt[s].identified
  /\ Fault
  /\ AfterCallback(s, "rollback")
  /\ Blame(s, {"reported"})
  /\ UNCHANGED log /\ Unchanged

\* The outbox when the rows with these ids are gone.
Without(ids) == [k \in DOMAIN outbox \ ids |-> outbox[k]]

\* The transaction ends.  A commit may fail.
End(s) ==
  /\ Goto(s, "idle")
  /\ explicit' = [explicit EXCEPT ![s] = FALSE]
  /\ held' = [held EXCEPT ![s] = FALSE]
  /\ work' = [work EXCEPT ![s] = Absent]
  /\ cause' = [cause EXCEPT ![s] = {}]
  /\ UNCHANGED <<entry, switch, mirror, model, stmt, request>>

Commit(s) ==
  /\ pc[s] \in {"open", "commit"}
  /\ table' = View(s)
  /\ outbox' = [k \in DOMAIN outbox |->
                  IF outbox[k].by = s THEN [outbox[k] EXCEPT !.by = Committed]
                                      ELSE outbox[k]]
  /\ excused' = excused \cup cause[s]
  /\ UNCHANGED <<lastId, used>> /\ End(s)

Rollback(s) ==
  /\ \/ pc[s] \in {"open", "rollback"} /\ UNCHANGED used
     \/ pc[s] = "commit" /\ Fault
  /\ outbox' = Without({k \in DOMAIN outbox : outbox[k].by = s})
  /\ UNCHANGED <<table, lastId, excused>> /\ End(s)

-----------------------------------------------------------------------------
(* EnableAutoSync and DisableAutoSync, one call at a time.                  *)

EnableAll == <<"allOn", "remove", "create", "update", "delete">>
EnableModel == <<"allOff", "modelOn", "remove", "create", "update", "delete">>
DisableAll == <<"allOff", "remove">>
DisableModel == <<"modelOff">>

SwitchBegins(call) ==
  /\ switching = <<>>
  /\ Spend("event", MaxEvents)
  /\ switching' = call
  /\ wanted' = FALSE
  /\ UNCHANGED <<entry, autoSync, hooks, table, log, mirror, tx, model, stmt,
                 request, cause, excused>>

SwitchStep ==
  /\ switching # <<>>
  /\ LET step == Head(switching)
     IN  /\ switching' = Tail(switching)
         /\ autoSync' = CASE step \in {"allOn", "modelOn"} -> TRUE
                          [] step \in {"allOff", "modelOff"} -> FALSE
                          [] OTHER -> autoSync
         /\ hooks' = CASE step = "remove" -> {}
                       [] step \in {"create", "update", "delete"} -> hooks \cup {step}
                       [] OTHER -> hooks
         /\ wanted' = (step = "delete")   \* the last step of EnableAutoSync
  /\ UNCHANGED <<entry, table, log, mirror, tx, model, stmt, request, cause,
                 excused, used>>

\* A model that is not registered, or a callback GORM does not take.
SwitchFails ==
  /\ switching # <<>>
  /\ Head(switching) \in {"modelOn", "modelOff", "create", "update", "delete"}
  /\ switching' = <<>>
  /\ UNCHANGED <<entry, autoSync, hooks, wanted, table, log, mirror, tx,
                 model, stmt, request, cause, excused, used>>

-----------------------------------------------------------------------------
(* Operators' documents (doc_ops.go) and the relay.                         *)

\* Mutant: the error of the load is not looked at.
RequestLoadsMutant(action, unscoped) ==
  /\ request = NoRequest
  /\ Spend("event", MaxEvents)
  /\ request' = Event(action, IF action = "delete" THEN NoColumns ELSE table)
  /\ UNCHANGED <<entry, switch, table, log, mirror, tx, model, stmt, cause,
                 excused>>

\* EnqueueDocumentCreate and EnqueueDocumentUpdate load the committed row,
\* EnqueueDocumentDelete as well unless it is given the document's id.
RequestLoads(action, unscoped) ==
  /\ request = NoRequest
  /\ Spend("event", MaxEvents)
  /\ Matches(table, unscoped)
  /\ request' = Event(action, IF action = "delete" THEN NoColumns ELSE table)
  /\ UNCHANGED <<entry, switch, table, log, mirror, tx, model, stmt, cause,
                 excused>>

RequestById ==
  /\ request = NoRequest
  /\ Spend("event", MaxEvents)
  /\ request' = Event("delete", NoColumns)
  /\ UNCHANGED <<entry, switch, table, log, mirror, tx, model, stmt, cause,
                 excused>>

RequestFlaws ==
  IF request.action = "delete" THEN {"asked"}
  ELSE (IF request.doc # table \/ \E k \in DOMAIN outbox : outbox[k].by # Committed
        THEN {"raced"} ELSE {})
         \cup (IF entry.softDelete = "delete" /\ request.doc[SoftColumn] = 1
               THEN {"scope"} ELSE {})

\* The outbox row is committed by itself; or the insert fails and the caller
\* is told.
RequestEnqueued ==
  /\ request # NoRequest
  /\ \/ /\ Persist(Committed, request)
        /\ excused' = excused \cup RequestFlaws
     \/ UNCHANGED <<log, excused>>
  /\ request' = NoRequest
  /\ UNCHANGED <<entry, switch, table, mirror, tx, model, stmt, cause, used>>

Deliverable == {k \in DOMAIN outbox : outbox[k].by = Committed}

\* The relay delivers the committed event with the lowest id.  With nothing
\* left to deliver and no difference, earlier causes are dealt with.
Deliver ==
  \E k \in Deliverable :
    /\ \A j \in Deliverable : k <= j
    /\ mirror' = Applied(mirror, outbox[k].event)
    /\ outbox' = Without({k})
    /\ excused' = IF Deliverable = {k} /\ mirror' = Expected(table)
                  THEN {} ELSE excused
    /\ UNCHANGED <<entry, switch, table, lastId, tx, model, stmt, request, cause,
                   used>>

Next ==
  \/ \E s \in Sessions :
       \/ \E u \in BOOLEAN : Load(s, u)
       \/ \E m \in Docs : Create(s, m)
       \/ \E c \in Columns, v \in {0, 1} :
            \/ Save(s, c, v)
            \/ \E byMap, u \in BOOLEAN : Update(s, c, v, byMap, u)
            \/ UpdateWhere(s, c, v)
       \/ \E identified, u \in BOOLEAN : Delete(s, identified, u)
       \/ CallbackOff(s) \/ CallbackUnidentified(s)
       \/ CallbackPersists(s) \/ CallbackFails(s)
       \/ Commit(s) \/ Rollback(s)
  \/ \E call \in {EnableAll, EnableModel, DisableAll, DisableModel} :
       SwitchBegins(call)
  \/ SwitchStep \/ SwitchFails
  \/ \E action \in {"index", "update", "delete"}, u \in BOOLEAN :
       RequestLoads(action, u)
  \/ RequestById \/ RequestEnqueued
  \/ Deliver

Spec == Init /\ [][Next]_vars

-----------------------------------------------------------------------------
(* Properties.                                                              *)

\* Once the committed events are delivered, Elasticsearch holds what a rebuild
\* of the index would put there (callback.go:74-212, autosync_tx.go:29-82), or
\* one of the named causes has struck: whatever the transactions, rollbacks,
\* failures of the outbox and switches in between.
NoUnexplainedDrift ==
  Deliverable = {} => mirror = Expected(table) \/ excused # {}
=============================================================================
