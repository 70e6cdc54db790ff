--------------------------- MODULE AutoSync_proofs ---------------------------
(***************************************************************************)
(* Proofs about AutoSync: with any number of sessions, columns and         *)
(* statements, once the committed events are delivered the index is what a *)
(* rebuild would make it, or one of the named causes has struck.           *)
(*                                                                         *)
(* The invariant says of the events of every open transaction, and of the  *)
(* committed ones, where they lead.  A sequence of events leads from one   *)
(* document to another along a course d, where d[n] is the document after  *)
(* the rows with ids up to n: the course is named by a quantifier, so that *)
(* every step is a matter of functions and no recursion is needed.         *)
(***************************************************************************)
EXTENDS AutoSync, TLAPS

-----------------------------------------------------------------------------
(* Documents and events.                                                    *)

(* What statements change is a part of a document.                          *)
LEMMA PartialFacts ==
  /\ NoColumns \in Partial
  /\ \A c \in Columns, v \in {0, 1} : Only(c, v) \in Partial
  /\ Docs \subseteq Partial
<1>1. \A D \in SUBSET Columns : \A f \in [D -> {0, 1}] : f \in Partial
  BY DEF Partial
<1>2. NoColumns \in [{} -> {0, 1}]
  BY DEF NoColumns
<1>3. \A c \in Columns, v \in {0, 1} : Only(c, v) \in [{c} -> {0, 1}]
  BY DEF Only
<1>4. Docs \subseteq Partial
  BY <1>1 DEF Docs
<1>5. ASSUME NEW c \in Columns, NEW v \in {0, 1} PROVE Only(c, v) \in Partial
  <2>1. {c} \in SUBSET Columns
    OBVIOUS
  <2> QED BY <1>1, <1>3, <2>1
<1>6. NoColumns \in Partial
  <2>1. {} \in SUBSET Columns
    OBVIOUS
  <2> QED BY <1>1, <1>2, <2>1
<1> QED BY <1>4, <1>5, <1>6

(* Elasticsearch's merge of an update gives a document.                     *)
LEMMA MergedType ==
  ASSUME NEW old \in Docs, NEW new \in Partial
  PROVE  Merged(old, new) \in Docs
<1>1. PICK D \in SUBSET Columns : new \in [D -> {0, 1}]
  BY DEF Partial
<1> QED BY <1>1 DEF Merged, Docs

(* What Elasticsearch makes of an event is a document, or none.             *)
LEMMA AppliedType ==
  ASSUME NEW document \in Docs \cup {Absent}, NEW e \in Events
  PROVE  Applied(document, e) \in Docs \cup {Absent}
<1>1. Zero \in Docs
  BY DEF Zero, Docs
<1>2. e.doc \in Partial /\ e.action \in {"index", "update", "delete"}
  BY DEF Events
<1>3. Merged(Zero, e.doc) \in Docs
  BY <1>1, <1>2, MergedType
<1>4. document # Absent => Merged(document, e.doc) \in Docs
  BY <1>2, MergedType
<1> QED BY <1>2, <1>3, <1>4 DEF Applied

(* The callbacks make well-formed events (callback.go:74-212).              *)
LEMMA EventOfType ==
  ASSUME TypeOK, NEW st \in Statements, NEW m \in Docs
  PROVE  EventOf(st, m) \in Events
<1>1. st.hook \in {"create", "update", "delete"} /\ st.changed \in Partial
  BY DEF Statements
<1>2. m \in Partial /\ NoColumns \in Partial /\ Only(SoftColumn, 1) \in Partial
  BY PartialFacts, AutoSyncAssumption
<1>3. AfterCreate(m) \in Events
  BY <1>2 DEF AfterCreate, Event, Events
<1>4. AfterUpdate(st, m) \in Events
  BY <1>1, <1>2 DEF AfterUpdate, Event, Events
<1>5. AfterDelete(st) \in Events
  BY <1>2 DEF AfterDelete, Event, Events
<1> QED BY <1>1, <1>3, <1>4, <1>5 DEF EventOf

(* An update of some columns of a document, and a new document.             *)
LEMMA MergedFacts ==
  /\ \A m, old \in Docs : Merged(old, m) = m
  /\ \A old \in Docs, c \in Columns, v \in {0, 1} :
       Merged(old, Only(c, v)) = [old EXCEPT ![c] = v]
<1>1. ASSUME NEW m \in Docs, NEW old \in Docs PROVE Merged(old, m) = m
  <2>1. DOMAIN m = Columns /\ m = [c \in Columns |-> m[c]]
    BY DEF Docs
  <2>2. Merged(old, m) = [c \in Columns |-> m[c]]
    BY <2>1 DEF Merged
  <2> QED BY <2>1, <2>2
<1>2. ASSUME NEW old \in Docs, NEW c \in Columns, NEW v \in {0, 1}
      PROVE  Merged(old, Only(c, v)) = [old EXCEPT ![c] = v]
  <2>1. DOMAIN Only(c, v) = {c} /\ Only(c, v)[c] = v
    BY DEF Only
  <2>2. DOMAIN old = Columns
    BY DEF Docs
  <2>3. Merged(old, Only(c, v)) = [d \in Columns |-> IF d = c THEN v ELSE old[d]]
    BY <2>1 DEF Merged
  <2>4. [old EXCEPT ![c] = v] = [d \in Columns |-> IF d = c THEN v ELSE old[d]]
    BY <2>2
  <2> QED BY <2>3, <2>4
<1> QED BY <1>1, <1>2

-----------------------------------------------------------------------------
(* What a statement does, and what its event says of it.                    *)

\* Nothing is wrong with the event of a statement that left this row.
Right(st, e, row) ==
  /\ st.matched
  /\ e.action = "index" => e.doc = row
  /\ entry.softDelete = "delete" /\ e.action # "delete" =>
       \/ e.action = "index" /\ e.doc[SoftColumn] # 1
       \/ e.action = "update" /\ SoftColumn \notin DOMAIN e.doc

\* The event takes the document of the row before the statement to that of the
\* row after it.
Explains(st, old, row, m) ==
  st.identified /\ Right(st, EventOf(st, m), row) =>
    Applied(Expected(old), EventOf(st, m)) = Expected(row)

(* An event that the flaws do not cover is right.                           *)
LEMMA FlawlessRight ==
  ASSUME TypeOK, NEW s \in Sessions, NEW st, NEW e \in Events, Flaws(s, st, e) = {}
  PROVE  Right(st, e, work[s])
<1>1. st.matched
  BY DEF Flaws
<1>2. e.action = "index" => e.doc = work[s]
  BY <1>1 DEF Flaws
<1>3. ~(entry.softDelete = "delete" /\ e.action # "delete"
        /\ (e.action = "index" => e.doc[SoftColumn] = 1)
        /\ (e.action = "update" => SoftColumn \in DOMAIN e.doc))
  BY DEF Flaws
<1>4. e.action \in {"index", "update", "delete"}
  BY DEF Events
<1> QED BY <1>1, <1>2, <1>3, <1>4 DEF Right

(* A whole document of the row is what the index should have.               *)
LEMMA IndexExplains ==
  ASSUME TypeOK, NEW old \in Docs \cup {Absent}, NEW row \in Docs, NEW st,
         Right(st, Event("index", row), row)
  PROVE  Applied(Expected(old), Event("index", row)) = Expected(row)
<1>1. Zero \in Docs
  BY DEF Zero, Docs
<1>2. Applied(Expected(old), Event("index", row)) = row
  BY <1>1, MergedFacts DEF Applied, Event
<1>3. row # Absent /\ row[SoftColumn] \in {0, 1}
  BY AutoSyncAssumption DEF Docs
<1>4. entry.softDelete = "delete" => row[SoftColumn] = 0
  BY <1>3 DEF Right, Event
<1>5. Expected(row) = row
  BY <1>3, <1>4 DEF Expected, Matches
<1> QED BY <1>2, <1>5

(* So is the update of a column in scope.                                   *)
LEMMA UpdateExplains ==
  ASSUME TypeOK, NEW old \in Docs, NEW c \in Columns, NEW v \in {0, 1},
         entry.softDelete = "delete" => c # SoftColumn
  PROVE  Applied(Expected(old), Event("update", Only(c, v))) = Expected([old EXCEPT ![c] = v])
<1>1. old # Absent /\ [old EXCEPT ![c] = v] # Absent /\ DOMAIN old = Columns
  BY AutoSyncAssumption DEF Docs
<1>2. entry.softDelete = "delete" => [old EXCEPT ![c] = v][SoftColumn] = old[SoftColumn]
  BY <1>1, AutoSyncAssumption
<1>3. Merged(old, Only(c, v)) = [old EXCEPT ![c] = v]
  BY MergedFacts
<1>4. CASE Expected(old) = old
  <2>1. Expected([old EXCEPT ![c] = v]) = [old EXCEPT ![c] = v]
    BY <1>1, <1>2, <1>4 DEF Expected, Matches
  <2>2. Applied(old, Event("update", Only(c, v))) = [old EXCEPT ![c] = v]
    BY <1>1, <1>3 DEF Applied, Event
  <2> QED BY <1>4, <2>1, <2>2
<1>5. CASE Expected(old) # old
  <2>1. Expected(old) = Absent /\ entry.softDelete = "delete" /\ ~Matches(old, FALSE)
    BY <1>1, <1>5 DEF Expected, Matches
  <2>2. Expected([old EXCEPT ![c] = v]) = Absent
    BY <1>1, <1>2, <2>1 DEF Expected, Matches
  <2>3. Applied(Absent, Event("update", Only(c, v))) = Absent
    BY DEF Applied, Event
  <2> QED BY <2>1, <2>2, <2>3
<1> QED BY <1>4, <1>5

(* A deletion's event does what the deletion does, soft or not.             *)
LEMMA DeleteExplains ==
  ASSUME TypeOK, NEW old \in Docs, NEW st, NEW m, st.hook = "delete",
         NEW row, row = IF SoftDelete /\ ~st.unscoped THEN [old EXCEPT ![SoftColumn] = 1] ELSE Absent
  PROVE  Applied(Expected(old), EventOf(st, m)) = Expected(row)
<1>1. EventOf(st, m) = AfterDelete(st)
  BY DEF EventOf
<1>2. entry.softDelete \in {"none", "update", "delete"}
  BY AutoSyncAssumption DEF TypeOK
<1>3. Expected(Absent) = Absent
  BY DEF Expected, Matches
<1>4. CASE SoftDelete /\ ~st.unscoped /\ entry.softDelete = "update"
  <2>1. EventOf(st, m) = Event("update", Only(SoftColumn, 1))
    BY <1>1, <1>4 DEF AfterDelete
  <2> QED BY <1>4, <2>1, UpdateExplains, AutoSyncAssumption
<1>5. CASE SoftDelete /\ ~st.unscoped /\ entry.softDelete # "update"
  <2>1. EventOf(st, m) = Event("delete", NoColumns)
    BY <1>1, <1>5 DEF AfterDelete
  <2>2. entry.softDelete = "delete"
    BY <1>2, <1>5 DEF SoftDelete
  <2>3. [old EXCEPT ![SoftColumn] = 1][SoftColumn] = 1
    BY AutoSyncAssumption DEF Docs
  <2>4. Expected(row) = Absent
    BY <1>5, <2>2, <2>3 DEF Expected, Matches, SoftDelete
  <2>5. Applied(Expected(old), Event("delete", NoColumns)) = Absent
    BY DEF Applied, Event
  <2> QED BY <2>1, <2>4, <2>5
<1>6. CASE ~(SoftDelete /\ ~st.unscoped)
  <2>1. EventOf(st, m) = Event("delete", NoColumns)
    BY <1>1, <1>6 DEF AfterDelete
  <2>2. Applied(Expected(old), Event("delete", NoColumns)) = Absent
    BY DEF Applied, Event
  <2> QED BY <1>3, <1>6, <2>1, <2>2
<1> QED BY <1>4, <1>5, <1>6

(* A statement that updates some columns sends them, or the whole struct.   *)
LEMMA ChangeExplains ==
  ASSUME TypeOK, NEW old \in Docs, NEW c \in Columns, NEW v \in {0, 1}, NEW st,
         st.hook = "update", st.changed \in {NoColumns, Only(c, v)}, NEW m \in Docs
  PROVE  Explains(st, old, [old EXCEPT ![c] = v], m)
<1> DEFINE row == [old EXCEPT ![c] = v]
<1>0. row \in Docs
  BY DEF Docs
<1> SUFFICES ASSUME Right(st, EventOf(st, m), row)
             PROVE  Applied(Expected(old), EventOf(st, m)) = Expected(row)
  BY DEF Explains
<1> HIDE DEF row
<1>1. EventOf(st, m) = AfterUpdate(st, m)
  BY DEF EventOf
<1>2. CASE EventOf(st, m) = Event("index", m)
  <2>1. m = row
    BY <1>2 DEF Right, Event
  <2> QED BY <1>0, <1>2, <2>1, IndexExplains
<1>3. CASE EventOf(st, m) = Event("update", Only(c, v))
  <2>1. DOMAIN Only(c, v) = {c}
    BY DEF Only
  <2>2. entry.softDelete = "delete" => c # SoftColumn
    BY <1>3, <2>1 DEF Right, Event
  <2> QED BY <1>3, <2>2, UpdateExplains DEF row
<1> QED BY <1>1, <1>2, <1>3 DEF AfterUpdate

\* A statement of a session.
Statement(s) ==
  \/ \E m \in Docs : Create(s, m)
  \/ \E c \in Columns, v \in {0, 1} :
       \/ Save(s, c, v)
       \/ \E byMap, u \in BOOLEAN : Update(s, c, v, byMap, u)
       \/ UpdateWhere(s, c, v)
  \/ \E identified, u \in BOOLEAN : Delete(s, identified, u)

(* A statement that finds a row, or writes one, with the primary key in its *)
(* struct, leads to an event that explains what it did.                     *)
LEMMA StatementRuns ==
  ASSUME TypeOK, NEW s \in Sessions, Statement(s)
  PROVE  \E st \in Statements, row \in Docs \cup {Absent}, m \in Docs :
           Run(s, st, row, m) /\ Explains(st, View(s), row, m)
<1>1. View(s) \in Docs \cup {Absent} /\ model[s] \in Docs
  BY DEF View, TypeOK
<1>2. /\ NoColumns \in Partial
      /\ \A c \in Columns, v \in {0, 1} : Only(c, v) \in Partial
  BY PartialFacts
<1>3. \A d \in Docs, c \in Columns, v \in {0, 1} : [d EXCEPT ![c] = v] \in Docs
  BY DEF Docs
<1>4. NoStatement \in Statements
  BY <1>2 DEF NoStatement, Statements
<1>5. \A st \in Statements : \A old, row, m : ~st.matched \/ ~st.identified => Explains(st, old, row, m)
  BY DEF Explains, Right
<1>6. ASSUME NEW m \in Docs, Create(s, m)
      PROVE  \E st \in Statements, row \in Docs \cup {Absent}, n \in Docs :
               Run(s, st, row, n) /\ Explains(st, View(s), row, n)
  <2> DEFINE st == Keyed("create", TRUE)
  <2>1. st \in Statements /\ st.hook = "create"
    BY <1>4 DEF Keyed, Statements
  <2>2. EventOf(st, m) = Event("index", m)
    BY <2>1 DEF EventOf, AfterCreate
  <2>3. Explains(st, View(s), m, m)
    BY <1>1, <2>2, IndexExplains DEF Explains
  <2> QED BY <1>6, <2>1, <2>3 DEF Create
<1>7. ASSUME NEW c \in Columns, NEW v \in {0, 1}, Save(s, c, v)
      PROVE  \E st \in Statements, row \in Docs \cup {Absent}, n \in Docs :
               Run(s, st, row, n) /\ Explains(st, View(s), row, n)
  <2> DEFINE st == Keyed("update", TRUE)
  <2> DEFINE m == [model[s] EXCEPT ![c] = v]
  <2>1. st \in Statements /\ st.hook = "update" /\ st.changed = NoColumns
    BY <1>4 DEF Keyed, Statements, NoStatement
  <2>2. EventOf(st, m) = Event("index", m)
    BY <2>1 DEF EventOf, AfterUpdate
  <2>3. m \in Docs
    BY <1>1, <1>3
  <2>4. Explains(st, View(s), m, m)
    BY <1>1, <2>2, <2>3, IndexExplains DEF Explains
  <2> QED BY <1>7, <2>1, <2>3, <2>4 DEF Save
<1>8. ASSUME NEW c \in Columns, NEW v \in {0, 1}, NEW byMap \in BOOLEAN, NEW u \in BOOLEAN,
             Update(s, c, v, byMap, u)
      PROVE  \E st \in Statements, row \in Docs \cup {Absent}, n \in Docs :
               Run(s, st, row, n) /\ Explains(st, View(s), row, n)
  <2> DEFINE matched == Matches(View(s), u)
  <2> DEFINE st == [Keyed("update", matched)
                      EXCEPT !.changed = IF byMap THEN Only(c, v) ELSE NoColumns]
  <2> DEFINE row == IF matched THEN [View(s) EXCEPT ![c] = v] ELSE Absent
  <2> DEFINE m == [model[s] EXCEPT ![c] = v]
  <2>0. matched \in BOOLEAN
    BY DEF Matches
  <2>1. Keyed("update", matched) \in Statements /\ Keyed("update", matched).hook = "update"
        /\ Keyed("update", matched).matched = matched
    BY <1>4, <2>0 DEF Keyed, Statements
  <2>2. st \in Statements /\ st.hook = "update" /\ st.changed \in {NoColumns, Only(c, v)}
        /\ st.matched = matched
    BY <1>2, <2>1 DEF Statements
  <2>3. m \in Docs
    BY <1>1, <1>3
  <2>4. Run(s, st, row, m)
    BY <1>8 DEF Update
  <2> HIDE DEF st
  <2>5. CASE matched
    <3>1. View(s) \in Docs
      BY <1>1, <2>5 DEF Matches
    <3>2. row \in Docs /\ Explains(st, View(s), row, m)
      BY <1>3, <2>2, <2>3, <2>5, <3>1, ChangeExplains
    <3> QED BY <2>2, <2>3, <2>4, <3>2
  <2>6. CASE ~matched
    <3>1. row = Absent /\ Explains(st, View(s), row, m)
      BY <1>5, <2>2, <2>6
    <3> QED BY <2>2, <2>3, <2>4, <3>1
  <2> QED BY <2>5, <2>6
<1>9. ASSUME NEW c \in Columns, NEW v \in {0, 1}, UpdateWhere(s, c, v)
      PROVE  \E st \in Statements, row \in Docs \cup {Absent}, n \in Docs :
               Run(s, st, row, n) /\ Explains(st, View(s), row, n)
  <2> DEFINE st == [NoStatement EXCEPT !.hook = "update", !.matched = TRUE,
                                       !.changed = Only(c, v)]
  <2>1. st \in Statements /\ ~st.identified
    BY <1>2, <1>4 DEF Statements, NoStatement
  <2>2. View(s) \in Docs
    BY <1>1, <1>9 DEF UpdateWhere, Matches
  <2>3. [View(s) EXCEPT ![c] = v] \in Docs
    BY <1>3, <2>2
  <2>4. Explains(st, View(s), [View(s) EXCEPT ![c] = v], model[s])
    BY <1>5, <2>1
  <2> QED BY <1>1, <1>9, <2>1, <2>3, <2>4 DEF UpdateWhere
<1>10. ASSUME NEW identified \in BOOLEAN, NEW u \in BOOLEAN, Delete(s, identified, u)
      PROVE  \E st \in Statements, row \in Docs \cup {Absent}, n \in Docs :
               Run(s, st, row, n) /\ Explains(st, View(s), row, n)
  <2> DEFINE matched == Matches(View(s), u)
  <2> DEFINE soft == SoftDelete /\ ~u
  <2> DEFINE st == [NoStatement EXCEPT !.hook = "delete", !.matched = matched,
                                       !.identified = identified, !.unscoped = u]
  <2> DEFINE row == IF soft /\ matched THEN [View(s) EXCEPT ![SoftColumn] = 1] ELSE Absent
  <2> DEFINE m == IF soft /\ identified THEN [model[s] EXCEPT ![SoftColumn] = 1] ELSE model[s]
  <2>0. matched \in BOOLEAN
    BY DEF Matches
  <2>1. st \in Statements /\ st.hook = "delete" /\ st.matched = matched /\ st.unscoped = u
    BY <1>4, <2>0 DEF Statements, NoStatement
  <2>2. m \in Docs
    BY <1>1, <1>3, AutoSyncAssumption
  <2>3. Run(s, st, row, m)
    BY <1>10 DEF Delete
  <2> HIDE DEF st, m
  <2>4. CASE matched
    <3>1. View(s) \in Docs
      BY <1>1, <2>4 DEF Matches
    <3>2. row \in Docs \cup {Absent}
      BY <1>3, <3>1, AutoSyncAssumption
    <3>3. row = IF SoftDelete /\ ~st.unscoped THEN [View(s) EXCEPT ![SoftColumn] = 1] ELSE Absent
      BY <2>1, <2>4
    <3>4. Explains(st, View(s), row, m)
      BY <2>1, <3>1, <3>3, DeleteExplains DEF Explains
    <3> QED BY <2>1, <2>2, <2>3, <3>2, <3>4
  <2>5. CASE ~matched
    <3>1. row = Absent /\ Explains(st, View(s), row, m)
      BY <1>5, <2>1, <2>5
    <3> QED BY <2>1, <2>2, <2>3, <3>1
  <2> QED BY <2>4, <2>5
<1> QED BY <1>6, <1>7, <1>8, <1>9, <1>10 DEF Statement

-----------------------------------------------------------------------------
(* The variables keep their types.                                          *)

OutboxRows == [by : Sessions \cup {Committed}, event : Events]
LogType == /\ lastId \in Nat /\ DOMAIN outbox \subseteq 1..lastId
           /\ outbox \in [DOMAIN outbox -> OutboxRows]

(* An inserted outbox row has the next id.                                  *)
LEMMA InsertedType ==
  ASSUME TypeOK, NEW row \in OutboxRows, Inserted(row)
  PROVE  LogType'
<1>1. lastId' \in Nat /\ DOMAIN outbox' = DOMAIN outbox \cup {lastId + 1}
  BY DEF Inserted, TypeOK
<1>2. DOMAIN outbox' \subseteq 1..lastId'
  BY <1>1 DEF Inserted, TypeOK
<1>3. ASSUME NEW k \in DOMAIN outbox' PROVE outbox'[k] \in OutboxRows
  BY <1>1, <1>3 DEF Inserted, TypeOK, OutboxRows
<1>4. outbox' = [k \in DOMAIN outbox' |-> outbox'[k]]
  BY <1>1 DEF Inserted
<1> QED BY <1>1, <1>2, <1>3, <1>4 DEF LogType

(* Rows leave the outbox whole.                                             *)
LEMMA WithoutType ==
  ASSUME TypeOK, NEW ids, outbox' = Without(ids), UNCHANGED lastId
  PROVE  LogType'
<1>1. DOMAIN outbox' = DOMAIN outbox \ ids
  BY DEF Without
<1>2. \A k \in DOMAIN outbox' : outbox'[k] \in OutboxRows
  BY <1>1 DEF Without, TypeOK, OutboxRows
<1>3. outbox' = [k \in DOMAIN outbox' |-> outbox'[k]]
  BY <1>1 DEF Without
<1> QED BY <1>1, <1>2, <1>3 DEF LogType, TypeOK

(* The rows of a transaction keep their ids when it commits.                *)
LEMMA CommittedType ==
  ASSUME TypeOK, NEW s \in Sessions, Commit(s)
  PROVE  LogType'
<1>1. DOMAIN outbox' = DOMAIN outbox
  BY DEF Commit
<1>2. ASSUME NEW k \in DOMAIN outbox' PROVE outbox'[k] \in OutboxRows
  <2>1. outbox[k] \in OutboxRows
    BY <1>1 DEF TypeOK, OutboxRows
  <2>2. outbox'[k] = IF outbox[k].by = s THEN [outbox[k] EXCEPT !.by = Committed] ELSE outbox[k]
    BY <1>1 DEF Commit
  <2> QED BY <2>1, <2>2 DEF OutboxRows
<1>3. outbox' = [k \in DOMAIN outbox' |-> outbox'[k]]
  BY <1>1 DEF Commit
<1> QED BY <1>1, <1>2, <1>3 DEF LogType, TypeOK, Commit

(* Counting a statement or an event.                                        *)
LEMMA SpendType ==
  ASSUME TypeOK, NEW b \in {"stmt", "event"}, NEW max, Spend(b, max)
  PROVE  used' \in [{"stmt", "event"} -> Nat]
BY DEF Spend, TypeOK

\* What the switches are.
SwitchType == /\ autoSync \in BOOLEAN /\ wanted \in BOOLEAN
              /\ hooks \subseteq {"create", "update", "delete"}
              /\ switching \in Seq({"allOn", "allOff", "modelOn", "modelOff", "remove",
                                    "create", "update", "delete"})

(* Enabling and disabling go through their steps (callback.go:22-63).       *)
LEMMA SwitchesType ==
  ASSUME TypeOK,
         \/ \E call \in {EnableAll, EnableModel, DisableAll, DisableModel} : SwitchBegins(call)
         \/ SwitchStep \/ SwitchFails
  PROVE  SwitchType'
<1> DEFINE L == {"allOn", "allOff", "modelOn", "modelOff", "remove", "create", "update", "delete"}
<1>1. /\ EnableAll \in Seq(L) /\ EnableModel \in Seq(L)
      /\ DisableAll \in Seq(L) /\ DisableModel \in Seq(L) /\ << >> \in Seq(L)
  BY DEF EnableAll, EnableModel, DisableAll, DisableModel
<1>2. ASSUME NEW call \in {EnableAll, EnableModel, DisableAll, DisableModel}, SwitchBegins(call)
      PROVE  SwitchType'
  BY <1>1, <1>2 DEF SwitchBegins, SwitchType, TypeOK
<1>3. CASE SwitchStep
  <2>1. switching # << >> /\ switching' = Tail(switching) /\ switching \in Seq(L)
    BY <1>3 DEF SwitchStep, TypeOK
  <2>2. switching' \in Seq(L) /\ Head(switching) \in L
    BY <2>1
  <2>3. autoSync' \in BOOLEAN
    BY <1>3 DEF SwitchStep, TypeOK
  <2>4. hooks' \subseteq {"create", "update", "delete"}
    BY <1>3 DEF SwitchStep, TypeOK
  <2>5. wanted' \in BOOLEAN
    BY <1>3 DEF SwitchStep
  <2> QED BY <2>2, <2>3, <2>4, <2>5 DEF SwitchType
<1>4. CASE SwitchFails
  BY <1>1, <1>4 DEF SwitchFails, SwitchType, TypeOK
<1> QED BY <1>2, <1>3, <1>4

(* A statement, its struct and its row.                                     *)
LEMMA RunType ==
  ASSUME TypeOK, NEW s \in Sessions, NEW st \in Statements, NEW row \in Docs \cup {Absent},
         NEW m \in Docs, Run(s, st, row, m)
  PROVE  TypeOK'
<1>1. [st EXCEPT !.hooked = st.hook \in hooks, !.wanted = wanted] \in Statements
  <2>1. \A h, w \in BOOLEAN : [st EXCEPT !.hooked = h, !.wanted = w] \in Statements
    BY DEF Statements
  <2>2. (st.hook \in hooks) \in BOOLEAN /\ wanted \in BOOLEAN
    BY DEF TypeOK
  <2> QED BY <2>1, <2>2
<1>2. stmt' \in [Sessions -> Statements]
  BY <1>1 DEF Run, TypeOK
<1>3. pc' \in [Sessions -> {"idle", "open", "hook", "commit", "rollback"}]
  BY DEF Run, Goto, TypeOK
<1>4. explicit' \in [Sessions -> BOOLEAN]
  BY DEF Run, Transaction, TypeOK
<1>5. st.matched \in BOOLEAN
  BY DEF Statements
<1>6. held' \in [Sessions -> BOOLEAN]
  BY <1>5 DEF Run, TypeOK
<1>7. work' \in [Sessions -> Docs \cup {Absent}] /\ model' \in [Sessions -> Docs]
  BY DEF Run, TypeOK
<1>8. used' \in [{"stmt", "event"} -> Nat]
  BY SpendType DEF Run
<1> QED BY <1>2, <1>3, <1>4, <1>6, <1>7, <1>8 DEF Run, TypeOK, switch, log

(* The callbacks.                                                           *)
LEMMA CallbackType ==
  ASSUME TypeOK, NEW s \in Sessions,
         \/ CallbackOff(s) \/ CallbackUnidentified(s)
         \/ CallbackPersists(s) \/ CallbackFails(s)
  PROVE  TypeOK'
<1>1. NoStatement \in Statements
  BY PartialFacts DEF NoStatement, Statements
<1>2. \A l \in {"commit", "rollback"} : AfterCallback(s, l) =>
        /\ pc' \in [Sessions -> {"idle", "open", "hook", "commit", "rollback"}]
        /\ stmt' \in [Sessions -> Statements]
  BY <1>1 DEF AfterCallback, Goto, TypeOK
<1>3. \A c \in SUBSET Causes : Blame(s, c) => cause' \in [Sessions -> SUBSET Causes]
  BY DEF Blame, TypeOK
<1>4. CASE CallbackOff(s)
  <2>1. (IF stmt[s].matched /\ ~(stmt[s].wanted /\ wanted) THEN {"disabled"} ELSE {})
           \in SUBSET Causes
    BY DEF Causes
  <2> QED BY <1>2, <1>3, <1>4, <2>1 DEF CallbackOff, Unchanged, TypeOK, switch, log
<1>5. CASE CallbackUnidentified(s)
  <2>1. {"reported"} \in SUBSET Causes
    BY DEF Causes
  <2> QED BY <1>2, <1>3, <1>5, <2>1 DEF CallbackUnidentified, Unchanged, TypeOK, switch, log
<1>6. CASE CallbackPersists(s)
  <2> DEFINE e == EventOf(stmt[s], model[s])
  <2>1. e \in Events
    BY EventOfType DEF TypeOK
  <2>2. Flaws(s, stmt[s], e) \in SUBSET Causes
    BY DEF Flaws, Causes
  <2>3. [by |-> s, event |-> e] \in OutboxRows
    BY <2>1 DEF OutboxRows
  <2>4. LogType'
    BY <1>6, <2>3, InsertedType DEF CallbackPersists, Persist
  <2> QED BY <1>2, <1>3, <1>6, <2>2, <2>4
          DEF CallbackPersists, Unchanged, TypeOK, switch, LogType, OutboxRows
<1>7. CASE CallbackFails(s)
  <2>1. {"reported"} \in SUBSET Causes
    BY DEF Causes
  <2>2. used' \in [{"stmt", "event"} -> Nat]
    BY <1>7, SpendType DEF CallbackFails, Fault
  <2> QED BY <1>2, <1>3, <1>7, <2>1, <2>2 DEF CallbackFails, Unchanged, TypeOK, switch, log
<1> QED BY <1>4, <1>5, <1>6, <1>7

(* The end of a transaction.                                                *)
LEMMA EndType ==
  ASSUME TypeOK, NEW s \in Sessions, Commit(s) \/ Rollback(s)
  PROVE  TypeOK'
<1>1. End(s)
  BY DEF Commit, Rollback
<1>2. LogType'
  BY CommittedType, WithoutType DEF Rollback
<1>3. table' \in Docs \cup {Absent}
  BY DEF Commit, Rollback, View, TypeOK
<1>4. used' \in [{"stmt", "event"} -> Nat]
  BY SpendType DEF Commit, Rollback, Fault, TypeOK
<1>5. excused' \subseteq Causes
  BY DEF Commit, Rollback, TypeOK
<1>6. pc' \in [Sessions -> {"idle", "open", "hook", "commit", "rollback"}]
  BY <1>1 DEF End, Goto, TypeOK
<1>7. explicit' \in [Sessions -> BOOLEAN] /\ held' \in [Sessions -> BOOLEAN]
  BY <1>1 DEF End, TypeOK
<1>8. work' \in [Sessions -> Docs \cup {Absent}] /\ cause' \in [Sessions -> SUBSET Causes]
  BY <1>1 DEF End, TypeOK
<1> QED BY <1>1, <1>2, <1>3, <1>4, <1>5, <1>6, <1>7, <1>8
        DEF End, TypeOK, switch, LogType, OutboxRows

(* An operator's request, and the relay.                                    *)
LEMMA RequestType ==
  ASSUME TypeOK,
         \/ \E action \in {"index", "update", "delete"}, u \in BOOLEAN : RequestLoads(action, u)
         \/ RequestById \/ RequestEnqueued
  PROVE  TypeOK'
<1>1. ASSUME NEW action \in {"index", "update", "delete"}, NEW u \in BOOLEAN,
             RequestLoads(action, u)
      PROVE  TypeOK'
  <2>1. table \in Docs
    BY <1>1 DEF RequestLoads, Matches, TypeOK
  <2>2. table \in Partial /\ NoColumns \in Partial
    BY <2>1, PartialFacts
  <2>3. request' \in Events
    BY <1>1, <2>2 DEF RequestLoads, Event, Events
  <2>4. used' \in [{"stmt", "event"} -> Nat]
    BY <1>1, SpendType DEF RequestLoads
  <2> QED BY <1>1, <2>3, <2>4 DEF RequestLoads, TypeOK, switch, log, tx
<1>2. CASE RequestById
  <2>1. request' \in Events
    BY <1>2, PartialFacts DEF RequestById, Event, Events
  <2>2. used' \in [{"stmt", "event"} -> Nat]
    BY <1>2, SpendType DEF RequestById
  <2> QED BY <1>2, <2>1, <2>2 DEF RequestById, TypeOK, switch, log, tx
<1>3. CASE RequestEnqueued
  <2>1. request \in Events
    BY <1>3 DEF RequestEnqueued, TypeOK
  <2>2. [by |-> Committed, event |-> request] \in OutboxRows
    BY <2>1 DEF OutboxRows
  <2>3. LogType'
    <3>1. CASE Persist(Committed, request)
      BY <2>2, <3>1, InsertedType DEF Persist
    <3>2. CASE UNCHANGED log
      BY <3>2 DEF log, LogType, TypeOK, OutboxRows
    <3> QED BY <1>3, <3>1, <3>2 DEF RequestEnqueued, log
  <2>4. RequestFlaws \in SUBSET Causes
    BY DEF RequestFlaws, Causes
  <2>5. excused' \subseteq Causes
    BY <1>3, <2>4 DEF RequestEnqueued, TypeOK
  <2> QED BY <1>3, <2>3, <2>5 DEF RequestEnqueued, TypeOK, switch, tx, LogType, OutboxRows
<1> QED BY <1>1, <1>2, <1>3

(* The relay's delivery makes a document of what Elasticsearch holds.       *)
LEMMA DeliverType ==
  ASSUME TypeOK, Deliver
  PROVE  TypeOK'
<1>1. PICK k \in Deliverable :
        /\ mirror' = Applied(mirror, outbox[k].event)
        /\ outbox' = Without({k})
        /\ excused' \in {{}, excused}
        /\ UNCHANGED <<entry, switch, table, lastId, tx, model, stmt, request, cause, used>>
  BY DEF Deliver
<1>2. outbox[k].event \in Events
  BY DEF Deliverable, TypeOK
<1>3. mirror' \in Docs \cup {Absent}
  BY <1>1, <1>2, AppliedType DEF TypeOK
<1>4. LogType'
  BY <1>1, WithoutType
<1> QED BY <1>1, <1>3, <1>4 DEF TypeOK, switch, tx, LogType, OutboxRows

(* Every step keeps the types.                                              *)
LEMMA TypeStep == TypeOK /\ [Next]_vars => TypeOK'
<1> SUFFICES ASSUME TypeOK, [Next]_vars PROVE TypeOK'
  OBVIOUS
<1>1. ASSUME NEW s \in Sessions, NEW u \in BOOLEAN, Load(s, u) PROVE TypeOK'
  <2>1. View(s) \in Docs
    BY <1>1 DEF Load, Matches, View, TypeOK
  <2> QED BY <1>1, <2>1 DEF Load, TypeOK, switch, log, tx
<1>2. ASSUME NEW s \in Sessions, Statement(s) PROVE TypeOK'
  BY <1>2, StatementRuns, RunType
<1>3. ASSUME NEW s \in Sessions,
             \/ CallbackOff(s) \/ CallbackUnidentified(s)
             \/ CallbackPersists(s) \/ CallbackFails(s)
      PROVE  TypeOK'
  BY <1>3, CallbackType
<1>4. ASSUME NEW s \in Sessions, Commit(s) \/ Rollback(s) PROVE TypeOK'
  BY <1>4, EndType
<1>5. ASSUME \/ \E call \in {EnableAll, EnableModel, DisableAll, DisableModel} : SwitchBegins(call)
             \/ SwitchStep \/ SwitchFails
      PROVE  TypeOK'
  <2>1. SwitchType'
    BY <1>5, SwitchesType
  <2>2. used' \in [{"stmt", "event"} -> Nat]
    BY <1>5, SpendType DEF SwitchBegins, SwitchStep, SwitchFails, TypeOK
  <2>3. UNCHANGED <<entry, table, log, mirror, tx, model, stmt, request, cause, excused>>
    BY <1>5 DEF SwitchBegins, SwitchStep, SwitchFails
  <2> QED BY <2>1, <2>2, <2>3 DEF TypeOK, SwitchType, log, tx
<1>6. ASSUME \/ \E action \in {"index", "update", "delete"}, u \in BOOLEAN :
                   RequestLoads(action, u)
             \/ RequestById \/ RequestEnqueued
      PROVE  TypeOK'
  BY <1>6, RequestType
<1>7. CASE Deliver
  BY <1>7, DeliverType
<1>8. CASE UNCHANGED vars
  BY <1>8 DEF vars, switch, log, tx, TypeOK
<1> QED BY <1>1, <1>2, <1>3, <1>4, <1>5, <1>6, <1>7, <1>8 DEF Next, Statement

-----------------------------------------------------------------------------
(* What the events of one session, or the committed ones, make of a         *)
(* document.                                                                *)

Mirrors == Docs \cup {Absent}
LogOK(rows, last) == /\ last \in Nat /\ DOMAIN rows \subseteq 1..last
                     /\ \A k \in DOMAIN rows : rows[k].event \in Events

RowOf(rows, who, k) == k \in DOMAIN rows /\ rows[k].by = who

\* d[n] is the document after the rows of who with ids up to n.
Course(d, rows, last, who, from, to) ==
  /\ d[0] = from /\ d[last] = to
  /\ \A k \in DOMAIN rows : rows[k].by = who => d[k] = Applied(d[k-1], rows[k].event)
  /\ \A m, n \in Nat :
       m <= n /\ (\A k \in DOMAIN rows : m < k /\ k <= n => rows[k].by # who) => d[m] = d[n]

\* The rows of who take the document from one state to another.
Path(rows, last, who, from, to) ==
  \E d \in [Nat -> Mirrors] : Course(d, rows, last, who, from, to)

(* Rows of others do not matter.                                            *)
LEMMA PathSame ==
  ASSUME NEW rows, NEW last, NEW more, NEW latest, NEW who, NEW from, NEW to,
         LogOK(rows, last), LogOK(more, latest), last <= latest,
         \A k \in Nat : RowOf(more, who, k) <=> RowOf(rows, who, k),
         \A k \in Nat : RowOf(rows, who, k) => more[k].event = rows[k].event,
         Path(rows, last, who, from, to)
  PROVE  Path(more, latest, who, from, to)
<1>1. PICK d \in [Nat -> Mirrors] : Course(d, rows, last, who, from, to)
  BY DEF Path
<1>2. last \in Nat /\ latest \in Nat /\ DOMAIN rows \subseteq 1..last /\ DOMAIN more \subseteq Nat
      /\ DOMAIN rows \subseteq Nat
  BY DEF LogOK
<1>3. ASSUME NEW m \in Nat, NEW n \in Nat, m <= n,
             \A k \in DOMAIN more : m < k /\ k <= n => more[k].by # who
      PROVE  d[m] = d[n]
  <2>1. \A k \in DOMAIN rows : m < k /\ k <= n => rows[k].by # who
    BY <1>2, <1>3 DEF RowOf
  <2> QED BY <1>1, <1>3, <2>1 DEF Course
<1>4. d[last] = d[latest]
  <2>1. \A k \in DOMAIN rows : last < k /\ k <= latest => rows[k].by # who
    BY <1>2
  <2> QED BY <1>1, <1>2, <2>1 DEF Course
<1>5. ASSUME NEW k \in DOMAIN more, more[k].by = who
      PROVE  d[k] = Applied(d[k-1], more[k].event)
  <2>1. k \in DOMAIN rows /\ rows[k].by = who /\ more[k].event = rows[k].event
    BY <1>2, <1>5 DEF RowOf
  <2> QED BY <1>1, <2>1 DEF Course
<1>6. Course(d, more, latest, who, from, to)
  BY <1>1, <1>3, <1>4, <1>5 DEF Course
<1> QED BY <1>6 DEF Path

(* Without rows the document stays what it is.                              *)
LEMMA PathEmpty ==
  ASSUME NEW rows, NEW last, NEW who, NEW from \in Mirrors, LogOK(rows, last),
         \A k \in DOMAIN rows : rows[k].by # who
  PROVE  /\ Path(rows, last, who, from, from)
         /\ \A to : Path(rows, last, who, from, to) => to = from
<1>1. last \in Nat /\ 0 <= last
  BY DEF LogOK
<1>2. Course([n \in Nat |-> from], rows, last, who, from, from)
  BY <1>1 DEF Course
<1>3. Path(rows, last, who, from, from)
  <2>1. [n \in Nat |-> from] \in [Nat -> Mirrors]
    OBVIOUS
  <2> QED BY <1>2, <2>1 DEF Path
<1>4. ASSUME NEW to, Path(rows, last, who, from, to) PROVE to = from
  BY <1>1, <1>4 DEF Path, Course
<1> QED BY <1>3, <1>4

(* A new row applies to the end.                                            *)
LEMMA PathAppend ==
  ASSUME NEW rows, NEW last, NEW who, NEW from, NEW to \in Mirrors, LogOK(rows, last),
         NEW row, row.by = who, row.event \in Events,
         Path(rows, last, who, from, to)
  PROVE  Path([k \in DOMAIN rows \cup {last + 1} |-> IF k = last + 1 THEN row ELSE rows[k]],
              last + 1, who, from, Applied(to, row.event))
<1> DEFINE more == [k \in DOMAIN rows \cup {last + 1} |-> IF k = last + 1 THEN row ELSE rows[k]]
<1>1. PICK d \in [Nat -> Mirrors] : Course(d, rows, last, who, from, to)
  BY DEF Path
<1>2. last \in Nat /\ DOMAIN rows \subseteq 1..last /\ last + 1 \in Nat
  BY DEF LogOK
<1>3. /\ DOMAIN more = DOMAIN rows \cup {last + 1}
      /\ more[last + 1] = row
      /\ \A k \in DOMAIN rows : more[k] = rows[k]
  BY <1>2
<1> HIDE DEF more
<1> DEFINE end == Applied(to, row.event)
<1>4. end \in Mirrors
  BY AppliedType DEF Mirrors
<1> HIDE DEF end
<1> DEFINE c == [n \in Nat |-> IF n <= last THEN d[n] ELSE end]
<1>5. c \in [Nat -> Mirrors]
  BY <1>1, <1>4
<1>6. \A n \in Nat : c[n] = IF n <= last THEN d[n] ELSE end
  OBVIOUS
<1> HIDE DEF c
<1>7. c[0] = from /\ c[last + 1] = end
  BY <1>1, <1>2, <1>6 DEF Course
<1>8. ASSUME NEW k \in DOMAIN more, more[k].by = who
      PROVE  c[k] = Applied(c[k-1], more[k].event)
  <2>1. CASE k = last + 1
    <3>1. c[k] = end /\ c[k-1] = d[last]
      BY <1>2, <1>6, <2>1
    <3> QED BY <1>1, <1>3, <2>1, <3>1 DEF Course, end
  <2>2. CASE k # last + 1
    <3>1. k \in DOMAIN rows /\ k \in 1..last
      BY <1>2, <1>3, <2>2
    <3>2. c[k] = d[k] /\ c[k-1] = d[k-1]
      BY <1>2, <1>6, <3>1
    <3> QED BY <1>1, <1>3, <1>8, <3>1, <3>2 DEF Course
  <2> QED BY <2>1, <2>2
<1>9. ASSUME NEW m \in Nat, NEW n \in Nat, m <= n,
             \A k \in DOMAIN more : m < k /\ k <= n => more[k].by # who
      PROVE  c[m] = c[n]
  <2>1. CASE n <= last
    <3>1. \A k \in DOMAIN rows : m < k /\ k <= n => rows[k].by # who
      BY <1>3, <1>9
    <3>2. m <= last
      BY <1>2, <1>9, <2>1
    <3> QED BY <1>1, <1>6, <1>9, <2>1, <3>1, <3>2 DEF Course
  <2>2. CASE m <= last /\ ~(n <= last)
    <3>1. m < last + 1 /\ last + 1 <= n
      BY <1>2, <2>2
    <3> QED BY <1>3, <1>9, <3>1
  <2>3. CASE ~(m <= last)
    <3>1. ~(n <= last)
      BY <1>2, <1>9, <2>3
    <3> QED BY <1>6, <2>3, <3>1
  <2> QED BY <2>1, <2>2, <2>3
<1>10. Course(c, more, last + 1, who, from, end)
  BY <1>7, <1>8, <1>9 DEF Course
<1> QED BY <1>5, <1>10 DEF Path, more, end

(* The first row may be applied at once.                                    *)
LEMMA PathTake ==
  ASSUME NEW rows, NEW last, NEW who, NEW from, NEW to, LogOK(rows, last),
         NEW k \in DOMAIN rows, rows[k].by = who,
         \A j \in DOMAIN rows : rows[j].by = who => k <= j,
         Path(rows, last, who, from, to)
  PROVE  Path([j \in DOMAIN rows \ {k} |-> rows[j]], last, who,
              Applied(from, rows[k].event), to)
<1> DEFINE rest == [j \in DOMAIN rows \ {k} |-> rows[j]]
<1>1. PICK d \in [Nat -> Mirrors] : Course(d, rows, last, who, from, to)
  BY DEF Path
<1>2. last \in Nat /\ DOMAIN rows \subseteq 1..last /\ k \in 1..last /\ k \in Nat
      /\ DOMAIN rows \subseteq Nat
  BY DEF LogOK
<1>3. /\ DOMAIN rest = DOMAIN rows \ {k}
      /\ \A j \in DOMAIN rows \ {k} : rest[j] = rows[j]
  OBVIOUS
<1> HIDE DEF rest
<1> DEFINE c == [n \in Nat |-> IF n < k THEN d[k] ELSE d[n]]
<1>4. c \in [Nat -> Mirrors]
  BY <1>1, <1>2
<1>5. \A n \in Nat : c[n] = IF n < k THEN d[k] ELSE d[n]
  OBVIOUS
<1> HIDE DEF c
<1>6. d[k-1] = from
  <2>1. \A j \in DOMAIN rows : 0 < j /\ j <= k-1 => rows[j].by # who
    BY <1>2
  <2>2. k - 1 \in Nat /\ 0 <= k - 1
    BY <1>2
  <2> QED BY <1>1, <2>1, <2>2 DEF Course
<1>7. c[0] = Applied(from, rows[k].event)
  BY <1>1, <1>2, <1>5, <1>6 DEF Course
<1>8. c[last] = to
  BY <1>1, <1>2, <1>5 DEF Course
<1>9. ASSUME NEW j \in DOMAIN rest, rest[j].by = who
      PROVE  c[j] = Applied(c[j-1], rest[j].event)
  <2>1. j \in DOMAIN rows /\ j # k /\ rows[j].by = who /\ j \in Nat
    BY <1>2, <1>3, <1>9
  <2>2. k <= j
    BY <2>1
  <2>3. j - 1 \in Nat /\ ~(j < k) /\ ~(j - 1 < k)
    BY <1>2, <2>1, <2>2
  <2>4. c[j] = d[j] /\ c[j-1] = d[j-1]
    BY <1>5, <2>1, <2>3
  <2> QED BY <1>1, <1>3, <2>1, <2>4 DEF Course
<1>10. ASSUME NEW m \in Nat, NEW n \in Nat, m <= n,
              \A j \in DOMAIN rest : m < j /\ j <= n => rest[j].by # who
       PROVE  c[m] = c[n]
  <2>1. \A j \in DOMAIN rows : k < j /\ m < j /\ j <= n => rows[j].by # who
    BY <1>2, <1>3, <1>10
  <2>2. CASE n < k
    BY <1>2, <1>5, <1>10, <2>2
  <2>3. CASE ~(n < k) /\ m < k
    <3>1. k <= n
      BY <1>2, <2>3
    <3>2. \A j \in DOMAIN rows : k < j /\ j <= n => rows[j].by # who
      BY <1>2, <2>1, <2>3
    <3>3. d[k] = d[n]
      BY <1>1, <1>2, <3>1, <3>2 DEF Course
    <3> QED BY <1>5, <2>3, <3>3
  <2>4. CASE ~(m < k)
    <3>1. ~(n < k)
      BY <1>2, <1>10, <2>4
    <3>2. \A j \in DOMAIN rows : m < j /\ j <= n => rows[j].by # who
      BY <1>2, <2>1, <2>4
    <3>3. d[m] = d[n]
      BY <1>1, <1>10, <3>2 DEF Course
    <3> QED BY <1>5, <2>4, <3>1, <3>3
  <2> QED BY <2>2, <2>3, <2>4
<1>11. Course(c, rest, last, who, Applied(from, rows[k].event), to)
  BY <1>7, <1>8, <1>9, <1>10 DEF Course
<1> QED BY <1>4, <1>11 DEF Path, rest

(* The rows of a session follow those of who, and become rows of who.       *)
LEMMA PathJoin ==
  ASSUME NEW rows, NEW last, NEW who, NEW s, NEW from, NEW mid, NEW to, LogOK(rows, last),
         \A j, k \in DOMAIN rows : rows[j].by = s /\ rows[k].by = who => k < j,
         NEW joined, DOMAIN joined = DOMAIN rows,
         \A k \in DOMAIN rows : joined[k].event = rows[k].event,
         \A k \in DOMAIN rows : joined[k].by = who <=> rows[k].by \in {who, s},
         Path(rows, last, who, from, mid), Path(rows, last, s, mid, to)
  PROVE  Path(joined, last, who, from, to)
<1>1. PICK d \in [Nat -> Mirrors] : Course(d, rows, last, who, from, mid)
  BY DEF Path
<1>2. PICK e \in [Nat -> Mirrors] : Course(e, rows, last, s, mid, to)
  BY DEF Path
<1>3. last \in Nat /\ DOMAIN rows \subseteq 1..last /\ DOMAIN rows \subseteq Nat
  BY DEF LogOK
<1> DEFINE Own(n) == \E k \in DOMAIN rows : rows[k].by = s /\ k <= n
<1> DEFINE c == [n \in Nat |-> IF Own(n) THEN e[n] ELSE d[n]]
<1>4. c \in [Nat -> Mirrors]
  BY <1>1, <1>2
<1>5. \A n \in Nat : c[n] = IF Own(n) THEN e[n] ELSE d[n]
  OBVIOUS
<1> HIDE DEF c
<1>6. ASSUME NEW n \in Nat, n <= last, ~Own(n) PROVE e[n] = mid
  <2>1. \A k \in DOMAIN rows : 0 < k /\ k <= n => rows[k].by # s
    BY <1>6
  <2>2. 0 <= n
    BY <1>6
  <2> QED BY <1>2, <2>1, <2>2 DEF Course
<1>7. ASSUME NEW n \in Nat, n <= last, \A k \in DOMAIN rows : rows[k].by = who => k <= n
      PROVE  d[n] = mid
  <2>1. \A k \in DOMAIN rows : n < k /\ k <= last => rows[k].by # who
    BY <1>3, <1>7
  <2> QED BY <1>1, <1>3, <1>7, <2>1 DEF Course
<1>8. c[0] = from
  <2>1. ~Own(0)
    BY <1>3
  <2> QED BY <1>1, <1>5, <2>1 DEF Course
<1>9. c[last] = to
  <2>1. CASE Own(last)
    BY <1>2, <1>3, <1>5, <2>1 DEF Course
  <2>2. CASE ~Own(last)
    <3>1. e[last] = mid
      BY <1>3, <1>6, <2>2
    <3> QED BY <1>1, <1>2, <1>3, <1>5, <2>2, <3>1 DEF Course
  <2> QED BY <2>1, <2>2
<1>10. ASSUME NEW k \in DOMAIN joined, joined[k].by = who
       PROVE  c[k] = Applied(c[k-1], joined[k].event)
  <2>0. k \in Nat /\ k - 1 \in Nat /\ k <= last /\ k - 1 <= last /\ joined[k].event = rows[k].event
    BY <1>3
  <2>1. CASE rows[k].by = s
    <3>1. Own(k)
      BY <2>0, <2>1
    <3>2. c[k] = e[k] /\ e[k] = Applied(e[k-1], rows[k].event)
      BY <1>2, <1>5, <2>0, <2>1, <3>1 DEF Course
    <3>3. CASE Own(k-1)
      BY <1>5, <2>0, <3>2, <3>3
    <3>4. CASE ~Own(k-1)
      <4>1. e[k-1] = mid
        BY <1>6, <2>0, <3>4
      <4>2. \A j \in DOMAIN rows : rows[j].by = who => j <= k-1
        BY <1>3, <2>0, <2>1
      <4>3. d[k-1] = mid
        BY <1>7, <2>0, <4>2
      <4> QED BY <1>5, <2>0, <3>2, <3>4, <4>1, <4>3
    <3> QED BY <3>3, <3>4
  <2>2. CASE rows[k].by = who /\ rows[k].by # s
    <3>1. \A j \in DOMAIN rows : rows[j].by = s => k < j
      BY <2>2
    <3>2. ~Own(k) /\ ~Own(k-1)
      BY <1>3, <2>0, <3>1
    <3>3. c[k] = d[k] /\ c[k-1] = d[k-1]
      BY <1>5, <2>0, <3>2
    <3> QED BY <1>1, <2>0, <2>2, <3>3 DEF Course
  <2> QED BY <1>10, <2>1, <2>2
<1>11. ASSUME NEW m \in Nat, NEW n \in Nat, m <= n,
              \A k \in DOMAIN joined : m < k /\ k <= n => joined[k].by # who
       PROVE  c[m] = c[n]
  <2>1. \A k \in DOMAIN rows : m < k /\ k <= n => rows[k].by # who /\ rows[k].by # s
    BY <1>11
  <2>2. Own(m) => Own(n)
    BY <1>3, <1>11
  <2>3. Own(n) => Own(m)
    BY <1>3, <2>1
  <2>4. d[m] = d[n]
    BY <1>1, <1>11, <2>1 DEF Course
  <2>5. e[m] = e[n]
    BY <1>2, <1>11, <2>1 DEF Course
  <2> QED BY <1>5, <2>2, <2>3, <2>4, <2>5
<1>12. Course(c, joined, last, who, from, to)
  BY <1>8, <1>9, <1>10, <1>11 DEF Course
<1> QED BY <1>4, <1>12 DEF Path

-----------------------------------------------------------------------------
(* Switching.                                                               *)

Register == <<"create", "update", "delete">>

\* What is left of a call, and that auto sync is wanted only while every
\* callback is there.
SwitchInv ==
  /\ switching \in {<< >>, <<"remove">>, <<"modelOff">>, DisableAll, EnableAll, EnableModel,
                    <<"modelOn", "remove", "create", "update", "delete">>,
                    <<"remove", "create", "update", "delete">>,
                    <<"create", "update", "delete">>, <<"update", "delete">>, <<"delete">>}
  /\ switching \in {<<"remove", "create", "update", "delete">>,
                    <<"create", "update", "delete">>, <<"update", "delete">>, <<"delete">>}
       => autoSync
  /\ switching = <<"update", "delete">> => "create" \in hooks
  /\ switching = <<"delete">> => "create" \in hooks /\ "update" \in hooks
  /\ wanted => switching = << >> /\ autoSync /\ hooks = {"create", "update", "delete"}

(* Auto sync counts as enabled only when its callbacks are registered and   *)
(* the model is switched on (callback.go:22-63).                            *)
LEMMA SwitchInvStep == TypeOK /\ SwitchInv /\ [Next]_vars => SwitchInv'
<1> SUFFICES ASSUME TypeOK, SwitchInv, [Next]_vars PROVE SwitchInv'
  OBVIOUS
<1>1. ASSUME UNCHANGED switch PROVE SwitchInv'
  BY <1>1 DEF switch, SwitchInv
<1>2. ASSUME NEW call \in {EnableAll, EnableModel, DisableAll, DisableModel}, SwitchBegins(call)
      PROVE  SwitchInv'
  <2>1. switching' = call /\ ~wanted'
    BY <1>2 DEF SwitchBegins
  <2>2. call \in {EnableAll, EnableModel, DisableAll, <<"modelOff">>}
    BY DEF DisableModel
  <2>3. call # <<"remove", "create", "update", "delete">> /\ call # <<"create", "update", "delete">>
        /\ call # <<"update", "delete">> /\ call # <<"delete">>
    BY <2>2 DEF EnableAll, EnableModel, DisableAll
  <2> QED BY <2>1, <2>2, <2>3 DEF SwitchInv
<1>3. CASE SwitchFails
  <2>1. switching # << >> /\ switching' = << >> /\ UNCHANGED <<autoSync, hooks, wanted>>
    BY <1>3 DEF SwitchFails
  <2>2. ~wanted'
    BY <2>1 DEF SwitchInv
  <2> QED BY <2>1, <2>2 DEF SwitchInv
<1>4. CASE SwitchStep
  <2> DEFINE step == Head(switching)
  <2>1. switching # << >> /\ switching' = Tail(switching)
    BY <1>4 DEF SwitchStep
  <2>2. /\ step \in {"allOn", "modelOn"} => autoSync'
        /\ step \notin {"allOn", "modelOn", "allOff", "modelOff"} => autoSync' = autoSync
    BY <1>4 DEF SwitchStep
  <2>3. /\ step \in {"create", "update", "delete"} => hooks' = hooks \cup {step}
        /\ step \notin {"remove", "create", "update", "delete"} => hooks' = hooks
    BY <1>4 DEF SwitchStep
  <2>4. wanted' <=> step = "delete"
    BY <1>4 DEF SwitchStep
  <2>5. CASE switching = <<"remove">>
    <3>1. switching' = << >> /\ step = "remove"
      BY <2>1, <2>5
    <3>2. ~wanted'
      BY <2>4, <3>1
    <3> QED BY <3>1, <3>2 DEF SwitchInv
  <2>6. CASE switching = <<"modelOff">>
    <3>1. switching' = << >> /\ step = "modelOff"
      BY <2>1, <2>6
    <3>2. ~wanted'
      BY <2>4, <3>1
    <3> QED BY <3>1, <3>2 DEF SwitchInv
  <2>7. CASE switching = DisableAll
    <3>1. switching' = <<"remove">> /\ step = "allOff"
      BY <2>1, <2>7 DEF DisableAll
    <3>2. ~wanted'
      BY <2>4, <3>1
    <3> QED BY <3>1, <3>2 DEF SwitchInv
  <2>8. CASE switching = EnableAll
    <3>1. switching' = <<"remove", "create", "update", "delete">> /\ step = "allOn"
      BY <2>1, <2>8 DEF EnableAll
    <3>2. ~wanted'
      BY <2>4, <3>1
    <3>4. autoSync'
      BY <2>2, <3>1
    <3> QED BY <3>1, <3>2, <3>4 DEF SwitchInv
  <2>9. CASE switching = EnableModel
    <3>1. switching' = <<"modelOn", "remove", "create", "update", "delete">> /\ step = "allOff"
      BY <2>1, <2>9 DEF EnableModel
    <3>2. ~wanted'
      BY <2>4, <3>1
    <3> QED BY <3>1, <3>2 DEF SwitchInv
  <2>10. CASE switching = <<"modelOn", "remove", "create", "update", "delete">>
    <3>1. switching' = <<"remove", "create", "update", "delete">> /\ step = "modelOn"
      BY <2>1, <2>10
    <3>2. ~wanted'
      BY <2>4, <3>1
    <3>4. autoSync'
      BY <2>2, <3>1
    <3> QED BY <3>1, <3>2, <3>4 DEF SwitchInv
  <2>11. CASE switching = <<"remove", "create", "update", "delete">>
    <3>1. switching' = <<"create", "update", "delete">> /\ step = "remove"
      BY <2>1, <2>11
    <3>2. ~wanted'
      BY <2>4, <3>1
    <3>3. autoSync
      BY <2>11 DEF SwitchInv
    <3>4. autoSync'
      BY <2>2, <3>1, <3>3
    <3> QED BY <3>1, <3>2, <3>4 DEF SwitchInv
  <2>12. CASE switching = <<"create", "update", "delete">>
    <3>1. switching' = <<"update", "delete">> /\ step = "create"
      BY <2>1, <2>12
    <3>2. ~wanted'
      BY <2>4, <3>1
    <3>3. autoSync
      BY <2>12 DEF SwitchInv
    <3>4. autoSync'
      BY <2>2, <3>1, <3>3
    <3>5. "create" \in hooks'
      BY <2>3, <3>1
    <3> QED BY <3>1, <3>2, <3>4, <3>5 DEF SwitchInv
  <2>13. CASE switching = <<"update", "delete">>
    <3>1. switching' = <<"delete">> /\ step = "update"
      BY <2>1, <2>13
    <3>2. ~wanted'
      BY <2>4, <3>1
    <3>3. autoSync
      BY <2>13 DEF SwitchInv
    <3>4. autoSync'
      BY <2>2, <3>1, <3>3
    <3>5. "create" \in hooks' /\ "update" \in hooks'
      BY <2>3, <2>13, <3>1 DEF SwitchInv
    <3> QED BY <3>1, <3>2, <3>4, <3>5 DEF SwitchInv
  <2>14. CASE switching = <<"delete">>
    <3>1. switching' = << >> /\ step = "delete"
      BY <2>1, <2>14
    <3>2. autoSync /\ "create" \in hooks /\ "update" \in hooks
      BY <2>14 DEF SwitchInv
    <3>3. autoSync'
      BY <2>2, <3>1, <3>2
    <3>4. hooks' = {"create", "update", "delete"}
      BY <2>3, <3>1, <3>2 DEF TypeOK
    <3> QED BY <3>1, <3>3, <3>4 DEF SwitchInv
  <2> QED BY <2>1, <2>5, <2>6, <2>7, <2>8, <2>9, <2>10, <2>11, <2>12, <2>13, <2>14 DEF SwitchInv
<1>5. ASSUME NEW s \in Sessions, Statement(s) PROVE UNCHANGED switch
  BY <1>5, StatementRuns DEF Run
<1>6. ASSUME NEW s \in Sessions,
             \/ \E u \in BOOLEAN : Load(s, u)
             \/ CallbackOff(s) \/ CallbackUnidentified(s)
             \/ CallbackPersists(s) \/ CallbackFails(s)
             \/ Commit(s) \/ Rollback(s)
      PROVE  UNCHANGED switch
  BY <1>6 DEF Load, CallbackOff, CallbackUnidentified, CallbackPersists, CallbackFails,
              Unchanged, Commit, Rollback, End
<1>7. ASSUME \/ \E action \in {"index", "update", "delete"}, u \in BOOLEAN :
                   RequestLoads(action, u)
             \/ RequestById \/ RequestEnqueued \/ Deliver
             \/ UNCHANGED vars
      PROVE  UNCHANGED switch
  BY <1>7 DEF RequestLoads, RequestById, RequestEnqueued, Deliver, vars
<1> QED BY <1>1, <1>2, <1>3, <1>4, <1>5, <1>6, <1>7 DEF Next, Statement

-----------------------------------------------------------------------------
(* The inductive invariant.                                                 *)

NoRows(s) == \A k \in DOMAIN outbox : outbox[k].by # s

\* What the event of the session's statement will do.
Fits(s, row) == Explains(stmt[s], row, work[s], model[s])

InStatement(s) == pc[s] = "hook" /\ stmt[s].matched

\* The events of an open transaction take the document of the committed row to
\* that of the row the session has written, up to the statement under way.
Accounted(s) ==
  \E row \in Mirrors :
    /\ Path(outbox, lastId, s, Expected(table), Expected(row))
    /\ InStatement(s) => Fits(s, row)
    /\ ~InStatement(s) => row = work[s]

SessionOK(s) ==
  /\ pc[s] = "idle" => ~held[s] /\ cause[s] = {}
  /\ pc[s] = "hook" => /\ stmt[s].matched => held[s]
                       /\ stmt[s].wanted => stmt[s].hooked
  /\ ~held[s] /\ cause[s] = {} => NoRows(s)
  /\ held[s] /\ cause[s] = {} => Accounted(s)

Exclusive == \A s, t \in Sessions : held[s] /\ held[t] => s = t

\* The committed events take the index to what it should be.
Converging == excused = {} => Path(outbox, lastId, Committed, mirror, Expected(table))

\* They come before those of any transaction that has nothing to answer for.
InOrder == excused = {} =>
  \A s \in Sessions : cause[s] = {} =>
    \A j, k \in DOMAIN outbox : outbox[j].by = s /\ outbox[k].by = Committed => k < j

RequestOK == request.action \in {"index", "update"} => request.doc \in Docs

DriftInv == /\ TypeOK /\ SwitchInv /\ RequestOK /\ Exclusive
            /\ \A s \in Sessions : SessionOK(s)
            /\ Converging /\ InOrder

-----------------------------------------------------------------------------
(* What leaves a session, the index and the order of events alone.          *)

(* The rows have events.                                                    *)
LEMMA LogFacts == TypeOK => LogOK(outbox, lastId)
BY DEF TypeOK, LogOK

\* A step elsewhere.
SameSession(s) ==
  /\ pc'[s] = pc[s] /\ held'[s] = held[s] /\ cause'[s] = cause[s]
  /\ stmt'[s] = stmt[s] /\ work'[s] = work[s] /\ entry' = entry
  /\ pc[s] = "hook" => model'[s] = model[s]
  /\ held[s] => table' = table

SameRows(who) ==
  /\ lastId <= lastId'
  /\ \A k \in Nat : RowOf(outbox', who, k) <=> RowOf(outbox, who, k)
  /\ \A k \in Nat : RowOf(outbox, who, k) => outbox'[k].event = outbox[k].event

(* The document of a row depends on the registration only.                  *)
LEMMA ExpectedKept ==
  ASSUME UNCHANGED entry
  PROVE  /\ \A row : Expected(row)' = Expected(row)
         /\ table' = table => Expected(table)' = Expected(table)
BY DEF Expected, Matches, SoftDelete

(* So does the event of a statement.                                        *)
LEMMA FitsKept ==
  ASSUME NEW s, UNCHANGED entry, stmt'[s] = stmt[s], work'[s] = work[s], model'[s] = model[s],
         NEW row, Fits(s, row)
  PROVE  Fits(s, row)'
BY DEF Fits, Explains, Right, Expected, Matches, SoftDelete, EventOf, AfterCreate, AfterUpdate,
       AfterDelete

(* A document is expected for every row.                                    *)
LEMMA ExpectedType == \A row \in Mirrors : Expected(row) \in Mirrors
BY DEF Expected, Mirrors

(* A step elsewhere leaves a session as it is.                              *)
LEMMA SessionFrame ==
  ASSUME TypeOK, TypeOK', NEW s \in Sessions, SessionOK(s), SameSession(s), SameRows(s)
  PROVE  SessionOK(s)'
<1>1. LogOK(outbox, lastId) /\ LogOK(outbox', lastId')
  BY LogFacts DEF TypeOK, LogOK
<1>2. NoRows(s) => NoRows(s)'
  <2>1. DOMAIN outbox' \subseteq Nat
    BY <1>1 DEF LogOK
  <2> QED BY <2>1 DEF NoRows, SameRows, RowOf
<1>3. ASSUME held[s], cause[s] = {} PROVE Accounted(s)'
  <2>1. PICK row \in Mirrors :
          /\ Path(outbox, lastId, s, Expected(table), Expected(row))
          /\ InStatement(s) => Fits(s, row)
          /\ ~InStatement(s) => row = work[s]
    BY <1>3 DEF SessionOK, Accounted
  <2>2. Path(outbox', lastId', s, Expected(table), Expected(row))
    BY <1>1, <2>1, PathSame DEF SameRows
  <2>3. Expected(table)' = Expected(table) /\ Expected(row)' = Expected(row)
    BY <1>3, ExpectedKept DEF SameSession
  <2>4. InStatement(s)' <=> InStatement(s)
    BY DEF InStatement, SameSession
  <2>5. InStatement(s) => Fits(s, row)'
    BY <2>1, FitsKept DEF InStatement, SameSession
  <2>6. ~InStatement(s) => row = work'[s]
    BY <2>1 DEF SameSession
  <2> QED BY <2>2, <2>3, <2>4, <2>5, <2>6 DEF Accounted
<1> QED BY <1>2, <1>3 DEF SessionOK, SameSession

(* The outbox as it was.                                                    *)
LEMMA QuietRows ==
  ASSUME TypeOK, UNCHANGED log
  PROVE  \A who : SameRows(who)
BY DEF SameRows, log, TypeOK

(* Steps that change neither events nor the index leave both in order.      *)
LEMMA ConvergingFrame ==
  ASSUME TypeOK, TypeOK', Converging, UNCHANGED <<entry, table, mirror>>, SameRows(Committed),
         excused' = {} => excused = {}
  PROVE  Converging'
<1>1. LogOK(outbox, lastId) /\ LogOK(outbox', lastId')
  BY LogFacts DEF TypeOK, LogOK
<1>2. ASSUME excused = {} PROVE Path(outbox', lastId', Committed, mirror, Expected(table))
  BY <1>1, <1>2, PathSame DEF Converging, SameRows
<1>3. Expected(table)' = Expected(table)
  BY ExpectedKept
<1> QED BY <1>2, <1>3 DEF Converging

(* Rows that stay with their transactions keep their order.                 *)
LEMMA InOrderFrame ==
  ASSUME InOrder, excused' = {} => excused = {},
         \A s \in Sessions : cause'[s] = {} => cause[s] = {} \/ NoRows(s)',
         \A k \in DOMAIN outbox' : k \in DOMAIN outbox /\ outbox'[k].by = outbox[k].by
  PROVE  InOrder'
BY DEF InOrder, NoRows

-----------------------------------------------------------------------------
(* The steps of a session.                                                  *)

(* A statement: the row it leaves and the event it will send belong         *)
(* together, and no other transaction has written the row.                  *)
LEMMA DriftByRun ==
  ASSUME DriftInv, TypeOK', NEW s \in Sessions, Statement(s)
  PROVE  DriftInv'
<1>0. TypeOK /\ Exclusive /\ SwitchInv /\ RequestOK /\ Converging /\ InOrder
      /\ \A t \in Sessions : SessionOK(t)
  BY DEF DriftInv
<1>1. PICK st \in Statements, row \in Docs \cup {Absent}, m \in Docs :
        Run(s, st, row, m) /\ Explains(st, View(s), row, m)
  BY <1>0, StatementRuns
<1>2. /\ UNCHANGED <<entry, switch, table, log, mirror, request, cause, excused>>
      /\ pc[s] \in {"idle", "open"} /\ Free(s)
      /\ pc' = [pc EXCEPT ![s] = "hook"]
      /\ stmt' = [stmt EXCEPT ![s] = [st EXCEPT !.hooked = st.hook \in hooks, !.wanted = wanted]]
      /\ held' = [held EXCEPT ![s] = held[s] \/ st.matched]
      /\ work' = [work EXCEPT ![s] = IF st.matched THEN row ELSE work[s]]
      /\ model' = [model EXCEPT ![s] = m]
  BY <1>1 DEF Run, Transaction, Goto
<1>3. \A who : SameRows(who)
  BY <1>0, <1>2, QuietRows
<1>4. /\ pc'[s] = "hook" /\ (held'[s] <=> held[s] \/ st.matched) /\ cause'[s] = cause[s]
      /\ work'[s] = IF st.matched THEN row ELSE work[s]
      /\ model'[s] = m
  BY <1>0, <1>2 DEF TypeOK
<1>5. stmt'[s] = [st EXCEPT !.hooked = st.hook \in hooks, !.wanted = wanted]
  BY <1>0, <1>2 DEF TypeOK
<1>6. /\ stmt'[s].hook = st.hook /\ stmt'[s].changed = st.changed
      /\ stmt'[s].unscoped = st.unscoped /\ stmt'[s].identified = st.identified
      /\ stmt'[s].matched = st.matched
  BY <1>5 DEF Statements
<1>7. stmt'[s].wanted => stmt'[s].hooked
  <2>1. (stmt'[s].wanted <=> wanted) /\ (stmt'[s].hooked <=> st.hook \in hooks)
    BY <1>5 DEF Statements
  <2>2. st.hook \in {"create", "update", "delete"}
    BY DEF Statements
  <2> QED BY <1>0, <2>1, <2>2 DEF SwitchInv
<1>8. PICK old \in Mirrors : old = View(s)
  BY <1>0 DEF View, TypeOK, Mirrors
<1>9. st.matched => Fits(s, old)'
  <2> SUFFICES ASSUME st.matched PROVE Fits(s, old)'
    OBVIOUS
  <2> DEFINE e == EventOf(st, m)
  <2>1. EventOf(stmt[s], model[s])' = e
    <3>1. entry' = entry /\ st.hook \in {"create", "update", "delete"}
      BY <1>2 DEF Statements
    <3>2. AfterUpdate(stmt[s], model[s])' = AfterUpdate(st, m)
      BY <1>4, <1>6, <3>1 DEF AfterUpdate
    <3>3. AfterDelete(stmt[s])' = AfterDelete(st)
      BY <1>6, <3>1 DEF AfterDelete, SoftDelete
    <3>4. AfterCreate(model[s])' = AfterCreate(m)
      BY <1>4 DEF AfterCreate
    <3> QED BY <1>6, <3>1, <3>2, <3>3, <3>4 DEF EventOf
  <2> HIDE DEF e
  <2>2. work'[s] = row
    BY <1>4
  <2>3. Expected(old)' = Expected(old) /\ Expected(row)' = Expected(row)
    BY <1>2, ExpectedKept
  <2>4. st.identified /\ Right(st, e, row) => Applied(Expected(old), e) = Expected(row)
    BY <1>1, <1>8 DEF Explains, e
  <2>5. Right(stmt[s], EventOf(stmt[s], model[s]), work[s])' => Right(st, e, row)
    BY <1>2, <1>6, <2>1, <2>2 DEF Right
  <2> QED BY <1>6, <2>1, <2>2, <2>3, <2>4, <2>5 DEF Fits, Explains
<1>10. ASSUME held'[s], cause'[s] = {} PROVE Accounted(s)'
  <2>1. Path(outbox, lastId, s, Expected(table), Expected(old))
    <3>1. CASE held[s]
      <4>1. PICK r \in Mirrors :
              /\ Path(outbox, lastId, s, Expected(table), Expected(r))
              /\ ~InStatement(s) => r = work[s]
        BY <1>0, <1>4, <1>10, <3>1 DEF SessionOK, Accounted
      <4>2. ~InStatement(s)
        BY <1>2 DEF InStatement
      <4> QED BY <1>8, <3>1, <4>1, <4>2 DEF View
    <3>2. CASE ~held[s]
      <4>1. NoRows(s) /\ old = table
        BY <1>0, <1>4, <1>8, <1>10, <3>2 DEF SessionOK, View
      <4>2. Expected(table) \in Mirrors
        BY <1>8, <4>1, ExpectedType
      <4> QED BY <1>0, <4>1, <4>2, PathEmpty, LogFacts DEF NoRows
    <3> QED BY <3>1, <3>2
  <2>2. Path(outbox', lastId', s, Expected(table)', Expected(old)')
    BY <1>2, <2>1, ExpectedKept DEF log
  <2>3. CASE st.matched
    <3>1. InStatement(s)'
      BY <1>4, <1>6, <2>3 DEF InStatement
    <3> QED BY <1>9, <2>2, <2>3, <3>1 DEF Accounted
  <2>4. CASE ~st.matched
    <3>1. ~InStatement(s)'
      BY <1>6, <2>4 DEF InStatement
    <3>2. work'[s] = old
      BY <1>4, <1>8, <1>10, <2>4 DEF View
    <3> QED BY <2>2, <3>1, <3>2 DEF Accounted
  <2> QED BY <2>3, <2>4
<1>11. SessionOK(s)'
  <2>1. ~held'[s] /\ cause'[s] = {} => NoRows(s)'
    BY <1>0, <1>2, <1>4 DEF SessionOK, NoRows, log
  <2>2. stmt'[s].matched => held'[s]
    BY <1>4, <1>6
  <2> QED BY <1>4, <1>7, <1>10, <2>1, <2>2 DEF SessionOK
<1>12. ASSUME NEW t \in Sessions, t # s PROVE SessionOK(t)'
  <2>1. SameSession(t)
    BY <1>0, <1>2, <1>12 DEF SameSession, TypeOK
  <2> QED BY <1>0, <1>3, <2>1, SessionFrame
<1>13. Exclusive'
  <2>1. ASSUME NEW t \in Sessions, NEW u \in Sessions, held'[t], held'[u] PROVE t = u
    <3>1. \A v \in Sessions \ {s} : held'[v] = held[v] /\ ~held[v]
      BY <1>0, <1>2 DEF Free, TypeOK
    <3> QED BY <2>1, <3>1
  <2> QED BY <2>1 DEF Exclusive
<1>14. Converging'
  BY <1>0, <1>2, <1>3, ConvergingFrame
<1>15. InOrder'
  BY <1>0, <1>2, InOrderFrame DEF log
<1>16. SwitchInv' /\ RequestOK'
  BY <1>0, <1>2 DEF SwitchInv, RequestOK, switch
<1> QED BY <1>11, <1>12, <1>13, <1>14, <1>15, <1>16 DEF DriftInv

(* Queries of the application, switches and operators' loads change neither *)
(* the events nor what they are about.                                      *)
LEMMA DriftByQuiet ==
  ASSUME DriftInv, TypeOK', SwitchInv', RequestOK',
         UNCHANGED <<entry, table, log, mirror, tx, stmt, cause, excused>>,
         \A s \in Sessions : pc[s] = "hook" => model'[s] = model[s]
  PROVE  DriftInv'
<1>1. TypeOK /\ Exclusive /\ Converging /\ InOrder /\ \A s \in Sessions : SessionOK(s)
  BY DEF DriftInv
<1>2. \A who : SameRows(who)
  BY <1>1, QuietRows
<1>3. ASSUME NEW s \in Sessions PROVE SessionOK(s)'
  <2>1. SameSession(s)
    BY DEF SameSession, tx
  <2> QED BY <1>1, <1>2, <2>1, SessionFrame
<1>4. Exclusive'
  BY <1>1 DEF Exclusive, tx
<1>5. Converging'
  BY <1>1, <1>2, ConvergingFrame
<1>6. InOrder'
  BY <1>1, InOrderFrame DEF log
<1> QED BY <1>3, <1>4, <1>5, <1>6 DEF DriftInv

(* A callback that writes no event leaves a reason behind, unless its       *)
(* statement changed nothing (callback.go:74-81, failures.go:132-152).      *)
LEMMA DriftBySilence ==
  ASSUME DriftInv, TypeOK', NEW s \in Sessions,
         CallbackOff(s) \/ CallbackUnidentified(s) \/ CallbackFails(s)
  PROVE  DriftInv'
<1>0. TypeOK /\ Exclusive /\ SwitchInv /\ RequestOK /\ Converging /\ InOrder
      /\ \A t \in Sessions : SessionOK(t)
  BY DEF DriftInv
<1>1. /\ UNCHANGED <<entry, switch, table, log, mirror, held, work, model, request, excused>>
      /\ pc[s] = "hook"
  BY DEF CallbackOff, CallbackUnidentified, CallbackFails, Unchanged
<1>2. PICK l \in {"commit", "rollback"} : AfterCallback(s, l)
  BY DEF CallbackOff, CallbackUnidentified, CallbackFails
<1>3. pc'[s] \in {"open", "commit", "rollback"}
      /\ \A t \in Sessions \ {s} : pc'[t] = pc[t] /\ stmt'[t] = stmt[t]
  BY <1>0, <1>2 DEF AfterCallback, Goto, TypeOK
<1>4. PICK x : Blame(s, x) /\ (x = {} => ~stmt[s].matched)
  <2>1. CASE CallbackOff(s)
    <3> DEFINE x == IF stmt[s].matched /\ ~(stmt[s].wanted /\ wanted) THEN {"disabled"} ELSE {}
    <3>1. Blame(s, x) /\ ~(stmt[s].hooked /\ autoSync)
      BY <2>1 DEF CallbackOff
    <3>2. ~(stmt[s].wanted /\ wanted)
      BY <1>0, <1>1, <3>1 DEF SessionOK, SwitchInv
    <3>3. x = {} => ~stmt[s].matched
      BY <3>2
    <3> QED BY <3>1, <3>3
  <2>2. CASE CallbackUnidentified(s) \/ CallbackFails(s)
    <3>1. Blame(s, {"reported"})
      BY <2>2 DEF CallbackUnidentified, CallbackFails
    <3>2. {"reported"} # {}
      OBVIOUS
    <3> QED BY <3>1, <3>2
  <2> QED BY <2>1, <2>2
<1>5. cause'[s] = cause[s] \cup x /\ \A t \in Sessions \ {s} : cause'[t] = cause[t]
  BY <1>0, <1>4 DEF Blame, TypeOK
<1>6. \A who : SameRows(who)
  BY <1>0, <1>1, QuietRows
<1>7. ASSUME held[s], cause'[s] = {} PROVE Accounted(s)'
  <2>1. ~InStatement(s) /\ cause[s] = {}
    BY <1>4, <1>5, <1>7 DEF InStatement
  <2>2. Path(outbox, lastId, s, Expected(table), Expected(work[s])) /\ work[s] \in Mirrors
    BY <1>0, <1>7, <2>1 DEF SessionOK, Accounted
  <2>3. Path(outbox', lastId', s, Expected(table), Expected(work[s]))
    BY <1>1, <2>2 DEF log
  <2>4. PICK row \in Mirrors : row = work[s]
    BY <2>2
  <2>5. Expected(table)' = Expected(table) /\ Expected(row)' = Expected(row) /\ work'[s] = row
    BY <1>1, <2>4, ExpectedKept
  <2>6. ~InStatement(s)'
    BY <1>3 DEF InStatement
  <2> QED BY <2>3, <2>4, <2>5, <2>6 DEF Accounted
<1>8. SessionOK(s)'
  <2>1. ~held'[s] /\ cause'[s] = {} => NoRows(s)'
    BY <1>0, <1>1, <1>5 DEF SessionOK, NoRows, log
  <2> QED BY <1>1, <1>3, <1>7, <2>1 DEF SessionOK
<1>9. ASSUME NEW t \in Sessions, t # s PROVE SessionOK(t)'
  <2>1. SameSession(t)
    BY <1>1, <1>3, <1>5, <1>9 DEF SameSession
  <2> QED BY <1>0, <1>6, <2>1, SessionFrame
<1>10. Exclusive' /\ SwitchInv' /\ RequestOK'
  BY <1>0, <1>1 DEF Exclusive, SwitchInv, RequestOK, switch
<1>11. Converging'
  BY <1>0, <1>1, <1>6, ConvergingFrame
<1>12. \A t \in Sessions : cause'[t] = {} => cause[t] = {}
  BY <1>5
<1>13. InOrder'
  BY <1>0, <1>1, <1>12, InOrderFrame DEF log
<1> QED BY <1>8, <1>9, <1>10, <1>11, <1>13 DEF DriftInv

(* An inserted row is a new one, of its inserter.                           *)
LEMMA InsertedRows ==
  ASSUME TypeOK, NEW row, Inserted(row)
  PROVE  /\ lastId' = lastId + 1 /\ lastId' \in DOMAIN outbox' /\ outbox'[lastId'] = row
         /\ DOMAIN outbox' = DOMAIN outbox \cup {lastId'}
         /\ \A k \in DOMAIN outbox : outbox'[k] = outbox[k] /\ k < lastId'
         /\ \A who : who # row.by => SameRows(who)
<1>1. lastId \in Nat /\ DOMAIN outbox \subseteq 1..lastId /\ DOMAIN outbox \subseteq Nat
  BY DEF TypeOK
<1>2. lastId' = lastId + 1
  BY DEF Inserted
<1>3. /\ DOMAIN outbox' = DOMAIN outbox \cup {lastId'} /\ outbox'[lastId'] = row
      /\ \A k \in DOMAIN outbox : k < lastId' /\ k # lastId'
  BY <1>1, <1>2 DEF Inserted
<1>4. \A k \in DOMAIN outbox : outbox'[k] = outbox[k]
  BY <1>2, <1>3 DEF Inserted
<1>5. lastId \in Nat /\ lastId <= lastId'
  BY <1>1, <1>2
<1>6. ASSUME NEW who, who # row.by PROVE SameRows(who)
  <2>1. \A k \in Nat : RowOf(outbox', who, k) <=> RowOf(outbox, who, k)
    BY <1>3, <1>4, <1>6 DEF RowOf
  <2>2. \A k \in Nat : RowOf(outbox, who, k) => outbox'[k].event = outbox[k].event
    BY <1>4 DEF RowOf
  <2> QED BY <1>5, <2>1, <2>2 DEF SameRows
<1> QED BY <1>2, <1>3, <1>4, <1>6

(* A callback's event joins the transaction: it accounts for the statement  *)
(* or says what is wrong with it (callback.go:74-212, autosync_tx.go:29-82). *)
LEMMA DriftByEvent ==
  ASSUME DriftInv, TypeOK', NEW s \in Sessions, CallbackPersists(s)
  PROVE  DriftInv'
<1>0. TypeOK /\ Exclusive /\ SwitchInv /\ RequestOK /\ Converging /\ InOrder
      /\ \A t \in Sessions : SessionOK(t)
  BY DEF DriftInv
<1> DEFINE e == EventOf(stmt[s], model[s])
<1>1. /\ UNCHANGED <<entry, switch, table, mirror, held, work, model, request, excused>>
      /\ pc[s] = "hook" /\ stmt[s].identified /\ AfterCallback(s, "commit")
      /\ Inserted([by |-> s, event |-> e]) /\ Blame(s, Flaws(s, stmt[s], e))
  BY DEF CallbackPersists, Unchanged, Persist
<1>2. e \in Events
  BY <1>0, EventOfType DEF TypeOK
<1> HIDE DEF e
<1>3. pc'[s] \in {"open", "commit"}
      /\ \A t \in Sessions \ {s} : pc'[t] = pc[t] /\ stmt'[t] = stmt[t]
  BY <1>0, <1>1 DEF AfterCallback, Goto, TypeOK
<1>4. cause'[s] = cause[s] \cup Flaws(s, stmt[s], e)
      /\ \A t \in Sessions \ {s} : cause'[t] = cause[t]
  BY <1>0, <1>1 DEF Blame, TypeOK
<1> DEFINE new == [by |-> s, event |-> e]
<1>5. /\ lastId' = lastId + 1 /\ outbox'[lastId'] = new
      /\ DOMAIN outbox' = DOMAIN outbox \cup {lastId'}
      /\ \A k \in DOMAIN outbox : outbox'[k] = outbox[k] /\ k < lastId'
      /\ \A who : who # new.by => SameRows(who)
  BY <1>0, <1>1, InsertedRows
<1>6. new.by = s /\ new.event = e
  OBVIOUS
<1> HIDE DEF new
<1>7. s # Committed
  BY AutoSyncAssumption
<1>8. cause'[s] = {} => cause[s] = {} /\ Right(stmt[s], e, work[s]) /\ stmt[s].matched
  BY <1>0, <1>2, <1>4, FlawlessRight DEF Right
<1>9. ASSUME held[s], cause'[s] = {} PROVE Accounted(s)'
  <2>1. InStatement(s)
    BY <1>1, <1>8, <1>9 DEF InStatement
  <2>2. PICK row \in Mirrors :
          Path(outbox, lastId, s, Expected(table), Expected(row)) /\ Fits(s, row)
    BY <1>0, <1>8, <1>9, <2>1 DEF SessionOK, Accounted
  <2>3. Applied(Expected(row), e) = Expected(work[s])
    BY <1>1, <1>8, <1>9, <2>2 DEF Fits, Explains, e
  <2>4. Expected(row) \in Mirrors
    BY ExpectedType
  <2>5. outbox' = [k \in DOMAIN outbox \cup {lastId + 1} |-> IF k = lastId + 1 THEN new ELSE outbox[k]]
    BY <1>1 DEF Inserted, new
  <2>6. Path(outbox', lastId', s, Expected(table), Expected(work[s]))
    BY <1>0, <1>2, <1>5, <1>6, <2>2, <2>3, <2>4, <2>5, PathAppend, LogFacts
  <2>7. PICK r \in Mirrors : r = work[s]
    BY <1>0 DEF TypeOK, Mirrors
  <2>8. Expected(table)' = Expected(table) /\ Expected(r)' = Expected(r) /\ work'[s] = r
    BY <1>1, <2>7, ExpectedKept
  <2>9. ~InStatement(s)'
    BY <1>3 DEF InStatement
  <2> QED BY <2>6, <2>7, <2>8, <2>9 DEF Accounted
<1>10. SessionOK(s)'
  <2>1. cause'[s] = {} => held'[s]
    BY <1>0, <1>1, <1>8 DEF SessionOK
  <2> QED BY <1>1, <1>3, <1>9, <2>1 DEF SessionOK
<1>11. ASSUME NEW t \in Sessions, t # s PROVE SessionOK(t)'
  <2>1. SameSession(t)
    BY <1>1, <1>3, <1>4, <1>11 DEF SameSession
  <2> QED BY <1>0, <1>5, <1>6, <1>11, <2>1, SessionFrame
<1>12. Exclusive' /\ SwitchInv' /\ RequestOK'
  BY <1>0, <1>1 DEF Exclusive, SwitchInv, RequestOK, switch
<1>13. Converging'
  BY <1>0, <1>1, <1>5, <1>6, <1>7, ConvergingFrame
<1>14. InOrder'
  <2> SUFFICES ASSUME excused = {}, NEW t \in Sessions, cause'[t] = {},
                      NEW j \in DOMAIN outbox', NEW k \in DOMAIN outbox',
                      outbox'[j].by = t, outbox'[k].by = Committed
               PROVE  k < j
    BY <1>1 DEF InOrder
  <2>1. k \in DOMAIN outbox /\ outbox[k].by = Committed
    BY <1>5, <1>6, <1>7
  <2>2. CASE j = lastId'
    BY <1>5, <2>1, <2>2
  <2>3. CASE j # lastId'
    <3>1. cause[t] = {} /\ j \in DOMAIN outbox /\ outbox[j].by = t
      BY <1>4, <1>5, <1>8, <2>3
    <3> QED BY <1>0, <2>1, <3>1 DEF InOrder
  <2> QED BY <2>2, <2>3
<1> QED BY <1>10, <1>11, <1>12, <1>13, <1>14 DEF DriftInv

-----------------------------------------------------------------------------
(* The end of a transaction.                                                *)

(* The end of a session's transaction leaves the transactions of the others *)
(* alone, and itself with nothing to answer for.                            *)
LEMMA EndFacts ==
  ASSUME TypeOK, NEW s \in Sessions, End(s)
  PROVE  /\ pc'[s] = "idle" /\ ~held'[s] /\ cause'[s] = {}
         /\ \A t \in Sessions \ {s} : pc'[t] = pc[t] /\ held'[t] = held[t] /\ cause'[t] = cause[t]
                                      /\ work'[t] = work[t]
         /\ UNCHANGED <<entry, switch, mirror, model, stmt, request>>
BY DEF End, Goto, TypeOK

(* A commit: the session's events follow the committed ones and take the    *)
(* index to what the row has become (autosync_tx.go:29-82).                 *)
LEMMA DriftByCommit ==
  ASSUME DriftInv, TypeOK', NEW s \in Sessions, Commit(s)
  PROVE  DriftInv'
<1>0. TypeOK /\ Exclusive /\ SwitchInv /\ RequestOK /\ Converging /\ InOrder
      /\ \A t \in Sessions : SessionOK(t)
  BY DEF DriftInv
<1>1. /\ pc[s] \in {"open", "commit"} /\ table' = View(s) /\ End(s)
      /\ excused' = excused \cup cause[s] /\ lastId' = lastId
      /\ DOMAIN outbox' = DOMAIN outbox
      /\ \A k \in DOMAIN outbox : outbox'[k] = IF outbox[k].by = s
                                               THEN [outbox[k] EXCEPT !.by = Committed]
                                               ELSE outbox[k]
  BY DEF Commit
<1>2. /\ pc'[s] = "idle" /\ ~held'[s] /\ cause'[s] = {}
      /\ \A t \in Sessions \ {s} : pc'[t] = pc[t] /\ held'[t] = held[t] /\ cause'[t] = cause[t]
                                   /\ work'[t] = work[t]
      /\ UNCHANGED <<entry, switch, mirror, model, stmt, request>>
  BY <1>0, <1>1, EndFacts
<1>3. s # Committed /\ lastId \in Nat /\ DOMAIN outbox \subseteq Nat
  BY <1>0, AutoSyncAssumption DEF TypeOK
<1>4. ASSUME NEW k \in DOMAIN outbox
      PROVE  /\ outbox'[k].event = outbox[k].event
             /\ outbox'[k].by = IF outbox[k].by = s THEN Committed ELSE outbox[k].by
  <2>1. outbox[k] \in OutboxRows
    BY <1>0 DEF TypeOK, OutboxRows
  <2> QED BY <1>1, <2>1 DEF OutboxRows
<1>5. NoRows(s)'
  BY <1>1, <1>3, <1>4 DEF NoRows
<1>6. ASSUME NEW t, t # s, t # Committed PROVE SameRows(t)
  <2>1. \A k \in Nat : RowOf(outbox', t, k) <=> RowOf(outbox, t, k)
    BY <1>1, <1>4, <1>6 DEF RowOf
  <2>2. \A k \in Nat : RowOf(outbox, t, k) => outbox'[k].event = outbox[k].event
    BY <1>4 DEF RowOf
  <2> QED BY <1>1, <1>3, <2>1, <2>2 DEF SameRows
<1>7. ASSUME NEW t \in Sessions, t # s PROVE SessionOK(t)'
  <2>1. held[t] => ~held[s]
    BY <1>0, <1>7 DEF Exclusive
  <2>2. held[t] => table' = table
    BY <1>1, <2>1 DEF View
  <2>3. SameSession(t)
    BY <1>2, <1>7, <2>2 DEF SameSession
  <2>4. t # Committed
    BY AutoSyncAssumption
  <2> QED BY <1>0, <1>6, <1>7, <2>3, <2>4, SessionFrame
<1>8. SessionOK(s)'
  BY <1>2, <1>5 DEF SessionOK
<1>9. Exclusive'
  BY <1>0, <1>2 DEF Exclusive
<1>10. Converging'
  <2> SUFFICES ASSUME excused' = {}
               PROVE  Path(outbox, lastId, Committed, mirror, Expected(table))'
    BY DEF Converging
  <2>1. excused = {} /\ cause[s] = {}
    BY <1>1
  <2>2. Path(outbox, lastId, Committed, mirror, Expected(table))
    BY <1>0, <2>1 DEF Converging
  <2>3. PICK row \in Mirrors : row = View(s)
    BY <1>0 DEF View, TypeOK, Mirrors
  <2>4. Expected(table)' = Expected(row)
    <3>1. Expected(row)' = Expected(row) /\ table' = row
      BY <1>1, <1>2, <2>3, ExpectedKept
    <3> QED BY <3>1 DEF Expected, Matches, SoftDelete
  <2>5. LogOK(outbox, lastId) /\ LogOK(outbox', lastId')
    BY <1>0, LogFacts DEF TypeOK, LogOK
  <2>6. Path(outbox', lastId', Committed, mirror, Expected(row))
    <3>1. CASE held[s]
      <4>1. Path(outbox, lastId, s, Expected(table), Expected(row))
        <5>1. ~InStatement(s)
          BY <1>1 DEF InStatement
        <5> QED BY <1>0, <2>1, <2>3, <3>1, <5>1 DEF SessionOK, Accounted, View
      <4>2. \A j, k \in DOMAIN outbox : outbox[j].by = s /\ outbox[k].by = Committed => k < j
        BY <1>0, <2>1 DEF InOrder
      <4>3. \A k \in DOMAIN outbox : outbox'[k].by = Committed <=> outbox[k].by \in {Committed, s}
        BY <1>4
      <4>4. \A k \in DOMAIN outbox : outbox'[k].event = outbox[k].event
        BY <1>4
      <4> QED BY <1>1, <2>2, <2>5, <4>1, <4>2, <4>3, <4>4, PathJoin
    <3>2. CASE ~held[s]
      <4>1. NoRows(s) /\ row = table
        BY <1>0, <2>1, <2>3, <3>2 DEF SessionOK, View
      <4>2. \A k \in Nat : RowOf(outbox', Committed, k) <=> RowOf(outbox, Committed, k)
        BY <1>1, <1>4, <4>1 DEF RowOf, NoRows
      <4>3. \A k \in Nat : RowOf(outbox, Committed, k) => outbox'[k].event = outbox[k].event
        BY <1>4 DEF RowOf
      <4>4. lastId <= lastId'
        BY <1>1, <1>3
      <4> QED BY <2>2, <2>5, <4>1, <4>2, <4>3, <4>4, PathSame
    <3> QED BY <3>1, <3>2
  <2> QED BY <1>2, <2>4, <2>6
<1>11. InOrder'
  <2> SUFFICES ASSUME excused' = {}, NEW t \in Sessions, cause'[t] = {},
                      NEW j \in DOMAIN outbox', NEW k \in DOMAIN outbox',
                      outbox'[j].by = t, outbox'[k].by = Committed
               PROVE  k < j
    BY DEF InOrder
  <2>1. excused = {} /\ cause[s] = {}
    BY <1>1
  <2>2. t # Committed /\ t # s
    BY <1>5, AutoSyncAssumption DEF NoRows
  <2>3. outbox[j].by = t /\ cause[t] = {}
    BY <1>1, <1>2, <1>4, <2>2
  <2>4. held[t]
    BY <1>0, <1>1, <2>3 DEF SessionOK, NoRows
  <2>5. ~held[s]
    BY <1>0, <2>2, <2>4 DEF Exclusive
  <2>6. NoRows(s)
    BY <1>0, <2>1, <2>5 DEF SessionOK
  <2>7. outbox[k].by = Committed
    BY <1>1, <1>4, <2>6 DEF NoRows
  <2> QED BY <1>0, <1>1, <2>1, <2>3, <2>7 DEF InOrder
<1>12. SwitchInv' /\ RequestOK'
  BY <1>0, <1>2 DEF SwitchInv, RequestOK, switch
<1> QED BY <1>7, <1>8, <1>9, <1>10, <1>11, <1>12 DEF DriftInv

(* The rows that stay when some leave the outbox.                           *)
LEMMA RemainingRows ==
  ASSUME TypeOK, NEW ids, outbox' = Without(ids), UNCHANGED lastId
  PROVE  /\ DOMAIN outbox' = DOMAIN outbox \ ids
         /\ \A k \in DOMAIN outbox' : outbox'[k] = outbox[k]
         /\ \A who : (\A k \in ids \cap DOMAIN outbox : outbox[k].by # who) => SameRows(who)
<1>1. /\ DOMAIN outbox' = DOMAIN outbox \ ids
      /\ \A k \in DOMAIN outbox' : outbox'[k] = outbox[k]
  BY DEF Without
<1>2. lastId \in Nat /\ lastId <= lastId'
  BY DEF TypeOK
<1>3. ASSUME NEW who, \A k \in ids \cap DOMAIN outbox : outbox[k].by # who PROVE SameRows(who)
  <2>1. \A k \in Nat : RowOf(outbox', who, k) <=> RowOf(outbox, who, k)
    BY <1>1, <1>3 DEF RowOf
  <2>2. \A k \in Nat : RowOf(outbox, who, k) => outbox'[k].event = outbox[k].event
    BY <1>1, <1>3 DEF RowOf
  <2> QED BY <1>2, <2>1, <2>2 DEF SameRows
<1> QED BY <1>1, <1>3

(* A rollback takes the session's events with it, and its change.           *)
LEMMA DriftByRollback ==
  ASSUME DriftInv, TypeOK', NEW s \in Sessions, Rollback(s)
  PROVE  DriftInv'
<1>0. TypeOK /\ Exclusive /\ SwitchInv /\ RequestOK /\ Converging /\ InOrder
      /\ \A t \in Sessions : SessionOK(t)
  BY DEF DriftInv
<1> DEFINE own == {k \in DOMAIN outbox : outbox[k].by = s}
<1>1. /\ UNCHANGED <<table, lastId, excused>> /\ End(s)
      /\ outbox' = Without(own)
  BY DEF Rollback
<1>2. /\ pc'[s] = "idle" /\ ~held'[s] /\ cause'[s] = {}
      /\ \A t \in Sessions \ {s} : pc'[t] = pc[t] /\ held'[t] = held[t] /\ cause'[t] = cause[t]
                                   /\ work'[t] = work[t]
      /\ UNCHANGED <<entry, switch, mirror, model, stmt, request>>
  BY <1>0, <1>1, EndFacts
<1>3. /\ DOMAIN outbox' = DOMAIN outbox \ own
      /\ \A k \in DOMAIN outbox' : outbox'[k] = outbox[k]
      /\ \A who : (\A k \in own \cap DOMAIN outbox : outbox[k].by # who) => SameRows(who)
  BY <1>0, <1>1, RemainingRows
<1>4. NoRows(s)' /\ \A who : who # s => SameRows(who)
  BY <1>3 DEF NoRows
<1>5. s # Committed
  BY AutoSyncAssumption
<1>6. ASSUME NEW t \in Sessions, t # s PROVE SessionOK(t)'
  <2>1. SameSession(t)
    BY <1>1, <1>2, <1>6 DEF SameSession
  <2> QED BY <1>0, <1>4, <1>6, <2>1, SessionFrame
<1>7. SessionOK(s)'
  BY <1>2, <1>4 DEF SessionOK
<1>8. Exclusive'
  BY <1>0, <1>2 DEF Exclusive
<1>9. Converging'
  BY <1>0, <1>1, <1>2, <1>4, <1>5, ConvergingFrame
<1>10. InOrder'
  <2>1. \A t \in Sessions : cause'[t] = {} => cause[t] = {} \/ NoRows(t)'
    BY <1>2, <1>4
  <2>2. \A k \in DOMAIN outbox' : k \in DOMAIN outbox /\ outbox'[k].by = outbox[k].by
    BY <1>3
  <2> QED BY <1>0, <1>1, <2>1, <2>2, InOrderFrame
<1>11. SwitchInv' /\ RequestOK'
  BY <1>0, <1>2 DEF SwitchInv, RequestOK, switch
<1> QED BY <1>6, <1>7, <1>8, <1>9, <1>10, <1>11 DEF DriftInv

-----------------------------------------------------------------------------
(* Operators' documents and the relay.                                      *)

(* An operator's document is the committed row, or is excused: the row has  *)
(* changed, is being changed, or its deletion is asked for                  *)
(* (doc_ops.go:31-175).                                                     *)
LEMMA DriftByEnqueue ==
  ASSUME DriftInv, TypeOK', RequestEnqueued
  PROVE  DriftInv'
<1>0. TypeOK /\ Exclusive /\ SwitchInv /\ RequestOK /\ Converging /\ InOrder
      /\ \A t \in Sessions : SessionOK(t)
  BY DEF DriftInv
<1>1. /\ request \in Events /\ request' = NoRequest
      /\ UNCHANGED <<entry, switch, table, mirror, tx, model, stmt, cause, used>>
  BY <1>0 DEF RequestEnqueued, TypeOK
<1>2. RequestOK' /\ SwitchInv'
  BY <1>0, <1>1 DEF RequestOK, NoRequest, Event, SwitchInv, switch
<1>3. CASE UNCHANGED <<log, excused>>
  BY <1>0, <1>1, <1>2, <1>3, DriftByQuiet
<1>4. CASE Persist(Committed, request) /\ excused' = excused \cup RequestFlaws
  <2> DEFINE new == [by |-> Committed, event |-> request]
  <2>1. /\ lastId' = lastId + 1 /\ outbox'[lastId'] = new
        /\ DOMAIN outbox' = DOMAIN outbox \cup {lastId'}
        /\ \A k \in DOMAIN outbox : outbox'[k] = outbox[k] /\ k < lastId'
        /\ \A who : who # new.by => SameRows(who)
    BY <1>0, <1>4, InsertedRows DEF Persist
  <2>2. new.by = Committed /\ new.event = request
    OBVIOUS
  <2>3. outbox' = [k \in DOMAIN outbox \cup {lastId + 1} |-> IF k = lastId + 1 THEN new ELSE outbox[k]]
    BY <1>4 DEF Persist, Inserted
  <2> HIDE DEF new
  <2>4. ASSUME NEW t \in Sessions PROVE SessionOK(t)'
    <3>1. SameSession(t)
      BY <1>1 DEF SameSession, tx
    <3>2. t # Committed
      BY AutoSyncAssumption
    <3> QED BY <1>0, <2>1, <2>2, <3>1, <3>2, SessionFrame
  <2>5. Exclusive'
    BY <1>0, <1>1 DEF Exclusive, tx
  <2>6. ASSUME excused' = {}
        PROVE  /\ excused = {} /\ table \in Docs /\ Expected(table) = table
               /\ request.doc = table /\ request.action \in {"index", "update"}
               /\ \A k \in DOMAIN outbox : outbox[k].by = Committed
    <3>1. excused = {} /\ RequestFlaws = {}
      BY <1>4, <2>6
    <3>2. request.action # "delete"
      BY <3>1 DEF RequestFlaws
    <3>3. request.action \in {"index", "update"} /\ request.doc \in Docs
      BY <1>0, <1>1, <3>2 DEF Events, RequestOK
    <3>4. request.doc = table /\ \A k \in DOMAIN outbox : outbox[k].by = Committed
      BY <3>1, <3>2 DEF RequestFlaws
    <3>5. entry.softDelete = "delete" => table[SoftColumn] # 1
      BY <3>1, <3>2, <3>4 DEF RequestFlaws
    <3>6. table # Absent /\ table[SoftColumn] \in {0, 1}
      BY <3>3, <3>4, AutoSyncAssumption DEF Docs
    <3>7. Expected(table) = table
      BY <3>5, <3>6 DEF Expected, Matches
    <3> QED BY <3>1, <3>3, <3>4, <3>7
  <2>7. Converging'
    <3> SUFFICES ASSUME excused' = {}
                 PROVE  Path(outbox, lastId, Committed, mirror, Expected(table))'
      BY DEF Converging
    <3>1. Path(outbox, lastId, Committed, mirror, table)
      BY <1>0, <2>6 DEF Converging
    <3>2. Applied(table, request) = table
      <4>1. Zero \in Docs
        BY DEF Zero, Docs
      <4>2. Merged(Zero, table) = table /\ Merged(table, table) = table
        BY <2>6, <4>1, MergedFacts
      <4>3. table # Absent
        BY <2>6, AutoSyncAssumption
      <4> QED BY <2>6, <4>2, <4>3 DEF Applied
    <3>3. table \in Mirrors
      BY <2>6 DEF Mirrors
    <3>4. Path(outbox', lastId', Committed, mirror, table)
      <4>1. LogOK(outbox, lastId)
        BY <1>0, LogFacts
      <4>2. Path([k \in DOMAIN outbox \cup {lastId + 1} |-> IF k = lastId + 1 THEN new ELSE outbox[k]],
                 lastId + 1, Committed, mirror, Applied(table, new.event))
        BY <1>1, <2>2, <3>1, <3>3, <4>1, PathAppend
      <4> QED BY <2>1, <2>2, <2>3, <3>2, <4>2
    <3>5. Expected(table)' = table
      BY <1>1, <2>6, ExpectedKept
    <3> QED BY <1>1, <3>4, <3>5
  <2>8. InOrder'
    <3> SUFFICES ASSUME excused' = {}, NEW t \in Sessions,
                        NEW j \in DOMAIN outbox', outbox'[j].by = t
                 PROVE  FALSE
      BY DEF InOrder
    <3>1. t # Committed
      BY AutoSyncAssumption
    <3>2. j \in DOMAIN outbox /\ outbox[j].by = t
      BY <2>1, <2>2, <3>1
    <3> QED BY <2>6, <3>1, <3>2
  <2> QED BY <1>2, <2>4, <2>5, <2>7, <2>8 DEF DriftInv
<1> QED BY <1>3, <1>4 DEF RequestEnqueued

(* A delivery applies the first committed event; when it is the last one    *)
(* and the index is right, nothing is left to excuse                        *)
(* (outbox_relay.go:213-263).                                               *)
LEMMA DriftByDeliver ==
  ASSUME DriftInv, TypeOK', Deliver
  PROVE  DriftInv'
<1>0. TypeOK /\ Exclusive /\ SwitchInv /\ RequestOK /\ Converging /\ InOrder
      /\ \A t \in Sessions : SessionOK(t)
  BY DEF DriftInv
<1>1. PICK k \in Deliverable :
        /\ \A j \in Deliverable : k <= j
        /\ mirror' = Applied(mirror, outbox[k].event)
        /\ outbox' = Without({k})
        /\ excused' = IF Deliverable = {k} /\ mirror' = Expected(table) THEN {} ELSE excused
        /\ UNCHANGED <<entry, switch, table, lastId, tx, model, stmt, request, cause, used>>
  BY DEF Deliver
<1>2. k \in DOMAIN outbox /\ outbox[k].by = Committed
      /\ \A j \in DOMAIN outbox : outbox[j].by = Committed => k <= j
  BY <1>1 DEF Deliverable
<1>3. /\ DOMAIN outbox' = DOMAIN outbox \ {k}
      /\ \A j \in DOMAIN outbox' : outbox'[j] = outbox[j]
      /\ \A who : (\A j \in {k} \cap DOMAIN outbox : outbox[j].by # who) => SameRows(who)
  BY <1>0, <1>1, RemainingRows
<1>4. ASSUME NEW t \in Sessions PROVE SessionOK(t)' /\ SameRows(t)
  <2>1. SameSession(t)
    BY <1>1 DEF SameSession, tx
  <2>2. t # Committed
    BY AutoSyncAssumption
  <2>3. SameRows(t)
    BY <1>2, <1>3, <2>2
  <2> QED BY <1>0, <2>1, <2>3, SessionFrame
<1>5. Exclusive' /\ SwitchInv' /\ RequestOK'
  BY <1>0, <1>1 DEF Exclusive, SwitchInv, RequestOK, switch, tx
<1>6. LogOK(outbox, lastId) /\ LogOK(outbox', lastId')
  BY <1>0, LogFacts DEF TypeOK, LogOK
<1>7. Expected(table)' = Expected(table)
  BY <1>1, ExpectedKept
<1>8. CASE Deliverable = {k} /\ mirror' = Expected(table)
  <2>1. \A j \in DOMAIN outbox' : outbox'[j].by # Committed
    BY <1>3, <1>8 DEF Deliverable
  <2>2. PICK document \in Mirrors : document = mirror'
    BY DEF TypeOK, Mirrors
  <2>3. Path(outbox', lastId', Committed, document, document)
    BY <1>6, <2>1, PathEmpty
  <2>4. Converging'
    BY <1>7, <1>8, <2>2, <2>3 DEF Converging
  <2>5. InOrder'
    BY <2>1 DEF InOrder
  <2> QED BY <1>4, <1>5, <2>4, <2>5 DEF DriftInv
<1>9. CASE ~(Deliverable = {k} /\ mirror' = Expected(table))
  <2>1. excused' = excused
    BY <1>1, <1>9
  <2>2. ASSUME excused = {}
        PROVE  Path(outbox', lastId', Committed, mirror', Expected(table))
    <3>1. Path(outbox, lastId, Committed, mirror, Expected(table))
      BY <1>0, <2>2 DEF Converging
    <3>2. Path([j \in DOMAIN outbox \ {k} |-> outbox[j]], lastId, Committed,
               Applied(mirror, outbox[k].event), Expected(table))
      BY <1>2, <1>6, <3>1, PathTake
    <3> QED BY <1>1, <3>2 DEF Without
  <2>3. Converging'
    BY <1>7, <2>1, <2>2 DEF Converging
  <2>4. InOrder'
    <3>1. \A t \in Sessions : cause'[t] = {} => cause[t] = {} \/ NoRows(t)'
      BY <1>1
    <3>2. \A j \in DOMAIN outbox' : j \in DOMAIN outbox /\ outbox'[j].by = outbox[j].by
      BY <1>3
    <3> QED BY <1>0, <2>1, <3>1, <3>2, InOrderFrame
  <2> QED BY <1>4, <1>5, <2>3, <2>4 DEF DriftInv
<1> QED BY <1>8, <1>9

-----------------------------------------------------------------------------
(* The invariant, and what it says.                                         *)

(* Every step keeps the invariant.                                          *)
LEMMA DriftStep == DriftInv /\ [Next]_vars => DriftInv'
<1> SUFFICES ASSUME DriftInv, [Next]_vars PROVE DriftInv'
  OBVIOUS
<1>0. TypeOK' /\ SwitchInv' /\ RequestOK
  BY TypeStep, SwitchInvStep DEF DriftInv
<1>1. ASSUME NEW s \in Sessions, NEW u \in BOOLEAN, Load(s, u) PROVE DriftInv'
  <2>1. pc[s] \in {"idle", "open"} /\ model' = [model EXCEPT ![s] = View(s)]
        /\ UNCHANGED <<entry, switch, table, log, mirror, tx, stmt, request, cause, excused>>
    BY <1>1 DEF Load
  <2>2. ASSUME NEW t \in Sessions, pc[t] = "hook" PROVE model'[t] = model[t]
    BY <2>1, <2>2 DEF DriftInv, TypeOK
  <2>3. RequestOK'
    BY <1>0, <2>1 DEF RequestOK
  <2> QED BY <1>0, <2>1, <2>2, <2>3, DriftByQuiet
<1>2. ASSUME NEW s \in Sessions, Statement(s) PROVE DriftInv'
  BY <1>0, <1>2, DriftByRun
<1>3. ASSUME NEW s \in Sessions, CallbackOff(s) \/ CallbackUnidentified(s) \/ CallbackFails(s)
      PROVE  DriftInv'
  BY <1>0, <1>3, DriftBySilence
<1>4. ASSUME NEW s \in Sessions, CallbackPersists(s) PROVE DriftInv'
  BY <1>0, <1>4, DriftByEvent
<1>5. ASSUME NEW s \in Sessions, Commit(s) PROVE DriftInv'
  BY <1>0, <1>5, DriftByCommit
<1>6. ASSUME NEW s \in Sessions, Rollback(s) PROVE DriftInv'
  BY <1>0, <1>6, DriftByRollback
<1>7. ASSUME \/ \E call \in {EnableAll, EnableModel, DisableAll, DisableModel} : SwitchBegins(call)
             \/ SwitchStep \/ SwitchFails
      PROVE  DriftInv'
  <2>1. UNCHANGED <<entry, table, log, mirror, tx, model, stmt, request, cause, excused>>
    BY <1>7 DEF SwitchBegins, SwitchStep, SwitchFails
  <2>2. RequestOK'
    BY <1>0, <2>1 DEF RequestOK
  <2> QED BY <1>0, <2>1, <2>2, DriftByQuiet
<1>8. ASSUME NEW action \in {"index", "update", "delete"}, NEW u \in BOOLEAN,
             RequestLoads(action, u)
      PROVE  DriftInv'
  <2>1. UNCHANGED <<entry, table, log, mirror, tx, model, stmt, cause, excused>>
    BY <1>8 DEF RequestLoads
  <2>2. RequestOK'
    <3>1. table \in Docs
      BY <1>8 DEF RequestLoads, Matches, DriftInv, TypeOK
    <3> QED BY <1>8, <3>1 DEF RequestLoads, RequestOK, Event
  <2> QED BY <1>0, <2>1, <2>2, DriftByQuiet
<1>9. CASE RequestById
  <2>1. UNCHANGED <<entry, table, log, mirror, tx, model, stmt, cause, excused>>
    BY <1>9 DEF RequestById
  <2>2. RequestOK'
    BY <1>9 DEF RequestById, RequestOK, Event
  <2> QED BY <1>0, <2>1, <2>2, DriftByQuiet
<1>10. CASE RequestEnqueued
  BY <1>0, <1>10, DriftByEnqueue
<1>11. CASE Deliver
  BY <1>0, <1>11, DriftByDeliver
<1>12. CASE UNCHANGED vars
  <2>1. UNCHANGED <<entry, table, log, mirror, tx, model, stmt, request, cause, excused>>
    BY <1>12 DEF vars
  <2>2. RequestOK'
    BY <1>0, <2>1 DEF RequestOK
  <2> QED BY <1>0, <2>1, <2>2, DriftByQuiet
<1> QED BY <1>1, <1>2, <1>3, <1>4, <1>5, <1>6, <1>7, <1>8, <1>9, <1>10, <1>11, <1>12
        DEF Next, Statement

(* It holds initially: EnableAutoSync has been called, nothing has happened. *)
LEMMA DriftInit == Init => DriftInv
<1> SUFFICES ASSUME Init PROVE DriftInv
  OBVIOUS
<1>1. Zero \in Docs /\ NoStatement \in Statements
  BY PartialFacts DEF Zero, Docs, NoStatement, Statements
<1>2. table \in Mirrors /\ mirror = table
  BY <1>1 DEF Init, Mirrors
<1>3. DOMAIN outbox = {} /\ lastId = 0
  BY DEF Init
<1>4. outbox \in [DOMAIN outbox -> [by : Sessions \cup {Committed}, event : Events]]
  BY <1>3 DEF Init
<1>5. switching \in Seq({"allOn", "allOff", "modelOn", "modelOff", "remove",
                         "create", "update", "delete"})
  BY DEF Init
<1>6. TypeOK
  BY <1>1, <1>2, <1>3, <1>4, <1>5 DEF Init, TypeOK, Mirrors
<1>7. SwitchInv
  BY DEF Init, SwitchInv
<1>8. RequestOK /\ Exclusive
  BY DEF Init, RequestOK, Exclusive, NoRequest, Event
<1>9. ASSUME NEW s \in Sessions PROVE SessionOK(s)
  BY <1>3 DEF Init, SessionOK, NoRows
<1>10. Expected(table) = table
  <2>1. entry.softDelete = "delete" => table = Absent \/ table[SoftColumn] = 0
    BY AutoSyncAssumption DEF Init, Zero
  <2> QED BY <2>1 DEF Expected, Matches
<1>11. Converging
  BY <1>2, <1>3, <1>6, <1>10, LogFacts, PathEmpty DEF Converging
<1>12. InOrder
  BY <1>3 DEF InOrder
<1> QED BY <1>6, <1>7, <1>8, <1>9, <1>11, <1>12 DEF DriftInv

(* The committed events, and those of every open transaction, stand for the *)
(* changes the index has not seen yet, in the order in which the row saw    *)
(* them (callback.go:74-212, autosync_tx.go:29-82).                         *)
THEOREM DriftInvariant == Spec => []DriftInv
<1> QED BY DriftInit, DriftStep, PTL DEF Spec

(* The variables have their types, in every transaction, callback, switch   *)
(* and delivery.                                                            *)
THEOREM TypeCorrect == Spec => []TypeOK
<1>1. DriftInv => TypeOK
  BY DEF DriftInv
<1> QED BY <1>1, DriftInvariant, PTL

(* Once the committed events are delivered, the index holds what a rebuild  *)
(* would put there, or a named cause has struck: with any number of         *)
(* sessions, columns, statements and switches, whatever the order of their  *)
(* commits, rollbacks and failures (callback.go:74-212,                     *)
(* autosync_tx.go:29-82).                                                   *)
THEOREM DriftExplained == Spec => []NoUnexplainedDrift
<1>1. DriftInv => NoUnexplainedDrift
  <2> SUFFICES ASSUME DriftInv, Deliverable = {}, excused = {} PROVE mirror = Expected(table)
    BY DEF NoUnexplainedDrift
  <2>1. mirror \in Mirrors /\ LogOK(outbox, lastId)
    BY LogFacts DEF DriftInv, TypeOK, Mirrors
  <2>2. \A k \in DOMAIN outbox : outbox[k].by # Committed
    BY DEF Deliverable
  <2>3. Path(outbox, lastId, Committed, mirror, Expected(table))
    BY DEF DriftInv, Converging
  <2> QED BY <2>1, <2>2, <2>3, PathEmpty
<1> QED BY <1>1, DriftInvariant, PTL
=============================================================================
