----------------------------- MODULE OpsConsole -----------------------------
(***************************************************************************)
(* The operator's commands over several models (cobra_ops.go:58-99,        *)
(* 393-445) on top of full sync: full-sync starts one call, reconcile      *)
(* counts every table and its alias one after the other (ops.go:181-233)   *)
(* and, with --repair, starts a full sync of what differs.  Meanwhile      *)
(* applications insert rows and search the indices.  One command is run.   *)
(***************************************************************************)
EXTENDS FullSyncPool, SharedSearch

CONSTANTS
  Commands,     \* the commands an operator may give
  SearchBeside, \* those, with the registry, beside which applications search
                \* (bound of the instance)
  WatchBeside,  \* those beside which others fail and monitors read (likewise)
  LoseBeside    \* those whose rebuilds may lose documents (likewise)

ASSUME CommandAssumption ==
  \A c \in Commands : /\ c.kind \in {"full-sync", "reconcile"}
                      /\ c.args \in Seq(Models)
                      /\ c.repair \in BOOLEAN

VARIABLES
  command,     \* the command
  phase,       \* where it is
  listed,      \* the entries ReconcileCounts goes through
  counted,     \* DBCount of the current one
  verdicts,    \* Match or Err of those done
  before       \* history: the rows there were when the command began

command_vars == <<command, phase, listed, counted, verdicts, before>>
console_vars == <<pool_vars, search_vars, command_vars>>

TypeOK ==
  /\ PoolTypeOK
  /\ SearchTypeOK
  /\ command \in Commands
  /\ phase \in {"idle", "rows", "docs", "syncing", "done"}
  /\ listed \in Seq(Models)
  /\ counted \in Nat
  /\ verdicts \in Seq({"match", "mismatch", "error"})
  /\ Len(verdicts) <= Len(listed)
  /\ before \in [Models -> Nat]

ConsoleInit ==
  /\ PoolInit
  /\ SearchInit
  /\ command \in Commands
  /\ phase = "idle"
  /\ listed = <<>> /\ counted = 0 /\ verdicts = <<>>
  /\ before = rows

-----------------------------------------------------------------------------
FullSyncCommand ==
  /\ phase = "idle" /\ command.kind = "full-sync"
  /\ before' = rows
  /\ phase' = "syncing"
  /\ Start(command.args)
  /\ UNCHANGED <<command, listed, counted, verdicts, search_vars>>

ReconcileRefused ==
  /\ phase = "idle" /\ command.kind = "reconcile"
  /\ Unknown(command.args)
  /\ phase' = "done"
  /\ UNCHANGED <<command, listed, counted, verdicts, before, pool_vars, search_vars>>

ReconcileCommand ==
  /\ phase = "idle" /\ command.kind = "reconcile"
  /\ ~Unknown(command.args)
  /\ listed' \in EntriesFor(command.args)
  /\ before' = rows
  /\ phase' = "rows"
  /\ UNCHANGED <<command, counted, verdicts, pool_vars, search_vars>>

Counting == Len(verdicts) < Len(listed)
Current == listed[Len(verdicts) + 1]

CountRows ==
  /\ phase = "rows" /\ Counting
  /\ counted' = rows[Current]
  /\ phase' = "docs"
  /\ UNCHANGED <<command, listed, verdicts, before, pool_vars, search_vars>>

CountDocs ==
  /\ phase = "docs"
  /\ verdicts' = Append(verdicts, IF counted = Found(Current) THEN "match" ELSE "mismatch")
  /\ phase' = "rows"
  /\ UNCHANGED <<command, listed, counted, before, pool_vars, search_vars>>

\* Either query fails: this entry gets an error, the next one its turn.
CountFails ==
  /\ phase \in {"rows", "docs"} /\ Counting
  /\ verdicts' = Append(verdicts, "error")
  /\ phase' = "rows"
  /\ UNCHANGED <<command, listed, counted, before, pool_vars, search_vars>>

Differ == {i \in DOMAIN verdicts : verdicts[i] = "mismatch"}

\* MUTANT: the j-th mismatch is taken for the j-th argument.
MismatchedMutant(s) == [j \in DOMAIN s |-> command.args[j]]

\* The i-th result is taken for the i-th argument; s lists the mismatches.
Mismatched(s) == [j \in DOMAIN s |-> command.args[s[j]]]

\* Without arguments everything is rebuilt, whatever the counts say.
Repair ==
  /\ phase = "rows" /\ ~Counting /\ command.repair
  /\ \/ command.args = <<>> /\ Start(<<>>)
     \/ /\ command.args # <<>> /\ Differ # {}
        /\ \E s \in Listings(Differ) :
             /\ \A i, j \in DOMAIN s : i < j => s[i] < s[j]
             /\ Start(Mismatched(s))
  /\ phase' = "syncing"
  /\ UNCHANGED <<command, listed, counted, verdicts, before, search_vars>>

NothingToRepair ==
  /\ phase = "rows" /\ ~Counting
  /\ command.repair => command.args # <<>> /\ Differ = {}
  /\ phase' = "done"
  /\ UNCHANGED <<command, listed, counted, verdicts, before, pool_vars, search_vars>>

CommandStep ==
  \/ FullSyncCommand \/ ReconcileRefused \/ ReconcileCommand
  \/ CountRows \/ CountDocs \/ CountFails \/ Repair \/ NothingToRepair

ConsoleNext ==
  \/ CommandStep
  \/ /\ PoolStep
     /\ command \in LoseBeside \/ UNCHANGED lost
     /\ UNCHANGED <<command_vars, search_vars>>
  \/ command \in WatchBeside /\ OtherStep /\ UNCHANGED <<command_vars, search_vars>>
  \/ <<command, registered>> \in SearchBeside /\ SearchStep /\ UNCHANGED <<command_vars, pool_vars>>

ConsoleSpec ==
  /\ ConsoleInit /\ [][ConsoleNext]_console_vars
  /\ PoolFairness
  /\ SearchFairness

-----------------------------------------------------------------------------
Distinct(s) == \A i, j \in DOMAIN s : s[i] = s[j] => i = j

Over == phase = "done" \/ (phase = "syncing" /\ call \in {"returned", "refused"})

\* What has to be rebuilt.
ToRepair ==
  IF command.args = <<>> THEN registered
  ELSE {command.args[i] : i \in Differ \cap DOMAIN command.args}

\* FullSync has turned all of it down because one of the models has no cursor.
TurnedDown == call = "refused" /\ ToRepair \cap Unscannable # {}

\* An error the command has printed for this model, or for all.
Excused(m) ==
  \/ cancelled
  \/ \E i \in DOMAIN sent : entries[sent[i].entry] = m /\ sent[i].err # "none"
  \/ command.args # <<>> /\ \E i \in DOMAIN verdicts : listed[i] = m /\ verdicts[i] = "error"

(* reconcile --repair rebuilds what differs (README.md:395): when it is     *)
(* over, every selected model shows at least the rows there were when it    *)
(* began, though counts are two reads of moving data and results are        *)
(* matched with arguments by position (cobra_ops.go:413-427).  There are    *)
(* three exceptions.  A model whose count or rebuild failed has an error    *)
(* printed, a cancelled command may stop anywhere.  If one of the models to *)
(* repair has no cursor, nothing is repaired, and the one result there is   *)
(* names that model only (fullsync.go:35-47): the others stay behind        *)
(* without a word.  Documents that the bulk indexer lost are missing as     *)
(* after every full sync.  Models named twice are left out: their results   *)
(* do not line up.                                                          *)
RepairRepairs ==
  Over /\ command.kind = "reconcile" /\ command.repair /\ Distinct(command.args)
       /\ ~Unknown(command.args)
    => \A m \in (IF command.args = <<>> THEN registered ELSE Named(command.args)) :
         Found(m) + lost[m] >= before[m] \/ Excused(m) \/ TurnedDown
=============================================================================
