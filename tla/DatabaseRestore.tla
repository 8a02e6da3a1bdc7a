--------------------------- MODULE DatabaseRestore ---------------------------
(***************************************************************************)
(* Restoring the local SQLite database from a verified backup, and what a  *)
(* later start makes of a restore that was interrupted.                    *)
(*                                                                         *)
(*   restoreDatabaseAtomically    recovery/database/atomic-restore.ts      *)
(*   reconcile                    recovery/database/interrupted-restore.ts *)
(*   openStoreWithStartupRecovery recovery/database/startup-recovery.ts    *)
(*   openStore                    .../startup-adapter/open-store.ts        *)
(*                                                                         *)
(* The database is a primary file and SQLite's two sidecars.  A step is    *)
(* one rename or one journal append together with the sync that follows it *)
(* at once.  The process may crash between any two steps, and a crash or a *)
(* write error may leave an append out, torn, or complete.  The bytes of a *)
(* file, and so its SHA-256, are a token.                                  *)
(***************************************************************************)
EXTENDS Naturals, Sequences, FiniteSets

CONSTANTS Sidecars,     \* the files beside the primary in the code's order: -wal, -shm
          MaxOps,       \* bound: restore operations in a behaviour
          MaxAttempts,  \* maximumRestoreAttempts of one start (3 in the code)
          MaxStarts,    \* bound: process starts
          MaxFaults     \* bound: file operations of a restore, or of an open store, that fail

ASSUME RestoreAssumption ==
  /\ Sidecars \in Seq(STRING) /\ \A i \in 1..Len(Sidecars) : Sidecars[i] # "db"
  /\ MaxOps \in Nat /\ MaxAttempts \in Nat \ {0}
  /\ MaxStarts \in Nat /\ MaxFaults \in Nat

VARIABLES
  main,     \* [Files -> bytes] in the database directory
  dir,      \* [Ops -> restore directory .restore-<operation>]
  marker,   \* the initialization marker
  pc,       \* where the program is; "off" when no process runs
  proc,     \* the variables of the running process
  outcome,  \* how the last start ended: "unavailable" when the program refused what it
            \* found on disk, "io-error" when it reports unavailable as well, but because
            \* a file operation of that start failed
  owner,    \* history: whose bytes the database is, see AtomicReplace
  origin,   \* history: main as the first start found it
  starts, faults

restoreVars == <<main, dir, marker, pc, proc, outcome, owner, origin, starts, faults>>

Files == {"db"} \cup {Sidecars[i] : i \in 1..Len(Sidecars)}
Ops == 1..MaxOps
Absent == "absent"
NoFiles == [f \in Files |-> Absent]
Present(m) == {f \in Files : m[f] # Absent}

\* "prior": the bytes that could not be opened; "candidate": the validated copy of
\* the backup; "audited": after validateInstalledDatabase appended its audit row;
\* "own": written by this program since; "sqlite": sidecars of an open connection.
Bytes == {Absent, "prior", "candidate", "audited", "own", "sqlite"}

Phases == {"prepared", "quarantining", "quarantined", "installed", "completed",
           "rolling-back", "rolled-back"}

\* Only an unfinished append leaves a file without a final newline: "torn".
Tails == {"nofile", "clean", "torn"}

EmptyDir == [state |-> "unused", journal |-> <<>>, tail |-> "nofile", prior |-> NoFiles,
             installed |-> NoFiles, quar |-> NoFiles, failed |-> NoFiles, cand |-> FALSE]

\* Which of the files S is next: the primary is restored first and quarantined last.
Place(f) == IF f = "db" THEN 0 ELSE CHOOSE i \in 1..Len(Sidecars) : Sidecars[i] = f
PrimaryFirst(S) == CHOOSE f \in S : \A g \in S : Place(f) <= Place(g)
PrimaryLast(S) == IF S \subseteq {"db"} THEN "db" ELSE PrimaryFirst(S \ {"db"})

IdleProc == [op |-> 0, moved |-> {}, candidateInstalled |-> FALSE, errors |-> FALSE,
             todo |-> {}, scanned |-> {}, attempt |-> 0, reconciled |-> FALSE,
             phase |-> "none", view |-> "closed"]

RestoreInit ==
  /\ main \in [Files -> {Absent, "prior"}]
  /\ main["db"] = Absent => main = NoFiles
  /\ marker \in BOOLEAN
  /\ dir = [o \in Ops |-> EmptyDir]
  /\ pc = "off" /\ proc = IdleProc /\ outcome = "none"
  /\ owner = IF main["db"] = "prior" THEN "old" ELSE IF marker THEN "lost" ELSE "none"
  /\ origin = main
  /\ starts = 0 /\ faults = 0

----------------------------------------------------------------------------
(***************************************************************************)
(* The journal: newline-terminated records.  An append after a torn tail   *)
(* completes the torn line, which is then no JSON record.                  *)
(***************************************************************************)
Appended(d, phase) ==
  [d EXCEPT !.journal = Append(@, IF d.tail = "torn" THEN "garbled" ELSE phase), !.tail = "clean"]

Torn(d) == [d EXCEPT !.tail = "torn"]

\* A write that fails may leave nothing, a part of the record, or all of it.
FailedAppends(d, phase) == {d, Torn(d), Appended(d, phase)}

AllowedTransitions ==
  {<<"prepared", "quarantining">>, <<"quarantining", "quarantined">>,
   <<"quarantining", "rolling-back">>, <<"quarantined", "installed">>,
   <<"quarantined", "rolling-back">>, <<"installed", "completed">>,
   <<"installed", "rolling-back">>, <<"rolling-back", "rolled-back">>}

ParsesJournal(d) ==
  /\ d.journal # <<>> /\ d.journal[1] = "prepared"
  /\ \A i \in 2..Len(d.journal) : <<d.journal[i - 1], d.journal[i]>> \in AllowedTransitions

LastPhase(d) == d.journal[Len(d.journal)]

\* assertTerminalOrPreparedState: the files agree with the phase that ended the journal.
TerminalStateHolds(d) ==
  IF LastPhase(d) = "completed"
    THEN main = d.installed /\ \A f \in Present(d.prior) : d.quar[f] = d.prior[f]
    ELSE IF d.prior = NoFiles
      THEN main = NoFiles
      ELSE \A f \in Present(d.prior) : main[f] = d.prior[f] /\ d.quar[f] = Absent

Live == {o \in Ops : dir[o].state = "live"}

\* The file has the name path in the database directory and is renamed into the
\* restore directory's part, or back.
IntoDir(o, part, f) ==
  /\ main' = [main EXCEPT ![f] = Absent]
  /\ dir' = [dir EXCEPT ![o][part][f] = main[f]]
BackToMain(o, f) ==
  /\ main' = [main EXCEPT ![f] = dir[o].quar[f]]
  /\ dir' = [dir EXCEPT ![o].quar[f] = Absent]

\* What an open connection shows of the files it was opened on.
ViewOf(m) ==
  CASE m["db"] = "own" -> "own"
    [] m["db"] = "audited" /\ (\A f \in Files : m[f] # "prior") -> "new"
    [] m = origin -> "old"
    [] OTHER -> "mixed"

WithSqliteSidecars(bytes) == [f \in Files |-> IF f = "db" THEN bytes ELSE "sqlite"]
WithoutSidecars(m) == [f \in Files |-> IF f = "db" THEN m[f] ELSE Absent]

Fault == faults < MaxFaults /\ faults' = faults + 1
EndStart(how) == pc' = "off" /\ outcome' = how /\ proc' = IdleProc
Keep(p) == pc' = p /\ UNCHANGED <<proc, outcome>>
History == <<marker, owner, origin, starts>>

----------------------------------------------------------------------------
(***************************************************************************)
(* One start of the program: openStore, which reconciles once per process. *)
(***************************************************************************)
Start ==
  /\ pc = "off" /\ starts < MaxStarts
  /\ pc' = "boundary" /\ proc' = IdleProc /\ outcome' = "none"
  /\ starts' = starts + 1
  /\ UNCHANGED <<main, dir, marker, owner, origin, faults>>

MutantPrepareBoundary ==
  /\ pc = "boundary" /\ Keep("open")
  /\ UNCHANGED <<main, dir, faults, History>>

\* prepareBoundary, and protectDatabaseBoundary again after the reconciliation.
PrepareBoundary ==
  /\ pc = "boundary"
  /\ IF main["db"] = Absent /\ main # NoFiles
       THEN EndStart("unavailable")
       ELSE Keep(IF proc.reconciled THEN "open" ELSE "scan")
  /\ UNCHANGED <<main, dir, faults, History>>

Discard(o) == dir' = [dir EXCEPT ![o].state = "discard"]
NoDiscards == \A o \in Ops : dir[o].state # "discard"

MutantRemoveDiscarded(o) ==
  /\ pc = "scan" /\ dir[o].state = "discard" /\ UNCHANGED restoreVars
RemoveDiscarded(o) ==
  /\ pc = "scan" /\ dir[o].state = "discard"
  /\ dir' = [dir EXCEPT ![o].state = "gone"]
  /\ UNCHANGED <<main, pc, proc, outcome, faults, History>>

\* The phases after which nothing is left to undo.
MutantTerminalPhases == {"rolled-back", "prepared"}
TerminalPhases == {"completed", "rolled-back", "prepared"}

\* One directory of the scan: unpublished, terminal, pending or contradictory.
ScanDirectory(o) ==
  LET d == dir[o]
      terminal == LastPhase(d) \in TerminalPhases
  IN /\ pc = "scan" /\ NoDiscards /\ o \in Live \ proc.scanned
     /\ IF d.tail = "nofile"
          THEN Discard(o) /\ Keep("scan")
          ELSE IF ~ParsesJournal(d) \/ (terminal /\ ~TerminalStateHolds(d))
            THEN EndStart("unavailable") /\ UNCHANGED dir
            ELSE IF terminal
              THEN Discard(o) /\ Keep("scan")
              ELSE /\ proc' = [proc EXCEPT !.scanned = @ \cup {o}]
                   /\ UNCHANGED <<dir, pc, outcome>>
     /\ owner' = IF /\ dir'[o].state = "discard" /\ d.tail # "nofile"
                    /\ LastPhase(d) = "completed" /\ owner \in {"old", "lost"}
                 THEN "new" ELSE owner
     /\ UNCHANGED <<main, marker, origin, starts, faults>>

ScanEnds ==
  /\ pc = "scan" /\ NoDiscards /\ Live \subseteq proc.scanned
  /\ \/ /\ Cardinality(Live) > 1 /\ EndStart("unavailable")
     \/ /\ Live = {} /\ pc' = "boundary"
        /\ proc' = [proc EXCEPT !.reconciled = TRUE] /\ UNCHANGED outcome
     \/ \E o \in Live :
          /\ Live = {o} /\ pc' = "undo-record"
          /\ proc' = [proc EXCEPT !.op = o, !.phase = LastPhase(dir[o])]
          /\ UNCHANGED outcome
  /\ UNCHANGED <<main, dir, faults, History>>

MutantUndoRecord ==
  /\ pc = "undo-record"
  /\ dir' = [dir EXCEPT ![proc.op] = Appended(@, "rolling-back")]
  /\ pc' = "undo-preserve"
  /\ UNCHANGED <<main, proc, outcome, faults, History>>

\* rollBackOperation, step by step.
UndoRecord ==
  /\ pc = "undo-record"
  /\ dir' = IF proc.phase = "rolling-back" THEN dir
            ELSE [dir EXCEPT ![proc.op] = Appended(@, "rolling-back")]
  /\ pc' = "undo-preserve"
  /\ proc' = [proc EXCEPT !.todo = IF proc.phase = "quarantining" THEN {} ELSE Files]
  /\ UNCHANGED <<main, outcome, faults, History>>

Next1(p) == proc' = [p EXCEPT !.todo = @ \ {PrimaryFirst(@)}]

MutantUndoPreserve ==
  LET f == PrimaryFirst(proc.todo)
  IN /\ pc = "undo-preserve" /\ proc.todo # {}
     /\ IF main[f] = Absent THEN UNCHANGED <<main, dir>> ELSE IntoDir(proc.op, "failed", f)
     /\ Next1(proc)
     /\ UNCHANGED <<pc, outcome, faults, History>>

\* preserveInstalledCandidate for the next file.
UndoPreserve ==
  LET d == dir[proc.op]  f == PrimaryFirst(proc.todo)
      restored == d.prior[f] # Absent /\ d.quar[f] = Absent
  IN /\ pc = "undo-preserve" /\ proc.todo # {}
     /\ \/ /\ main[f] # Absent
           /\ \/ restored /\ proc.phase # "rolling-back"
              \/ ~restored /\ d.failed[f] # Absent
           /\ EndStart("unavailable") /\ UNCHANGED <<main, dir>>
        \/ /\ main[f] = Absent \/ (restored /\ proc.phase = "rolling-back")
           /\ Next1(proc) /\ UNCHANGED <<main, dir, pc, outcome>>
        \/ /\ main[f] # Absent /\ ~restored /\ d.failed[f] = Absent
           /\ IntoDir(proc.op, "failed", f)
           /\ Next1(proc) /\ UNCHANGED <<pc, outcome>>
     /\ UNCHANGED <<faults, History>>

UndoPreserved ==
  /\ pc = "undo-preserve" /\ proc.todo = {}
  /\ pc' = "undo-restore"
  /\ proc' = [proc EXCEPT !.todo = Present(dir[proc.op].prior)]
  /\ UNCHANGED <<main, dir, outcome, faults, History>>

UndoRestore ==
  LET d == dir[proc.op]  f == PrimaryFirst(proc.todo)
  IN /\ pc = "undo-restore" /\ proc.todo # {}
     /\ \/ /\ IF d.quar[f] # Absent THEN d.quar[f] # d.prior[f] \/ main[f] # Absent
              ELSE main[f] # d.prior[f]
           /\ EndStart("unavailable") /\ UNCHANGED <<main, dir>>
        \/ /\ d.quar[f] = d.prior[f] /\ main[f] = Absent
           /\ BackToMain(proc.op, f)
           /\ Next1(proc) /\ UNCHANGED <<pc, outcome>>
        \/ /\ d.quar[f] = Absent /\ main[f] = d.prior[f]
           /\ Next1(proc) /\ UNCHANGED <<main, dir, pc, outcome>>
     /\ UNCHANGED <<faults, History>>

UndoFinish ==
  /\ pc = "undo-restore" /\ proc.todo = {}
  /\ IF dir[proc.op].prior = NoFiles /\ main # NoFiles
       THEN EndStart("unavailable") /\ UNCHANGED dir
       ELSE /\ dir' = [dir EXCEPT ![proc.op] = Appended(@, "rolled-back")]
            /\ Keep("undo-discard")
  /\ UNCHANGED <<main, faults, History>>

UndoDiscard ==
  /\ pc = "undo-discard"
  /\ Discard(proc.op) /\ Keep("scan")
  /\ UNCHANGED <<main, faults, History>>

MutantOfferRecovery(p) ==
  /\ pc' = "dialog" /\ UNCHANGED outcome
  /\ proc' = [p EXCEPT !.op = 0, !.attempt = @ + 1]

\* The recovery dialog is offered again until the attempts are used up.
OfferRecovery(p) ==
  IF p.attempt < MaxAttempts
    THEN pc' = "dialog" /\ proc' = [p EXCEPT !.op = 0, !.moved = {}, !.todo = {},
                                    !.candidateInstalled = FALSE, !.errors = FALSE]
                        /\ UNCHANGED outcome
    ELSE EndStart("quit")

\* Marker, provenance and createStore.  Provenance rejects the bytes that
\* made the restore necessary.
OpenStore ==
  /\ pc = "open"
  /\ \/ /\ IF main["db"] = Absent THEN marker ELSE main["db"] = "prior"
        /\ OfferRecovery(proc)
        /\ UNCHANGED <<main, marker, owner, faults>>
     \/ /\ IF main["db"] = Absent THEN ~marker ELSE main["db"] # "prior"
        /\ LET bytes == IF main["db"] = Absent THEN "own" ELSE main["db"]
           IN /\ owner' = IF main["db"] = Absent THEN "own" ELSE owner
              /\ \/ /\ main' = WithSqliteSidecars(bytes) /\ marker' = TRUE
                    /\ pc' = "running"
                    /\ proc' = [proc EXCEPT !.view = IF main["db"] = Absent THEN "own"
                                                     ELSE ViewOf(main)]
                    /\ UNCHANGED <<outcome, faults>>
                 \/ /\ Fault     \* writing the marker or an audit row fails: the store is closed
                    /\ main' = [f \in Files |-> IF f = "db" THEN bytes ELSE Absent]
                    /\ EndStart("io-error") /\ UNCHANGED marker
  /\ UNCHANGED <<dir, origin, starts>>

\* The application writes to its database, and quits.
Work ==
  /\ pc = "running"
  /\ main' = [main EXCEPT !["db"] = "own"] /\ owner' = "own"
  /\ proc' = [proc EXCEPT !.view = "own"]
  /\ UNCHANGED <<dir, marker, pc, outcome, origin, starts, faults>>

CloseStore ==
  /\ pc = "running"
  /\ main' = WithoutSidecars(main) /\ EndStart("opened")
  /\ UNCHANGED <<dir, faults, History>>

----------------------------------------------------------------------------
(***************************************************************************)
(* restoreDatabaseAtomically.  Before the journal says "quarantining" a    *)
(* failure removes the directory; after it, it rolls back.                 *)
(***************************************************************************)
ChooseBackup ==
  /\ pc = "dialog"
  /\ \/ EndStart("quit") /\ UNCHANGED faults
     \/ Fault /\ OfferRecovery([proc EXCEPT !.attempt = @ + 1])
     \/ /\ pc' = "create" /\ proc' = [proc EXCEPT !.attempt = @ + 1]
        /\ (\E o \in Ops : dir[o].state = "unused") /\ UNCHANGED <<outcome, faults>>
  /\ UNCHANGED <<main, dir, History>>

CreateRestoreDirectory ==
  /\ pc = "create"
  /\ \/ \E o \in Ops :
          /\ dir[o].state = "unused" /\ \A p \in 1..(o - 1) : dir[p].state # "unused"
          /\ dir' = [dir EXCEPT ![o].state = "live"]
          /\ pc' = "stage" /\ proc' = [proc EXCEPT !.op = o]
          /\ UNCHANGED <<outcome, faults>>
     \/ Fault /\ OfferRecovery(proc) /\ UNCHANGED dir
  /\ UNCHANGED <<main, History>>

Here == dir[proc.op]

\* The directory of a restore that moved nothing is removed after n faults; that
\* the removal fails as well is ignored.
Abandon(d, n) ==
  /\ \/ /\ dir' = [dir EXCEPT ![proc.op] = [d EXCEPT !.state = "gone"]]
        /\ faults' = faults + n
     \/ /\ dir' = [dir EXCEPT ![proc.op] = d]
        /\ faults' = faults + n + 1
  /\ faults' <= MaxFaults
  /\ OfferRecovery(proc)

\* Copy, verify, validate and sync the candidate.
StageCandidate ==
  /\ pc = "stage"
  /\ \/ /\ dir' = [dir EXCEPT ![proc.op].cand = TRUE]
        /\ Keep("prepare") /\ UNCHANGED faults
     \/ Abandon(Here, 1)
  /\ UNCHANGED <<main, History>>

\* Bind the existing files and their digests in the first journal record.
RecordPrepared ==
  LET d == [Here EXCEPT !.prior = main]
  IN /\ pc = "prepare"
     /\ \/ /\ main["db"] = Absent /\ main # NoFiles
           /\ Abandon(Here, 0)
        \/ /\ main["db"] = Absent => main = NoFiles
           /\ \/ /\ dir' = [dir EXCEPT ![proc.op] = Appended(d, "prepared")]
                 /\ Keep("record-quarantining") /\ UNCHANGED faults
              \/ \E e \in FailedAppends(d, "prepared") : Abandon(e, 1)
     /\ UNCHANGED <<main, History>>

\* Append a record, or fail and roll back.
Record(phase, next, d) ==
  \/ /\ dir' = [dir EXCEPT ![proc.op] = Appended(d, phase)]
     /\ next /\ UNCHANGED faults
  \/ /\ Fault
     /\ \E e \in FailedAppends(d, phase) : dir' = [dir EXCEPT ![proc.op] = e]
     /\ Keep("rb-record")

RecordQuarantining ==
  /\ pc = "record-quarantining"
  /\ Record("quarantining",
            /\ pc' = "quarantine" /\ UNCHANGED outcome
            /\ proc' = [proc EXCEPT !.todo = Present(Here.prior)], Here)
  /\ UNCHANGED <<main, History>>

\* Move the next file aside: done, failed before the rename, or failed after it.
QuarantineNext ==
  LET f == PrimaryLast(proc.todo)
      moved == [proc EXCEPT !.todo = @ \ {f}, !.moved = @ \cup {f}]
  IN /\ pc = "quarantine" /\ proc.todo # {}
     /\ \/ /\ IntoDir(proc.op, "quar", f) /\ proc' = moved
           /\ \/ pc' = pc /\ UNCHANGED faults
              \/ pc' = "rb-record" /\ Fault
           /\ UNCHANGED outcome
        \/ Fault /\ Keep("rb-record") /\ UNCHANGED <<main, dir>>
     /\ UNCHANGED History

RecordQuarantined ==
  /\ pc = "quarantine" /\ proc.todo = {}
  /\ Record("quarantined", Keep("install"), Here)
  /\ UNCHANGED <<main, History>>

InstallCandidate ==
  /\ pc = "install"
  /\ \/ /\ main' = [main EXCEPT !["db"] = "candidate"]
        /\ dir' = [dir EXCEPT ![proc.op].cand = FALSE]
        /\ proc' = [proc EXCEPT !.candidateInstalled = TRUE]
        /\ \/ pc' = "record-installed" /\ UNCHANGED faults
           \/ pc' = "rb-record" /\ Fault
        /\ UNCHANGED outcome
     \/ Fault /\ Keep("rb-record") /\ UNCHANGED <<main, dir>>
  /\ UNCHANGED History

RecordInstalled ==
  /\ pc = "record-installed"
  /\ Record("installed", Keep("validate"), Here)
  /\ UNCHANGED <<main, History>>

\* validateInstalledDatabase opens the database, checks it, appends an audit row
\* and closes it; SQLite's sidecars exist in between.
OpenInstalled ==
  /\ pc = "validate"
  /\ \/ /\ main' = WithSqliteSidecars("audited")
        /\ Keep("validating") /\ UNCHANGED faults
     \/ Fault /\ Keep("rb-record") /\ UNCHANGED main
  /\ UNCHANGED <<dir, History>>

CloseInstalled ==
  /\ pc = "validating"
  /\ main' = WithoutSidecars(main)
  /\ \/ Keep("complete") /\ UNCHANGED faults
     \/ Fault /\ Keep("rb-record")
  /\ UNCHANGED <<dir, History>>

\* The record with the installed digests ends the restore; the quarantine stays.
RecordCompleted ==
  /\ pc = "complete"
  /\ Record("completed", Keep("boundary"), [Here EXCEPT !.installed = main])
  /\ owner' = IF pc' = "boundary" THEN "new" ELSE owner
  /\ UNCHANGED <<main, marker, origin, starts>>

\* rollback: no rename before the "rolling-back" record is durable.
RollbackRecord ==
  /\ pc = "rb-record"
  /\ \/ /\ dir' = [dir EXCEPT ![proc.op] = Appended(@, "rolling-back")]
        /\ pc' = "rb-preserve"
        /\ proc' = [proc EXCEPT !.todo = IF proc.candidateInstalled
                                          THEN Files ELSE {}]
        /\ UNCHANGED <<outcome, faults>>
     \/ /\ Fault
        /\ \E e \in FailedAppends(Here, "rolling-back") : dir' = [dir EXCEPT ![proc.op] = e]
        /\ OfferRecovery(proc)
  /\ UNCHANGED <<main, History>>

WithError == [proc EXCEPT !.errors = TRUE]

RollbackPreserve ==
  LET f == PrimaryFirst(proc.todo)
  IN /\ pc = "rb-preserve" /\ proc.todo # {}
     /\ \/ /\ main[f] = Absent
           /\ Next1(proc) /\ UNCHANGED <<main, dir, faults>>
        \/ /\ main[f] # Absent /\ IntoDir(proc.op, "failed", f)
           /\ \/ Next1(proc) /\ UNCHANGED faults
              \/ Next1(WithError) /\ Fault
        \/ /\ main[f] # Absent /\ Fault
           /\ Next1(WithError) /\ UNCHANGED <<main, dir>>
     /\ UNCHANGED <<pc, outcome, History>>

RollbackPreserved ==
  /\ pc = "rb-preserve" /\ proc.todo = {}
  /\ pc' = "rb-restore"
  /\ proc' = [proc EXCEPT !.todo = proc.moved]
  /\ UNCHANGED <<main, dir, outcome, faults, History>>

RollbackRestore ==
  LET f == PrimaryFirst(proc.todo)
      refused == Here.quar[f] # Here.prior[f] \/ main[f] # Absent
  IN /\ pc = "rb-restore" /\ proc.todo # {}
     /\ \/ /\ Here.quar[f] = Absent
           /\ Next1(proc) /\ UNCHANGED <<main, dir, faults>>
        \/ /\ Here.quar[f] # Absent /\ refused
           /\ Next1(WithError) /\ UNCHANGED <<main, dir, faults>>
        \/ /\ Here.quar[f] # Absent /\ ~refused /\ BackToMain(proc.op, f)
           /\ \/ Next1(proc) /\ UNCHANGED faults
              \/ Next1(WithError) /\ Fault
        \/ /\ Here.quar[f] # Absent /\ ~refused /\ Fault
           /\ Next1(WithError) /\ UNCHANGED <<main, dir>>
     /\ UNCHANGED <<pc, outcome, History>>

RollbackVerified ==
  /\ ~proc.errors
  /\ \A f \in Present(Here.prior) : main[f] = Here.prior[f]
  /\ Here.prior = NoFiles => main = NoFiles

RollbackFinish ==
  /\ pc = "rb-restore" /\ proc.todo = {}
  /\ \/ /\ ~RollbackVerified
        /\ OfferRecovery(proc) /\ UNCHANGED <<dir, faults>>
     \/ /\ RollbackVerified
        /\ dir' = [dir EXCEPT ![proc.op] = Appended(@, "rolled-back")]
        /\ Keep("rb-discard") /\ UNCHANGED faults
     \/ /\ RollbackVerified /\ Fault
        /\ \E e \in FailedAppends(Here, "rolled-back") : dir' = [dir EXCEPT ![proc.op] = e]
        /\ OfferRecovery(proc)
  /\ UNCHANGED <<main, History>>

\* Rename to the discard name, then remove.
RollbackDiscard ==
  /\ pc = "rb-discard"
  /\ \/ dir' = [dir EXCEPT ![proc.op].state = "gone"] /\ UNCHANGED faults
     \/ /\ Fault
        /\ dir' \in {[dir EXCEPT ![proc.op].state = s] : s \in {"live", "discard"}}
  /\ OfferRecovery(proc)
  /\ UNCHANGED <<main, History>>

----------------------------------------------------------------------------
\* Appends a crash can tear.
AppendPoints == {"prepare", "record-quarantining", "quarantine", "record-installed", "complete",
                 "rb-record", "rb-restore", "undo-record", "undo-restore"}
Appending == /\ pc \in AppendPoints
             /\ pc \in {"quarantine", "rb-restore", "undo-restore"} => proc.todo = {}
             /\ ~(pc = "undo-record" /\ proc.phase = "rolling-back")

\* The start ends here; an append it was making is left out or torn.
Interrupted(how) ==
  /\ EndStart(how)
  /\ \/ UNCHANGED dir
     \/ Appending /\ dir' = [dir EXCEPT ![proc.op] = Torn(@)]
  /\ UNCHANGED <<main, faults, History>>

Crash == pc # "off" /\ Interrupted("crashed")

\* Any file operation of the boundary check, of the reconciliation or of opening
\* may fail, any number of times; a failure after the effect is one at the next step.
OpeningFails ==
  /\ pc \in {"boundary", "scan", "undo-record", "undo-preserve", "undo-restore", "undo-discard",
             "open"}
  /\ Interrupted("io-error")

ProcessStep ==
  \/ PrepareBoundary \/ ScanEnds \/ (\E o \in Ops : RemoveDiscarded(o) \/ ScanDirectory(o))
  \/ UndoRecord \/ UndoPreserve \/ UndoPreserved \/ UndoRestore \/ UndoFinish \/ UndoDiscard
  \/ OpenStore \/ CreateRestoreDirectory \/ StageCandidate \/ RecordPrepared
  \/ RecordQuarantining \/ QuarantineNext \/ RecordQuarantined \/ InstallCandidate
  \/ RecordInstalled \/ OpenInstalled \/ CloseInstalled \/ RecordCompleted
  \/ RollbackRecord \/ RollbackPreserve \/ RollbackPreserved \/ RollbackRestore
  \/ RollbackFinish \/ RollbackDiscard

RestoreNext ==
  Start \/ ChooseBackup \/ Work \/ CloseStore \/ Crash \/ OpeningFails \/ ProcessStep

RestoreSpec == RestoreInit /\ [][RestoreNext]_restoreVars

\* Promises settle and system calls return, so a running process takes its next step.
RestoreFairSpec == RestoreSpec /\ WF_restoreVars(ProcessStep)

----------------------------------------------------------------------------
(***************************************************************************)
(* Properties                                                              *)
(***************************************************************************)
RestoreDirs ==
  [state : {"unused", "live", "discard", "gone"}, journal : Seq(Phases \cup {"garbled"}),
   tail : Tails, prior : [Files -> Bytes], installed : [Files -> Bytes],
   quar : [Files -> Bytes], failed : [Files -> Bytes], cand : BOOLEAN]

\* Type invariant of the restore: every file holds known bytes, every journal is a
\* sequence of phases, and the ends of a start are the ones the startup can report.
RestoreTypeOK ==
  /\ main \in [Files -> Bytes] /\ origin \in [Files -> {Absent, "prior"}]
  /\ dir \in [Ops -> RestoreDirs]
  /\ marker \in BOOLEAN /\ starts \in 0..MaxStarts /\ faults \in 0..MaxFaults
  /\ proc.op \in {0} \cup Ops /\ proc.moved \subseteq Files /\ proc.attempt \in 0..MaxAttempts
  /\ outcome \in {"none", "unavailable", "io-error", "quit", "opened", "crashed"}
  /\ owner \in {"none", "lost", "old", "new", "own"}

\* The quarantine-and-rollback journal never loses a byte (atomic-restore.ts
\* 106-457, interrupted-restore.ts 312-422): until a restore is complete every
\* file of the database that was there is intact under its own name or in a
\* restore directory that nobody has discarded, whatever crashes, failed system
\* calls, retries of the user and interrupted rollbacks came in between.
PriorFilesSurvive ==
  owner = "old" => \A f \in Present(origin) :
                     main[f] = "prior" \/ \E o \in Live : dir[o].quar[f] = "prior"

\* Once a restore is complete its database stays: no later reconciliation of any
\* restore directory takes the installed files away again (interrupted-restore.ts
\* 171-269: evidence is discarded only when it agrees with the files).
RestoredFilesSurvive ==
  owner \in {"new", "own"} => main["db"] \in {"audited", "own"}

\* A start in which no file operation failed refuses the database as unavailable
\* (startup-recovery.ts 47-53) for one of these contradictions on disk and for no
\* other reason: sidecars without the primary, a journal that does not parse, or a
\* completed restore whose database has changed since.  In particular nothing that a
\* crash or an I/O failure of an earlier start leaves behind is refused besides.
RefusalsAreExplained ==
  outcome = "unavailable" =>
    \/ main["db"] = Absent /\ main # NoFiles
    \/ \E o \in Live : \/ dir[o].tail # "nofile" /\ ~ParsesJournal(dir[o])
                       \/ ParsesJournal(dir[o]) /\ LastPhase(dir[o]) = "completed"
                            /\ main # dir[o].installed

\* The database that a store shows is the old one or the whole backup, never a
\* mixture and never an empty replacement: the code implements AtomicReplace.
Atomic == INSTANCE AtomicReplace WITH value <- owner, view <- proc.view
RestoreIsAtomic == Atomic!Spec

\* Every start ends: it opens the store, asks the user, or quits.  Neither the
\* reconciliation nor the rollback runs for ever.
StartSettles == [](pc # "off" => <>(pc \in {"off", "running", "dialog"}))

=============================================================================
