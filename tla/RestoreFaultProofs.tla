------------------------- MODULE RestoreFaultProofs -------------------------
(***************************************************************************)
(* As long as at most one file operation has failed, a completed restore   *)
(* stays and a start is refused for the reasons DatabaseRestore names, for *)
(* any number of sidecars, restores, attempts, starts and crashes.         *)
(*                                                                         *)
(* One fault is not enough to leave a second restore directory in use: a   *)
(* rollback begins with the first fault and then succeeds.  So the files   *)
(* are always as the last record of the only journal in use says.          *)
(***************************************************************************)
EXTENDS RestoreAtomicProofs, FiniteSetTheorems

-----------------------------------------------------------------------------
(* The inductive invariant *)

\* A prior file is under its own name, or in quarantine, with the files m and the
\* restore directory d.
InPlace(m, d, f) == m[f] = d.prior[f] /\ d.quar[f] = Absent
Aside(m, d, f) == m[f] = Absent /\ d.quar[f] = d.prior[f]

AllInPlace(m, d) == \A f \in Files : InPlace(m, d, f)
AllKept(d) == \A f \in Files : d.quar[f] = d.prior[f]
NoneFailed(d) == \A f \in Files : d.failed[f] = Absent

\* The files in moved are in quarantine and the others under their own name.
Split(m, d, moved) ==
  \A f \in Files : IF f \in moved THEN Aside(m, d, f) ELSE InPlace(m, d, f)

\* Where the files are after a record.
LayoutOf(ph, m, d) ==
  /\ ph \in {"prepared", "rolled-back"} => AllInPlace(m, d)
  /\ ph = "quarantining" => \A f \in Files : InPlace(m, d, f) \/ Aside(m, d, f)
  /\ ph \in {"quarantined", "installed", "completed"} => AllKept(d)
  /\ ph = "rolling-back" =>
       \A f \in Files : \/ InPlace(m, d, f)
                        \/ d.quar[f] = d.prior[f] /\ (m[f] # Absent => d.failed[f] = Absent)
  /\ ph \notin {"rolling-back", "rolled-back"} => NoneFailed(d)
  /\ ph = "completed" => d.installed["db"] = "audited"

LaidOut(m, d) == ParsesJournal(d) => LayoutOf(LastPhase(d), m, d)

At(d, ph) == ParsesJournal(d) => LastPhase(d) = ph

RollingBack == {"rb-record", "rb-preserve", "rb-restore", "rb-discard"}
Installing == {"record-installed", "validate", "validating", "complete"}

\* What a process r at a point p of a restore over the files m and the directory d relies on.
RestorePointOK(p, m, r, d) ==
  /\ ~r.errors
  /\ p \in {"stage", "prepare", "record-quarantining"} =>
       r.moved = {} /\ NoneFailed(d) /\ \A f \in Files : d.quar[f] = Absent
  /\ p = "record-quarantining" => AllInPlace(m, d) /\ At(d, "prepared")
  /\ p = "quarantine" =>
       /\ r.todo \subseteq Present(d.prior) /\ r.moved = Present(d.prior) \ r.todo
       /\ Split(m, d, r.moved) /\ NoneFailed(d) /\ At(d, "quarantining")
  /\ p = "install" => Split(m, d, r.moved)
  /\ p \in {"install"} \cup Installing =>
       AllKept(d) /\ NoneFailed(d) /\ r.moved = Present(d.prior)
  /\ p \in {"install", "record-installed"} => At(d, "quarantined")
  /\ p \in Installing => r.candidateInstalled
  /\ p \in {"validate", "validating", "complete"} => At(d, "installed")
  /\ p \in {"rb-record", "rb-preserve"} =>
       IF r.candidateInstalled THEN AllKept(d) /\ r.moved = Present(d.prior)
       ELSE Split(m, d, r.moved)
  /\ p = "rb-preserve" =>
       IF r.candidateInstalled THEN \A f \in Files \ r.todo : m[f] = Absent ELSE r.todo = {}
  /\ p = "rb-restore" => Split(m, d, r.todo)
  /\ p \in {"rb-preserve", "rb-restore"} => At(d, "rolling-back")
  /\ p = "rb-discard" => AllInPlace(m, d)

\* The same for the undo of an interrupted restore whose journal can be read.
UndoPointOK(p, m, r, d) ==
  /\ p = "undo-record" => ParsesJournal(d) /\ r.phase = LastPhase(d)
  /\ ParsesJournal(d) /\ p \in {"undo-preserve", "undo-restore"} =>
       /\ LastPhase(d) = "rolling-back"
       /\ p = "undo-preserve" =>
            /\ r.phase \in {"quarantining", "quarantined", "installed", "rolling-back"}
            /\ r.phase = "quarantining" => r.todo = {}
            /\ r.phase \in {"quarantined", "installed"} => AllKept(d)
            /\ \A f \in Files \ r.todo : InPlace(m, d, f) \/ Aside(m, d, f)
       /\ p = "undo-restore" =>
            \A f \in Files : InPlace(m, d, f) \/ (f \in r.todo /\ Aside(m, d, f))

\* One restore at most is in use, and the files are as its journal says.
DiskOK ==
  /\ \A o, p \in Live : o = p
  /\ \A o \in Live : LaidOut(main, dir[o])

\* A restored database is there, and nothing is left that could be undone.
NewOK ==
  owner = "new" =>
    /\ main["db"] = "audited" /\ pc \in {"off", "boundary", "scan", "open", "running"}
    /\ \A o \in Live : Sealed(dir[o]) /\ (pc = "scan" => o \notin proc.scanned)

\* The point the process is at.
FaultPcOK ==
  /\ pc # "off" => outcome = "none"
  /\ pc = "scan" => \A o \in Live \cap proc.scanned : ParsesJournal(dir[o])
  /\ pc \in {"open", "dialog", "create", "stage", "prepare"} =>
       (main["db"] = Absent => main = NoFiles)
  /\ pc \in {"dialog", "create"} =>
       Live = {} /\ ~proc.errors /\ proc.moved = {} /\ ~proc.candidateInstalled
  /\ pc \in RollingBack => faults = 1
  /\ pc \in Restoring => RestorePointOK(pc, main, proc, dir[proc.op])
  /\ pc \in Undoing => UndoPointOK(pc, main, proc, dir[proc.op])

OneFault == DiskOK /\ NewOK /\ FaultPcOK /\ RefusalsAreExplained

OneFaultInv == faults <= 1 => OneFault

-----------------------------------------------------------------------------
(* Journals and layouts *)

\* A journal that can be read after an append could be read before it, and ends with
\* the record, which may follow the one before.
LEMMA AppendedParses ==
  ASSUME NEW d \in RestoreDirs, NEW ph \in Phases, d.journal # <<>>,
         ParsesJournal(Appended(d, ph))
  PROVE  /\ LastPhase(Appended(d, ph)) = ph /\ ParsesJournal(d)
         /\ <<LastPhase(d), ph>> \in AllowedTransitions
<1> DEFINE x == IF d.tail = "torn" THEN "garbled" ELSE ph
           j == Append(d.journal, x)
           n == Len(d.journal)
<1>1. d.journal \in Seq(Phases \cup {"garbled"}) /\ x \in Phases \cup {"garbled"}
  BY DirFields
<1>2. n \in Nat \ {0} /\ Len(j) = n + 1 /\ j[n + 1] = x /\ \A i \in 1..n : j[i] = d.journal[i]
  BY <1>1
<1>3. Appended(d, ph).journal = j
  BY DEF Appended, RestoreDirs
<1>4. LastPhase(Appended(d, ph)) = ph
  BY AppendedLast
<1>5. LastPhase(Appended(d, ph)) = j[n + 1]
  BY <1>2, <1>3 DEF LastPhase
<1> HIDE DEF j, n
<1>6. j[1] = "prepared" /\ \A i \in 2..(n + 1) : <<j[i - 1], j[i]>> \in AllowedTransitions
  BY <1>2, <1>3 DEF ParsesJournal
<1>7. d.journal[1] = "prepared" /\ \A i \in 2..n : <<d.journal[i - 1], d.journal[i]>> \in AllowedTransitions
  <2>1. d.journal[1] = "prepared"
    BY <1>2, <1>6
  <2>2. ASSUME NEW i \in 2..n PROVE <<d.journal[i - 1], d.journal[i]>> \in AllowedTransitions
    <3>1. i \in 2..(n + 1) /\ i \in 1..n /\ i - 1 \in 1..n
      BY <1>2
    <3>2. QED
      BY <1>2, <1>6, <3>1
  <2>3. QED
    BY <2>1, <2>2
<1>8. ParsesJournal(d)
  BY <1>7 DEF ParsesJournal, n
<1>9. <<d.journal[n], ph>> \in AllowedTransitions
  <2>1. n + 1 \in 2..(n + 1) /\ (n + 1) - 1 = n /\ n \in 1..n
    BY <1>2
  <2>2. <<j[n], j[n + 1]>> \in AllowedTransitions
    BY <1>6, <2>1
  <2>3. QED
    BY <1>2, <1>4, <1>5, <2>1, <2>2
<1>10. QED
  BY <1>4, <1>8, <1>9 DEF LastPhase, n

\* The first record.
LEMMA FirstRecord ==
  ASSUME NEW d \in RestoreDirs, d.journal = <<>>
  PROVE  LET e == Appended(d, "prepared") IN ParsesJournal(e) => LastPhase(e) = "prepared"
<1> DEFINE x == IF d.tail = "torn" THEN "garbled" ELSE "prepared"
           e == Appended(d, "prepared")
           n == Len(d.journal)
<1>1. e.journal = Append(d.journal, x)
  BY DEF Appended, RestoreDirs
<1>2. d.journal \in Seq(Phases \cup {"garbled"}) /\ x \in Phases \cup {"garbled"} /\ n = 0
  BY DirFields DEF Phases
<1>3. Len(Append(d.journal, x)) = n + 1 /\ Append(d.journal, x)[n + 1] = x
  BY <1>2
<1>4. Len(e.journal) = 1 /\ e.journal[1] = x
  BY <1>1, <1>2, <1>3
<1>5. QED
  BY <1>4 DEF ParsesJournal, LastPhase

\* An append, or an attempt at one, leaves the rest of the directory.
LEMMA AppendRest ==
  ASSUME NEW d \in RestoreDirs, NEW ph \in Phases, NEW e \in FailedAppends(d, ph)
  PROVE  /\ e \in RestoreDirs /\ e.state = d.state /\ e.prior = d.prior /\ e.quar = d.quar
         /\ e.failed = d.failed /\ e.installed = d.installed
<1>1. e \in RestoreDirs /\ e.state = d.state /\ e.prior = d.prior /\ e.quar = d.quar
  BY AppendedDir, TornDir DEF FailedAppends
<1>2. e.failed = d.failed /\ e.installed = d.installed
  BY DEF FailedAppends, Appended, Torn, RestoreDirs
<1>3. QED
  BY <1>1, <1>2

\* What is said of where files are depends on these fields only.
LEMMA SameLayout ==
  ASSUME NEW m, NEW d, NEW e, e.prior = d.prior, e.quar = d.quar, e.failed = d.failed,
         e.installed = d.installed
  PROVE  /\ \A ph : LayoutOf(ph, m, e) <=> LayoutOf(ph, m, d)
         /\ e.journal = d.journal => (LaidOut(m, e) <=> LaidOut(m, d))
         /\ \A f \in Files : /\ InPlace(m, e, f) <=> InPlace(m, d, f)
                             /\ Aside(m, e, f) <=> Aside(m, d, f)
         /\ AllInPlace(m, e) <=> AllInPlace(m, d)
         /\ AllKept(e) <=> AllKept(d)
         /\ NoneFailed(e) <=> NoneFailed(d)
         /\ \A X : Split(m, e, X) <=> Split(m, d, X)
<1>1. \A f \in Files : /\ InPlace(m, e, f) <=> InPlace(m, d, f)
                       /\ Aside(m, e, f) <=> Aside(m, d, f)
  BY DEF InPlace, Aside
<1>2. /\ AllInPlace(m, e) <=> AllInPlace(m, d)
      /\ AllKept(e) <=> AllKept(d)
      /\ NoneFailed(e) <=> NoneFailed(d)
      /\ \A X : Split(m, e, X) <=> Split(m, d, X)
  BY <1>1 DEF AllInPlace, AllKept, NoneFailed, Split
<1>3. ASSUME NEW ph PROVE LayoutOf(ph, m, e) <=> LayoutOf(ph, m, d)
  BY <1>1, <1>2 DEF LayoutOf
<1>4. e.journal = d.journal => (LaidOut(m, e) <=> LaidOut(m, d))
  BY <1>3 DEF LaidOut, ParsesJournal, LastPhase
<1>5. QED
  BY <1>1, <1>2, <1>3, <1>4

\* An append that fails leaves a layout of the journal before or after it.
LEMMA FailedLayout ==
  ASSUME NEW d \in RestoreDirs, NEW ph \in Phases, NEW m, NEW e \in FailedAppends(d, ph),
         LaidOut(m, d), LaidOut(m, Appended(d, ph))
  PROVE  LaidOut(m, e)
<1>1. CASE e = Torn(d)
  <2>1. e.journal = d.journal
    BY <1>1, TornDir
  <2>2. QED
    BY <2>1, AppendRest, SameLayout
<1>2. QED
  BY <1>1 DEF FailedAppends

\* A journal that can be read ends with a phase.
LEMMA ReadableLast ==
  ASSUME NEW d \in RestoreDirs, ParsesJournal(d)
  PROVE  LastPhase(d) \in Phases
<1> DEFINE n == Len(d.journal)
<1>1. d.journal \in Seq(Phases \cup {"garbled"}) /\ d.journal # <<>>
  BY DirFields DEF ParsesJournal
<1>2. n \in Nat \ {0}
  BY <1>1
<1>3. CASE n = 1
  BY <1>3 DEF ParsesJournal, LastPhase, Phases
<1>4. CASE n # 1
  <2> HIDE DEF n
  <2>1. n \in 2..n
    BY <1>2, <1>4
  <2>2. <<d.journal[n - 1], d.journal[n]>> \in AllowedTransitions
    BY <2>1 DEF ParsesJournal, n
  <2>3. QED
    BY <2>2 DEF LastPhase, AllowedTransitions, Phases, n
<1>5. QED
  BY <1>3, <1>4

\* A record is right when the layout it stands for follows from the one before.
LEMMA NextLayout ==
  ASSUME NEW d \in RestoreDirs, NEW ph \in Phases, NEW m, d.journal # <<>>,
         ParsesJournal(d) /\ <<LastPhase(d), ph>> \in AllowedTransitions => LayoutOf(ph, m, d)
  PROVE  LaidOut(m, Appended(d, ph)) /\ At(Appended(d, ph), ph)
<1>1. \A X : LayoutOf(X, m, Appended(d, ph)) <=> LayoutOf(X, m, d)
  BY AppendRest, SameLayout DEF FailedAppends
<1>2. QED
  BY <1>1, AppendedParses DEF LaidOut, At

\* The undo of any layout before it begins as its record says.
LEMMA RollingBackLayout ==
  ASSUME NEW d \in RestoreDirs, NEW m, d.journal # <<>>, LaidOut(m, d)
  PROVE  /\ LaidOut(m, Appended(d, "rolling-back"))
         /\ At(Appended(d, "rolling-back"), "rolling-back")
<1>1. ASSUME ParsesJournal(d), <<LastPhase(d), "rolling-back">> \in AllowedTransitions
      PROVE  LayoutOf("rolling-back", m, d)
  <2>1. LastPhase(d) \in {"quarantining", "quarantined", "installed"}
    BY <1>1 DEF AllowedTransitions
  <2>2. LayoutOf(LastPhase(d), m, d)
    BY <1>1 DEF LaidOut
  <2>3. NoneFailed(d)
    BY <2>1, <2>2 DEF LayoutOf
  <2>4. \A f \in Files : InPlace(m, d, f) \/ d.quar[f] = d.prior[f]
    BY <2>1, <2>2 DEF LayoutOf, AllKept, Aside
  <2>5. QED
    BY <2>3, <2>4 DEF LayoutOf, NoneFailed
<1>2. "rolling-back" \in Phases
  BY DEF Phases
<1>3. QED
  BY <1>1, <1>2, NextLayout

\* The layout of a restore that is complete, or cannot be read, says nothing of the database.
LEMMA SealedLayout ==
  ASSUME NEW m, NEW q, NEW d, LaidOut(m, d), Sealed(d)
  PROVE  LaidOut(q, d)
  BY DEF LaidOut, LayoutOf, Sealed

-----------------------------------------------------------------------------
(* Kinds of steps *)

\* A restore or an undo works on the only directory in use.
LEMMA OnlyOne ==
  ASSUME RestoreInv, AtomicInv, OneFault, pc \in Restoring \cup Undoing
  PROVE  /\ owner # "new" /\ Live = {proc.op} /\ proc.op \in Ops /\ outcome = "none"
         /\ dir[proc.op] \in RestoreDirs /\ dir[proc.op].state = "live"
         /\ LaidOut(main, dir[proc.op])
         /\ main \in [Files -> Bytes] /\ dir \in [Ops -> RestoreDirs] /\ proc \in Procs
         /\ proc.todo \subseteq Files
<1>1. /\ proc.op \in Ops /\ proc.op \in Live /\ dir[proc.op] \in RestoreDirs
      /\ dir[proc.op].state = "live" /\ proc \in Procs /\ proc.todo \subseteq Files
  BY WorkingOp
<1>2. Live = {proc.op} /\ LaidOut(main, dir[proc.op])
  BY <1>1 DEF OneFault, DiskOK
<1>3. pc \notin {"off", "boundary", "scan", "open", "running"}
  BY DEF Restoring, Undoing
<1>4. owner # "new" /\ outcome = "none"
  BY <1>3 DEF OneFault, NewOK, FaultPcOK
<1>5. QED
  BY <1>1, <1>2, <1>4 DEF RestoreInv, Typed

\* A step to another point of a restore or an undo.
LEMMA Continues ==
  ASSUME RestoreInv, AtomicInv, OneFault, pc \in Restoring \cup Undoing,
         pc' \in Restoring \cup Undoing, owner' = owner, outcome' = outcome, proc'.op = proc.op,
         NEW e, dir' = [dir EXCEPT ![proc.op] = e], e.state = "live", LaidOut(main', e),
         pc' \in RollingBack => faults' = 1,
         pc' \in {"stage", "prepare"} => (main'["db"] = Absent => main' = NoFiles),
         pc' \in Restoring => RestorePointOK(pc', main', proc', e),
         pc' \in Undoing => UndoPointOK(pc', main', proc', e)
  PROVE  OneFault'
<1>1. /\ owner # "new" /\ Live = {proc.op} /\ proc.op \in Ops /\ outcome = "none"
      /\ dir \in [Ops -> RestoreDirs]
  BY OnlyOne
<1>2. dir'[proc.op] = e /\ \A o \in Ops : o # proc.op => dir'[o] = dir[o]
  BY <1>1
<1>3. Live' = {proc.op}
  BY <1>1, <1>2 DEF Live
<1>4. DiskOK'
  BY <1>2, <1>3 DEF DiskOK
<1>5. NewOK' /\ RefusalsAreExplained'
  BY <1>1 DEF NewOK, RefusalsAreExplained
<1>6. pc' \notin {"off", "scan", "open", "dialog", "create"}
  BY DEF Restoring, Undoing
<1>7. FaultPcOK'
  BY <1>1, <1>2, <1>6 DEF FaultPcOK
<1>8. QED
  BY <1>4, <1>5, <1>7 DEF OneFault

\* The same when nothing on the disk changes.
LEMMA Proceeds ==
  ASSUME RestoreInv, AtomicInv, OneFault, pc \in Restoring \cup Undoing,
         pc' \in Restoring \cup Undoing, owner' = owner, outcome' = outcome, proc'.op = proc.op,
         dir' = dir, main' = main, pc' \in RollingBack => faults' = 1,
         pc' \notin {"stage", "prepare"},
         pc' \in Restoring => RestorePointOK(pc', main, proc', dir[proc.op]),
         pc' \in Undoing => UndoPointOK(pc', main, proc', dir[proc.op])
  PROVE  OneFault'
<1> DEFINE e == dir[proc.op]
<1>1. dir' = [dir EXCEPT ![proc.op] = e] /\ e.state = "live" /\ LaidOut(main', e)
  BY OnlyOne
<1>2. QED
  BY <1>1, Continues

\* A start ends; the directories in use lost at most the end of a journal.
LEMMA Stops ==
  ASSUME RestoreInv, AtomicInv, OneFault, NEW how, EndStart(how), main' = main, owner' = owner,
         Live' = Live, \A o \in Live : LaidOut(main, dir'[o]) /\ (Sealed(dir[o]) => Sealed(dir'[o])),
         how = "unavailable" => RefusalsAreExplained'
  PROVE  OneFault'
<1>1. pc' = "off" /\ outcome' = how
  BY DEF EndStart
<1>2. DiskOK'
  BY DEF OneFault, DiskOK
<1>3. NewOK'
  BY <1>1 DEF OneFault, NewOK
<1>4. FaultPcOK'
  BY <1>1 DEF FaultPcOK, Restoring, Undoing, RollingBack
<1>5. RefusalsAreExplained'
  BY <1>1 DEF RefusalsAreExplained
<1>6. QED
  BY <1>2, <1>3, <1>4, <1>5 DEF OneFault

\* The same when nothing on the disk changes.
LEMMA Quits ==
  ASSUME RestoreInv, AtomicInv, OneFault, NEW how, EndStart(how), main' = main, owner' = owner,
         dir' = dir, how = "unavailable" => RefusalsAreExplained'
  PROVE  OneFault'
<1>1. Live' = Live /\ \A o \in Live : LaidOut(main, dir'[o])
  BY DEF Live, OneFault, DiskOK
<1>2. QED
  BY <1>1, Stops

\* The dialog is offered when no restore is in use.
LEMMA Offers ==
  ASSUME RestoreInv, AtomicInv, OneFault, NEW r \in Procs, OfferRecovery(r), main' = main,
         owner' = owner, owner # "new", outcome = "none", Live' = {},
         main["db"] = Absent => main = NoFiles
  PROVE  OneFault'
<1>1. DiskOK' /\ NewOK'
  BY DEF DiskOK, NewOK
<1>2. CASE r.attempt < MaxAttempts
  <2>1. /\ pc' = "dialog" /\ ~proc'.errors /\ proc'.moved = {} /\ ~proc'.candidateInstalled
        /\ outcome' = "none"
    BY <1>2 DEF OfferRecovery, Procs
  <2>2. FaultPcOK' /\ RefusalsAreExplained'
    BY <2>1 DEF FaultPcOK, RefusalsAreExplained, Restoring, Undoing, RollingBack
  <2>3. QED
    BY <1>1, <2>2 DEF OneFault
<1>3. CASE ~(r.attempt < MaxAttempts)
  <2>1. pc' = "off" /\ outcome' = "quit"
    BY <1>3 DEF OfferRecovery, EndStart
  <2>2. FaultPcOK' /\ RefusalsAreExplained'
    BY <2>1 DEF FaultPcOK, RefusalsAreExplained, Restoring, Undoing, RollingBack
  <2>3. QED
    BY <1>1, <2>2 DEF OneFault
<1>4. QED
  BY <1>2, <1>3

\* A restore that is over lets go of its directory.
LEMMA LetsGo ==
  ASSUME RestoreInv, AtomicInv, OneFault, pc \in Restoring, OfferRecovery(proc), main' = main,
         owner' = owner, NEW e, dir' = [dir EXCEPT ![proc.op] = e], e.state # "live",
         main["db"] = Absent => main = NoFiles
  PROVE  OneFault'
<1>1. /\ owner # "new" /\ Live = {proc.op} /\ proc.op \in Ops /\ outcome = "none"
      /\ dir \in [Ops -> RestoreDirs] /\ proc \in Procs
  BY OnlyOne
<1>2. Live' = {}
  BY <1>1 DEF Live
<1>3. QED
  BY <1>1, <1>2, Offers

\* A step between the points of a start at which no restore is running.
LEMMA Rests ==
  ASSUME RestoreInv, AtomicInv, OneFault, pc' \in {"boundary", "scan", "open"}, main' = main,
         owner' = owner, outcome' = "none", Live' \subseteq Live,
         \A o \in Live' : dir'[o] = dir[o],
         pc' = "scan" => \A o \in Live' \cap proc'.scanned : ParsesJournal(dir[o]),
         owner = "new" /\ pc' = "scan" => \A o \in Live' : o \notin proc'.scanned,
         pc' = "open" => (main["db"] = Absent => main = NoFiles)
  PROVE  OneFault'
<1>1. DiskOK'
  BY DEF OneFault, DiskOK
<1>2. NewOK'
  BY DEF OneFault, NewOK
<1>3. pc' \notin Restoring \cup Undoing \cup RollingBack \cup {"dialog", "create", "stage", "prepare"}
  BY DEF Restoring, Undoing, RollingBack
<1>4. FaultPcOK'
  BY <1>3 DEF FaultPcOK
<1>5. RefusalsAreExplained'
  BY DEF RefusalsAreExplained
<1>6. QED
  BY <1>1, <1>2, <1>4, <1>5 DEF OneFault

-----------------------------------------------------------------------------
(* A start *)

\* A start begins.
LEMMA StartOne == RestoreInv /\ AtomicInv /\ OneFault /\ Start => OneFault'
<1> SUFFICES ASSUME RestoreInv, AtomicInv, OneFault, Start PROVE OneFault'
  OBVIOUS
<1>1. pc' = "boundary" /\ outcome' = "none" /\ main' = main /\ dir' = dir /\ owner' = owner
  BY DEF Start
<1>2. Live' = Live
  BY <1>1 DEF Live
<1>3. QED
  BY <1>1, <1>2, Rests

\* Sidecars without the primary are refused, so that nothing else has to deal with them.
LEMMA PrepareBoundaryOne == RestoreInv /\ AtomicInv /\ OneFault /\ PrepareBoundary => OneFault'
<1> SUFFICES ASSUME RestoreInv, AtomicInv, OneFault, PrepareBoundary PROVE OneFault'
  OBVIOUS
<1>1. pc = "boundary" /\ main' = main /\ dir' = dir /\ owner' = owner /\ outcome = "none"
  BY DEF PrepareBoundary, History, OneFault, FaultPcOK
<1>2. Live' = Live
  BY <1>1 DEF Live
<1>3. CASE main["db"] = Absent /\ main # NoFiles
  <2>1. EndStart("unavailable")
    BY <1>3 DEF PrepareBoundary
  <2>2. RefusalsAreExplained'
    BY <1>1, <1>3 DEF RefusalsAreExplained
  <2>3. QED
    BY <1>1, <2>1, <2>2, Quits
<1>4. CASE ~(main["db"] = Absent /\ main # NoFiles)
  <2>1. Keep(IF proc.reconciled THEN "open" ELSE "scan")
    BY <1>4 DEF PrepareBoundary
  <2>2. pc' \in {"open", "scan"} /\ proc' = proc /\ outcome' = "none"
    BY <1>1, <2>1 DEF Keep
  <2>3. pc' = "scan" => proc'.scanned = {}
    BY <1>1, <2>1, <2>2 DEF Keep, AtomicInv, MorePcOK
  <2>4. QED
    BY <1>1, <1>2, <1>4, <2>2, <2>3, Rests
<1>5. QED
  BY <1>3, <1>4

\* Removing what was discarded touches no restore in use.
LEMMA RemoveDiscardedOne ==
  ASSUME NEW o \in Ops
  PROVE  RestoreInv /\ AtomicInv /\ OneFault /\ RemoveDiscarded(o) => OneFault'
<1> SUFFICES ASSUME RestoreInv, AtomicInv, OneFault, RemoveDiscarded(o) PROVE OneFault'
  OBVIOUS
<1>1. /\ pc = "scan" /\ dir[o].state = "discard" /\ dir' = [dir EXCEPT ![o].state = "gone"]
      /\ main' = main /\ pc' = pc /\ proc' = proc /\ outcome' = outcome /\ owner' = owner
  BY DEF RemoveDiscarded, History
<1>2. dir \in [Ops -> RestoreDirs]
  BY DEF RestoreInv, Typed
<1>3. dir'[o].state = "gone" /\ \A p \in Ops : p # o => dir'[p] = dir[p]
  BY <1>1, <1>2 DEF RestoreDirs
<1>4. Live' = Live /\ \A p \in Live' : dir'[p] = dir[p]
  BY <1>1, <1>3 DEF Live
<1>5. outcome' = "none"
  BY <1>1 DEF OneFault, FaultPcOK
<1>6. /\ \A p \in Live' \cap proc'.scanned : ParsesJournal(dir[p])
      /\ owner = "new" => \A p \in Live' : p \notin proc'.scanned
  BY <1>1, <1>4 DEF OneFault, FaultPcOK, NewOK
<1>7. QED
  BY <1>1, <1>4, <1>5, <1>6, Rests

\* The files agree with the end of every journal that can be read, except with that of a
\* completed restore when they have changed since.
LEMMA TerminalAgrees ==
  ASSUME RestoreInv, AtomicInv, OneFault, NEW o \in Live, ParsesJournal(dir[o]),
         LastPhase(dir[o]) \in TerminalPhases
  PROVE  \/ TerminalStateHolds(dir[o])
         \/ LastPhase(dir[o]) = "completed" /\ main # dir[o].installed
<1> DEFINE d == dir[o]
<1>1. d \in RestoreDirs /\ main \in [Files -> Bytes] /\ LayoutOf(LastPhase(d), main, d)
  BY DEF RestoreInv, Typed, Live, OneFault, DiskOK, LaidOut
<1>2. CASE LastPhase(d) = "completed"
  <2>1. \A f \in Present(d.prior) : d.quar[f] = d.prior[f]
    BY <1>1, <1>2 DEF LayoutOf, AllKept, Present
  <2>2. QED
    BY <1>2, <2>1 DEF TerminalStateHolds
<1>3. CASE LastPhase(d) \in {"prepared", "rolled-back"}
  <2>1. \A f \in Files : main[f] = d.prior[f] /\ d.quar[f] = Absent
    BY <1>1, <1>3 DEF LayoutOf, AllInPlace, InPlace
  <2>2. main = d.prior
    BY <1>1, <2>1, DirFields
  <2>3. \A f \in Present(d.prior) : main[f] = d.prior[f] /\ d.quar[f] = Absent
    BY <2>1 DEF Present
  <2>4. QED
    BY <1>3, <2>2, <2>3 DEF TerminalStateHolds
<1>4. QED
  BY <1>2, <1>3 DEF TerminalPhases

\* A directory is discarded.
LEMMA DiscardGone ==
  ASSUME RestoreInv, NEW o \in Ops, Discard(o)
  PROVE  Live' = Live \ {o} /\ dir'[o].state = "discard" /\ \A p \in Live' : dir'[p] = dir[p]
<1>1. dir \in [Ops -> RestoreDirs]
  BY DEF RestoreInv, Typed
<1>2. dir'[o].state = "discard" /\ \A p \in Ops : p # o => dir'[p] = dir[p]
  BY <1>1 DEF Discard, RestoreDirs
<1>3. QED
  BY <1>2 DEF Live

\* The scan discards what is over, and refuses a start only for the reasons named.
LEMMA ScanDirectoryOne ==
  ASSUME NEW o \in Ops
  PROVE  RestoreInv /\ AtomicInv /\ OneFault /\ ScanDirectory(o) => OneFault'
<1> SUFFICES ASSUME RestoreInv, AtomicInv, OneFault, ScanDirectory(o) PROVE OneFault'
  OBVIOUS
<1> DEFINE d == dir[o]
           terminal == LastPhase(d) \in TerminalPhases
           refused == ~ParsesJournal(d) \/ (terminal /\ ~TerminalStateHolds(d))
           becomesNew == /\ dir'[o].state = "discard" /\ d.tail # "nofile"
                         /\ LastPhase(d) = "completed" /\ owner \in {"old", "lost"}
<1>1. /\ pc = "scan" /\ o \in Live \ proc.scanned /\ main' = main
      /\ owner' = IF becomesNew THEN "new" ELSE owner
  BY DEF ScanDirectory
<1>2. /\ d \in RestoreDirs /\ d.state = "live" /\ LaidOut(main, d) /\ outcome = "none"
      /\ main \in [Files -> Bytes] /\ proc \in Procs
  BY <1>1 DEF RestoreInv, Typed, Live, OneFault, DiskOK, FaultPcOK
<1>3. /\ \A p \in Live \cap proc.scanned : ParsesJournal(dir[p])
      /\ owner = "new" => \A p \in Live : Sealed(dir[p]) /\ p \notin proc.scanned
      /\ \A p \in Live : p = o
  BY <1>1 DEF OneFault, FaultPcOK, NewOK, DiskOK
<1>4. CASE d.tail = "nofile"
  <2>1. Discard(o) /\ Keep("scan")
    BY <1>4 DEF ScanDirectory
  <2>2. Live' \subseteq Live /\ \A p \in Live' : dir'[p] = dir[p]
    BY <2>1, DiscardGone
  <2>3. pc' = "scan" /\ proc' = proc /\ outcome' = "none" /\ owner' = owner
    BY <1>1, <1>2, <1>4, <2>1 DEF Keep
  <2>4. QED
    BY <1>1, <1>3, <2>2, <2>3, Rests
<1>5. CASE d.tail # "nofile" /\ refused
  <2>1. EndStart("unavailable") /\ dir' = dir
    BY <1>5 DEF ScanDirectory
  <2>2. owner' = owner
    BY <1>1, <1>2, <2>1
  <2>3. ParsesJournal(d) => LastPhase(d) = "completed" /\ main # d.installed
    BY <1>1, <1>5, TerminalAgrees
  <2>4. RefusalsAreExplained'
    <3>1. o \in Live' /\ dir'[o] = d /\ main' = main
      BY <1>1, <2>1 DEF Live
    <3>2. QED
      BY <1>5, <2>3, <3>1 DEF RefusalsAreExplained, ParsesJournal, LastPhase
  <2>5. QED
    BY <1>1, <2>1, <2>2, <2>4, Quits
<1>6. CASE d.tail # "nofile" /\ ~refused /\ terminal
  <2>1. Discard(o) /\ Keep("scan")
    BY <1>6 DEF ScanDirectory
  <2>2. /\ Live' \subseteq Live /\ dir'[o].state = "discard" /\ Live' = {}
        /\ \A p \in Live' : dir'[p] = dir[p]
    BY <1>3, <2>1, DiscardGone
  <2>3. pc' = "scan" /\ proc' = proc /\ outcome' = "none"
    BY <1>2, <2>1 DEF Keep
  <2>4. CASE owner' = owner
    BY <1>1, <2>2, <2>3, <2>4, Rests
  <2>5. CASE becomesNew
    <3>1. main["db"] = "audited"
      BY <1>2, <1>6, <2>5 DEF LaidOut, LayoutOf, TerminalStateHolds
    <3>2. DiskOK' /\ NewOK'
      BY <1>1, <2>2, <2>3, <3>1 DEF DiskOK, NewOK
    <3>3. FaultPcOK' /\ RefusalsAreExplained'
      BY <2>2, <2>3 DEF FaultPcOK, RefusalsAreExplained, Restoring, Undoing, RollingBack
    <3>4. QED
      BY <3>2, <3>3 DEF OneFault
  <2>6. QED
    BY <1>1, <2>4, <2>5
<1>7. CASE d.tail # "nofile" /\ ~refused /\ ~terminal
  <2>1. /\ proc' = [proc EXCEPT !.scanned = @ \cup {o}] /\ dir' = dir /\ pc' = pc
        /\ outcome' = outcome
    BY <1>7 DEF ScanDirectory
  <2>2. proc'.scanned = proc.scanned \cup {o} /\ Live' = Live /\ owner' = owner
    BY <1>1, <1>2, <2>1 DEF Procs, Live
  <2>3. owner # "new"
    BY <1>1, <1>3, <1>7 DEF Sealed, TerminalPhases
  <2>4. QED
    BY <1>1, <1>2, <1>3, <1>7, <2>1, <2>2, <2>3, Rests
<1>8. QED
  BY <1>4, <1>5, <1>6, <1>7

\* Never are two restores in use when the scan ends; the one that is can be read.
LEMMA ScanEndsOne == RestoreInv /\ AtomicInv /\ OneFault /\ ScanEnds => OneFault'
<1> SUFFICES ASSUME RestoreInv, AtomicInv, OneFault, ScanEnds PROVE OneFault'
  OBVIOUS
<1>1. /\ pc = "scan" /\ Live \subseteq proc.scanned /\ main' = main /\ dir' = dir
      /\ owner' = owner /\ outcome = "none" /\ proc \in Procs
  BY DEF ScanEnds, History, OneFault, FaultPcOK, RestoreInv, Typed
<1>2. Live' = Live
  BY <1>1 DEF Live
<1>3. ~(Cardinality(Live) > 1)
  <2>1. \A o, p \in Live : o = p
    BY DEF OneFault, DiskOK
  <2>2. CASE Live = {}
    <3>1. Cardinality({}) = 0
      BY FS_EmptySet
    <3>2. QED
      BY <2>2, <3>1
  <2>3. CASE Live # {}
    <3>1. PICK o : o \in Live
      BY <2>3
    <3>2. Live = {o}
      BY <2>1, <3>1
    <3>3. Cardinality({o}) = 1
      BY FS_Singleton
    <3>4. QED
      BY <3>2, <3>3
  <2>4. QED
    BY <2>2, <2>3
<1>4. CASE Live = {} /\ pc' = "boundary" /\ outcome' = outcome
  BY <1>1, <1>2, <1>4, Rests
<1>5. ASSUME NEW o \in Live, Live = {o}, pc' = "undo-record", outcome' = outcome,
             proc' = [proc EXCEPT !.op = o, !.phase = LastPhase(dir[o])]
      PROVE  OneFault'
  <2>1. proc'.op = o /\ proc'.phase = LastPhase(dir[o])
    BY <1>1, <1>5 DEF Procs
  <2>2. ParsesJournal(dir[o]) /\ owner # "new"
    BY <1>1, <1>5 DEF OneFault, FaultPcOK, NewOK
  <2>3. DiskOK' /\ NewOK'
    BY <1>1, <1>2, <2>2 DEF OneFault, DiskOK, NewOK
  <2>4. UndoPointOK(pc', main', proc', dir'[proc'.op])
    BY <1>1, <1>5, <2>1, <2>2 DEF UndoPointOK
  <2>5. FaultPcOK'
    BY <1>1, <1>5, <2>4 DEF FaultPcOK, Restoring, RollingBack
  <2>6. RefusalsAreExplained'
    BY <1>1, <1>5 DEF RefusalsAreExplained
  <2>7. QED
    BY <2>3, <2>5, <2>6 DEF OneFault
<1>6. QED
  BY <1>3, <1>4, <1>5 DEF ScanEnds

-----------------------------------------------------------------------------
(* The undo of an interrupted restore *)

\* The directory an undo works on, and what is known of it.
LEMMA UndoKnows ==
  ASSUME OneFault, pc \in Undoing
  PROVE  UndoPointOK(pc, main, proc, dir[proc.op])
  BY DEF OneFault, FaultPcOK

\* A refusal is explained by a journal that cannot be read.
LEMMA UnreadableExplains ==
  ASSUME RestoreInv, AtomicInv, OneFault, pc \in Undoing, ~ParsesJournal(dir[proc.op]),
         main' = main, dir' = dir
  PROVE  RefusalsAreExplained'
<1>1. proc.op \in Live /\ dirOK(dir[proc.op]) /\ dir[proc.op].journal # <<>>
  BY WorkingOp, UndoingOp
<1>2. proc.op \in Live'
  BY <1>1 DEF Live
<1>3. dir[proc.op].tail # "nofile"
  BY <1>1 DEF dirOK
<1>4. QED
  BY <1>2, <1>3 DEF RefusalsAreExplained, ParsesJournal

\* What a restore had done is known when its undo is recorded.
LEMMA UndoRecordOne == RestoreInv /\ AtomicInv /\ OneFault /\ UndoRecord => OneFault'
<1> SUFFICES ASSUME RestoreInv, AtomicInv, OneFault, UndoRecord PROVE OneFault'
  OBVIOUS
<1> DEFINE d == dir[proc.op]
           a == Appended(d, "rolling-back")
           td == IF proc.phase = "quarantining" THEN {} ELSE Files
<1>1. /\ pc = "undo-record" /\ pc' = "undo-preserve" /\ main' = main /\ owner' = owner
      /\ outcome' = outcome /\ proc' = [proc EXCEPT !.todo = td]
      /\ dir' = IF proc.phase = "rolling-back" THEN dir ELSE [dir EXCEPT ![proc.op] = a]
  BY DEF UndoRecord, History
<1>2. pc \in Undoing /\ pc' \in Undoing /\ pc' \notin Restoring \cup RollingBack
  BY <1>1 DEF Undoing, Restoring, RollingBack
<1>3. /\ d \in RestoreDirs /\ d.state = "live" /\ d.journal # <<>> /\ LaidOut(main, d)
      /\ proc \in Procs /\ Stuck(d)
  BY <1>1, <1>2, OnlyOne, UndoingOp, StuckNow DEF StuckPoints
<1>4. proc'.op = proc.op /\ proc'.phase = proc.phase /\ proc'.todo = td
  BY <1>1, <1>3 DEF Procs
<1>5. ParsesJournal(d) /\ proc.phase = LastPhase(d)
  BY <1>1, <1>2, UndoKnows DEF UndoPointOK
<1>6. proc.phase \in {"quarantining", "quarantined", "installed", "rolling-back"}
  <2>1. LastPhase(d) \notin TerminalPhases
    BY <1>3, <1>5 DEF Stuck
  <2>2. LastPhase(d) \in Phases
    BY <1>3, <1>5, ReadableLast
  <2>3. QED
    BY <1>5, <2>1, <2>2 DEF Phases, TerminalPhases
<1>7. LayoutOf(proc.phase, main, d)
  BY <1>3, <1>5 DEF LaidOut
<1>8. ASSUME NEW e, e.prior = d.prior, e.quar = d.quar, e.failed = d.failed,
             e.installed = d.installed, At(e, "rolling-back")
      PROVE  UndoPointOK(pc', main', proc', e)
  <2>1. proc.phase \in {"quarantined", "installed"} => AllKept(e)
    BY <1>7, <1>8, SameLayout DEF LayoutOf
  <2>2. \A f \in Files \ td : InPlace(main, e, f) \/ Aside(main, e, f)
    BY <1>7, <1>8, SameLayout DEF LayoutOf
  <2>3. QED
    BY <1>1, <1>4, <1>6, <1>8, <2>1, <2>2 DEF UndoPointOK, At
<1>9. CASE proc.phase = "rolling-back"
  <2>1. UndoPointOK(pc', main, proc', d)
    BY <1>1, <1>5, <1>8, <1>9 DEF At
  <2>2. QED
    BY <1>1, <1>2, <1>4, <1>9, <2>1, Proceeds DEF Undoing
<1>10. CASE proc.phase # "rolling-back"
  <2>1. a \in FailedAppends(d, "rolling-back") /\ "rolling-back" \in Phases
    BY DEF FailedAppends, Phases
  <2>2. /\ a.state = "live" /\ a.prior = d.prior /\ a.quar = d.quar /\ a.failed = d.failed
        /\ a.installed = d.installed
    BY <1>3, <2>1, AppendRest
  <2>3. LaidOut(main, a) /\ At(a, "rolling-back")
    BY <1>3, RollingBackLayout
  <2>4. UndoPointOK(pc', main', proc', a)
    BY <1>8, <2>2, <2>3
  <2>5. dir' = [dir EXCEPT ![proc.op] = a]
    BY <1>1, <1>10
  <2> HIDE DEF a
  <2>6. QED
    BY <1>1, <1>2, <1>4, <2>2, <2>3, <2>4, <2>5, Continues DEF Undoing
<1>11. QED
  BY <1>9, <1>10

\* A file is moved into one of the two parts of a restore directory.
LEMMA MovesInto ==
  ASSUME NEW d \in RestoreDirs, dir \in [Ops -> RestoreDirs], main \in [Files -> Bytes],
         NEW o \in Ops, dir[o] = d, NEW f \in Files, NEW part \in {"quar", "failed"},
         IntoDir(o, part, f)
  PROVE  /\ main'[f] = Absent /\ \A g \in Files : g # f => main'[g] = main[g]
         /\ dir' = [dir EXCEPT ![o] = dir'[o]] /\ dir'[o].state = d.state
         /\ dir'[o].journal = d.journal /\ dir'[o].prior = d.prior
         /\ dir'[o].installed = d.installed
         /\ part = "failed" => dir'[o].quar = d.quar /\ dir'[o].failed[f] = main[f]
         /\ part = "failed" => \A g \in Files : g # f => dir'[o].failed[g] = d.failed[g]
         /\ part = "quar" => dir'[o].failed = d.failed /\ dir'[o].quar[f] = main[f]
         /\ part = "quar" => \A g \in Files : g # f => dir'[o].quar[g] = d.quar[g]
<1> DEFINE e == [d EXCEPT ![part] = [d[part] EXCEPT ![f] = main[f]]]
<1>1. main' = [main EXCEPT ![f] = Absent] /\ dir' = [dir EXCEPT ![o] = e]
  BY DEF IntoDir
<1>2. main'[f] = Absent /\ \A g \in Files : g # f => main'[g] = main[g]
  BY <1>1
<1>3. dir'[o] = e /\ dir' = [dir EXCEPT ![o] = dir'[o]]
  BY <1>1
<1>4. CASE part = "failed"
  <2>1. e = [d EXCEPT !.failed = [d.failed EXCEPT ![f] = main[f]]]
    BY <1>4
  <2>2. QED
    BY <1>2, <1>3, <1>4, <2>1 DEF RestoreDirs
<1>5. CASE part = "quar"
  <2>1. e = [d EXCEPT !.quar = [d.quar EXCEPT ![f] = main[f]]]
    BY <1>5
  <2>2. QED
    BY <1>2, <1>3, <1>5, <2>1 DEF RestoreDirs
<1>6. QED
  BY <1>4, <1>5

\* A file is moved back.
LEMMA MovesBack ==
  ASSUME NEW d \in RestoreDirs, dir \in [Ops -> RestoreDirs], main \in [Files -> Bytes],
         NEW o \in Ops, dir[o] = d, NEW f \in Files, BackToMain(o, f)
  PROVE  /\ main'[f] = d.quar[f] /\ \A g \in Files : g # f => main'[g] = main[g]
         /\ dir' = [dir EXCEPT ![o] = dir'[o]] /\ dir'[o].state = d.state
         /\ dir'[o].journal = d.journal /\ dir'[o].prior = d.prior
         /\ dir'[o].installed = d.installed /\ dir'[o].failed = d.failed
         /\ dir'[o].quar[f] = Absent /\ \A g \in Files : g # f => dir'[o].quar[g] = d.quar[g]
<1> DEFINE e == [d EXCEPT !.quar = [d.quar EXCEPT ![f] = Absent]]
<1>1. main' = [main EXCEPT ![f] = d.quar[f]] /\ dir' = [dir EXCEPT ![o] = e]
  BY DEF BackToMain
<1>2. main'[f] = d.quar[f] /\ \A g \in Files : g # f => main'[g] = main[g]
  BY <1>1
<1>3. dir'[o] = e /\ dir' = [dir EXCEPT ![o] = dir'[o]]
  BY <1>1
<1>4. QED
  BY <1>2, <1>3 DEF RestoreDirs

\* The layout of an undo is kept by taking a file out of the way and by putting one back.
LEMMA UndoLayout ==
  ASSUME NEW m, NEW q, NEW d, NEW e, NEW f \in Files, LaidOut(m, d), At(d, "rolling-back"),
         e.journal = d.journal, e.prior = d.prior,
         \A g \in Files : g # f =>
           q[g] = m[g] /\ e.quar[g] = d.quar[g] /\ e.failed[g] = d.failed[g],
         ParsesJournal(d) => InPlace(q, e, f) \/ Aside(q, e, f)
  PROVE  LaidOut(q, e)
<1>1. SUFFICES ASSUME ParsesJournal(e) PROVE LayoutOf(LastPhase(e), q, e)
  BY DEF LaidOut
<1>2. ParsesJournal(d) /\ LastPhase(e) = "rolling-back" /\ LastPhase(d) = "rolling-back"
  BY <1>1 DEF ParsesJournal, LastPhase, At
<1>3. \A g \in Files : \/ InPlace(m, d, g)
                       \/ d.quar[g] = d.prior[g] /\ (m[g] # Absent => d.failed[g] = Absent)
  BY <1>2 DEF LaidOut, LayoutOf
<1>4. \A g \in Files : \/ InPlace(q, e, g)
                       \/ e.quar[g] = e.prior[g] /\ (q[g] # Absent => e.failed[g] = Absent)
  BY <1>2, <1>3 DEF InPlace, Aside
<1>5. QED
  BY <1>2, <1>4 DEF LayoutOf

\* The undo of a restore whose journal can be read is not refused.
LEMMA UndoPreserveOne == RestoreInv /\ AtomicInv /\ OneFault /\ UndoPreserve => OneFault'
<1> SUFFICES ASSUME RestoreInv, AtomicInv, OneFault, UndoPreserve PROVE OneFault'
  OBVIOUS
<1> DEFINE o == proc.op
           d == dir[o]
           f == PrimaryFirst(proc.todo)
           restored == d.prior[f] # Absent /\ d.quar[f] = Absent
<1>1. pc = "undo-preserve" /\ proc.todo # {} /\ owner' = owner
  BY DEF UndoPreserve, History
<1>2. pc \in Undoing /\ pc \notin Restoring \cup RollingBack /\ pc \notin {"stage", "prepare"}
  BY <1>1 DEF Undoing, Restoring, RollingBack
<1>3. /\ o \in Ops /\ d \in RestoreDirs /\ d.state = "live" /\ LaidOut(main, d)
      /\ main \in [Files -> Bytes] /\ dir \in [Ops -> RestoreDirs] /\ proc \in Procs
      /\ proc.todo \subseteq Files
  BY <1>2, OnlyOne
<1>4. f \in Files
  BY <1>1, <1>3, NextFile
<1>5. ParsesJournal(d) =>
        /\ LastPhase(d) = "rolling-back"
        /\ proc.phase \in {"quarantining", "quarantined", "installed", "rolling-back"}
        /\ proc.phase = "quarantining" => proc.todo = {}
        /\ proc.phase \in {"quarantined", "installed"} => AllKept(d)
        /\ \A g \in Files \ proc.todo : InPlace(main, d, g) \/ Aside(main, d, g)
        /\ \/ InPlace(main, d, f)
           \/ d.quar[f] = d.prior[f] /\ (main[f] # Absent => d.failed[f] = Absent)
  BY <1>1, <1>2, <1>3, <1>4, UndoKnows DEF UndoPointOK, LaidOut, LayoutOf
<1>6. \/ /\ main[f] # Absent
         /\ (restored /\ proc.phase # "rolling-back") \/ (~restored /\ d.failed[f] # Absent)
         /\ EndStart("unavailable") /\ main' = main /\ dir' = dir
      \/ /\ main[f] = Absent \/ (restored /\ proc.phase = "rolling-back")
         /\ Next1(proc) /\ main' = main /\ dir' = dir /\ pc' = pc /\ outcome' = outcome
      \/ /\ main[f] # Absent /\ ~restored
         /\ IntoDir(o, "failed", f) /\ Next1(proc) /\ pc' = pc /\ outcome' = outcome
  BY DEF UndoPreserve
<1> HIDE DEF f
<1>7. ASSUME Next1(proc), f = PrimaryFirst(proc.todo)
      PROVE  proc'.op = o /\ proc'.phase = proc.phase /\ proc'.todo = proc.todo \ {f}
  BY <1>3, <1>7 DEF Next1, Procs
<1>8. f = PrimaryFirst(proc.todo)
  BY DEF f
<1>9. CASE /\ main[f] # Absent
           /\ (restored /\ proc.phase # "rolling-back") \/ (~restored /\ d.failed[f] # Absent)
           /\ EndStart("unavailable") /\ main' = main /\ dir' = dir
  <2>1. ~ParsesJournal(d)
    BY <1>1, <1>4, <1>5, <1>9 DEF InPlace, AllKept
  <2>2. RefusalsAreExplained'
    BY <1>2, <1>9, <2>1, UnreadableExplains
  <2>3. QED
    BY <1>1, <1>9, <2>2, Quits
<1>10. CASE /\ main[f] = Absent \/ (restored /\ proc.phase = "rolling-back")
            /\ Next1(proc) /\ main' = main /\ dir' = dir /\ pc' = pc /\ outcome' = outcome
  <2>1. ParsesJournal(d) => InPlace(main, d, f) \/ Aside(main, d, f)
    BY <1>5, <1>10 DEF InPlace, Aside
  <2>2. UndoPointOK(pc', main, proc', d)
    BY <1>1, <1>5, <1>7, <1>8, <1>10, <2>1 DEF UndoPointOK
  <2>3. QED
    BY <1>1, <1>2, <1>7, <1>8, <1>10, <2>2, Proceeds
<1>11. CASE /\ main[f] # Absent /\ ~restored
            /\ IntoDir(o, "failed", f) /\ Next1(proc) /\ pc' = pc /\ outcome' = outcome
  <2> DEFINE e == dir'[o]
  <2>1. /\ main'[f] = Absent /\ \A g \in Files : g # f => main'[g] = main[g]
        /\ dir' = [dir EXCEPT ![o] = e] /\ e.state = d.state /\ e.journal = d.journal
        /\ e.prior = d.prior /\ e.quar = d.quar
        /\ \A g \in Files : g # f => e.failed[g] = d.failed[g]
    BY <1>3, <1>4, <1>11, MovesInto
  <2>2. ParsesJournal(d) => Aside(main', e, f)
    BY <1>5, <1>11, <2>1 DEF Aside, InPlace
  <2>3. LaidOut(main', e)
    BY <1>3, <1>4, <1>5, <2>1, <2>2, UndoLayout DEF At
  <2>4. ParsesJournal(e) => ParsesJournal(d) /\ LastPhase(e) = LastPhase(d)
    BY <2>1 DEF ParsesJournal, LastPhase
  <2>5. ParsesJournal(d) => \A g \in Files \ proc'.todo : InPlace(main', e, g) \/ Aside(main', e, g)
    BY <1>5, <1>7, <1>8, <1>11, <2>1, <2>2 DEF InPlace, Aside
  <2>6. AllKept(d) => AllKept(e)
    BY <2>1 DEF AllKept
  <2>7. UndoPointOK(pc', main', proc', e)
    BY <1>1, <1>5, <1>7, <1>8, <1>11, <2>4, <2>5, <2>6 DEF UndoPointOK
  <2>8. QED
    BY <1>1, <1>2, <1>3, <1>7, <1>8, <1>11, <2>1, <2>3, <2>7, Continues
<1>12. QED
  BY <1>6, <1>9, <1>10, <1>11

\* Every file is in place or in quarantine when the prior files are put back.
LEMMA UndoPreservedOne == RestoreInv /\ AtomicInv /\ OneFault /\ UndoPreserved => OneFault'
<1> SUFFICES ASSUME RestoreInv, AtomicInv, OneFault, UndoPreserved PROVE OneFault'
  OBVIOUS
<1> DEFINE d == dir[proc.op]
<1>1. /\ pc = "undo-preserve" /\ proc.todo = {} /\ pc' = "undo-restore" /\ main' = main
      /\ dir' = dir /\ outcome' = outcome /\ owner' = owner
      /\ proc' = [proc EXCEPT !.todo = Present(d.prior)]
  BY DEF UndoPreserved, History
<1>2. pc \in Undoing /\ pc' \in Undoing /\ pc' \notin Restoring \cup RollingBack \cup {"stage", "prepare"}
  BY <1>1 DEF Undoing, Restoring, RollingBack
<1>3. proc \in Procs
  BY <1>2, OnlyOne
<1>4. proc'.op = proc.op /\ proc'.todo = Present(d.prior)
  BY <1>1, <1>3 DEF Procs
<1>5. ParsesJournal(d) =>
        /\ LastPhase(d) = "rolling-back"
        /\ \A f \in Files : InPlace(main, d, f) \/ Aside(main, d, f)
  BY <1>1, <1>2, UndoKnows DEF UndoPointOK
<1>6. \A f \in Files \ Present(d.prior) : Aside(main, d, f) => InPlace(main, d, f)
  BY DEF Present, Aside, InPlace
<1>7. UndoPointOK(pc', main, proc', d)
  BY <1>1, <1>4, <1>5, <1>6 DEF UndoPointOK
<1>8. QED
  BY <1>1, <1>2, <1>4, <1>7, Proceeds

\* A file that is in quarantine finds its place free.
LEMMA UndoRestoreOne == RestoreInv /\ AtomicInv /\ OneFault /\ UndoRestore => OneFault'
<1> SUFFICES ASSUME RestoreInv, AtomicInv, OneFault, UndoRestore PROVE OneFault'
  OBVIOUS
<1> DEFINE o == proc.op
           d == dir[o]
           f == PrimaryFirst(proc.todo)
           refused == IF d.quar[f] # Absent THEN d.quar[f] # d.prior[f] \/ main[f] # Absent
                      ELSE main[f] # d.prior[f]
<1>1. pc = "undo-restore" /\ proc.todo # {} /\ owner' = owner
  BY DEF UndoRestore, History
<1>2. pc \in Undoing /\ pc \notin Restoring \cup RollingBack /\ pc \notin {"stage", "prepare"}
  BY <1>1 DEF Undoing, Restoring, RollingBack
<1>3. /\ o \in Ops /\ d \in RestoreDirs /\ d.state = "live" /\ LaidOut(main, d)
      /\ main \in [Files -> Bytes] /\ dir \in [Ops -> RestoreDirs] /\ proc \in Procs
      /\ proc.todo \subseteq Files
  BY <1>2, OnlyOne
<1>4. f \in Files
  BY <1>1, <1>3, NextFile
<1>5. ParsesJournal(d) =>
        /\ LastPhase(d) = "rolling-back"
        /\ \A g \in Files : InPlace(main, d, g) \/ (g \in proc.todo /\ Aside(main, d, g))
  BY <1>1, <1>2, UndoKnows DEF UndoPointOK
<1>6. \/ refused /\ EndStart("unavailable") /\ main' = main /\ dir' = dir
      \/ /\ d.quar[f] = d.prior[f] /\ main[f] = Absent /\ BackToMain(o, f)
         /\ Next1(proc) /\ pc' = pc /\ outcome' = outcome
      \/ /\ d.quar[f] = Absent /\ main[f] = d.prior[f]
         /\ Next1(proc) /\ main' = main /\ dir' = dir /\ pc' = pc /\ outcome' = outcome
  BY DEF UndoRestore
<1>7. ASSUME Next1(proc) PROVE proc'.op = o /\ proc'.todo = proc.todo \ {f}
  BY <1>3, <1>7 DEF Next1, Procs
<1> HIDE DEF f
<1>8. CASE refused /\ EndStart("unavailable") /\ main' = main /\ dir' = dir
  <2>1. ~ParsesJournal(d)
    BY <1>4, <1>5, <1>8 DEF InPlace, Aside
  <2>2. RefusalsAreExplained'
    BY <1>2, <1>8, <2>1, UnreadableExplains
  <2>3. QED
    BY <1>1, <1>8, <2>2, Quits
<1>9. CASE /\ d.quar[f] = d.prior[f] /\ main[f] = Absent /\ BackToMain(o, f)
           /\ Next1(proc) /\ pc' = pc /\ outcome' = outcome
  <2> DEFINE e == dir'[o]
  <2>1. /\ main'[f] = d.quar[f] /\ \A g \in Files : g # f => main'[g] = main[g]
        /\ dir' = [dir EXCEPT ![o] = e] /\ e.state = d.state /\ e.journal = d.journal
        /\ e.prior = d.prior /\ e.failed = d.failed
        /\ e.quar[f] = Absent /\ \A g \in Files : g # f => e.quar[g] = d.quar[g]
    BY <1>3, <1>4, <1>9, MovesBack
  <2>2. InPlace(main', e, f)
    BY <1>9, <2>1 DEF InPlace
  <2>3. LaidOut(main', e)
    BY <1>3, <1>4, <1>5, <2>1, <2>2, UndoLayout DEF At
  <2>4. ParsesJournal(e) => ParsesJournal(d) /\ LastPhase(e) = LastPhase(d)
    BY <2>1 DEF ParsesJournal, LastPhase
  <2>5. ParsesJournal(d) =>
          \A g \in Files : InPlace(main', e, g) \/ (g \in proc'.todo /\ Aside(main', e, g))
    BY <1>5, <1>7, <1>9, <2>1, <2>2 DEF InPlace, Aside
  <2>6. UndoPointOK(pc', main', proc', e)
    BY <1>1, <1>5, <1>9, <2>4, <2>5 DEF UndoPointOK
  <2>7. QED
    BY <1>1, <1>2, <1>3, <1>7, <1>9, <2>1, <2>3, <2>6, Continues
<1>10. CASE /\ d.quar[f] = Absent /\ main[f] = d.prior[f]
            /\ Next1(proc) /\ main' = main /\ dir' = dir /\ pc' = pc /\ outcome' = outcome
  <2>1. InPlace(main, d, f)
    BY <1>10 DEF InPlace
  <2>2. UndoPointOK(pc', main, proc', d)
    BY <1>1, <1>5, <1>7, <1>10, <2>1 DEF UndoPointOK
  <2>3. QED
    BY <1>1, <1>2, <1>7, <1>10, <2>2, Proceeds
<1>11. QED
  BY <1>6, <1>8, <1>9, <1>10

\* An undo that has put every file back is recorded as rolled back.
LEMMA UndoFinishOne == RestoreInv /\ AtomicInv /\ OneFault /\ UndoFinish => OneFault'
<1> SUFFICES ASSUME RestoreInv, AtomicInv, OneFault, UndoFinish PROVE OneFault'
  OBVIOUS
<1> DEFINE o == proc.op
           d == dir[o]
           a == Appended(d, "rolled-back")
           refused == d.prior = NoFiles /\ main # NoFiles
<1>1. /\ pc = "undo-restore" /\ proc.todo = {} /\ main' = main /\ owner' = owner
      /\ \/ refused /\ EndStart("unavailable") /\ dir' = dir
         \/ dir' = [dir EXCEPT ![o] = a] /\ Keep("undo-discard")
  BY DEF UndoFinish, History
<1>2. pc \in Undoing
  BY <1>1 DEF Undoing
<1>3. /\ o \in Ops /\ d \in RestoreDirs /\ d.state = "live" /\ d.journal # <<>>
      /\ main \in [Files -> Bytes] /\ dir \in [Ops -> RestoreDirs]
  BY <1>2, OnlyOne, UndoingOp
<1>4. ParsesJournal(d) => AllInPlace(main, d)
  BY <1>1, <1>2, UndoKnows DEF UndoPointOK, AllInPlace
<1>5. CASE refused /\ EndStart("unavailable") /\ dir' = dir
  <2>1. AllInPlace(main, d) => main = d.prior
    BY <1>3, DirFields DEF AllInPlace, InPlace
  <2>2. ~ParsesJournal(d)
    BY <1>4, <1>5, <2>1
  <2>3. RefusalsAreExplained'
    BY <1>1, <1>2, <1>5, <2>2, UnreadableExplains
  <2>4. QED
    BY <1>1, <1>5, <2>3, Quits
<1>6. CASE dir' = [dir EXCEPT ![o] = a] /\ Keep("undo-discard")
  <2>1. "rolled-back" \in Phases /\ a \in FailedAppends(d, "rolled-back")
    BY DEF Phases, FailedAppends
  <2>2. a.state = "live"
    BY <1>3, <2>1, AppendRest
  <2>3. LaidOut(main, a)
    BY <1>3, <1>4, <2>1, NextLayout DEF LayoutOf
  <2>4. /\ pc' = "undo-discard" /\ proc' = proc /\ outcome' = outcome
        /\ pc' \in Undoing /\ pc' \notin Restoring \cup RollingBack \cup {"stage", "prepare"}
    BY <1>6 DEF Keep, Undoing, Restoring, RollingBack
  <2>5. UndoPointOK(pc', main', proc', a)
    BY <2>4 DEF UndoPointOK
  <2> HIDE DEF a
  <2>6. QED
    BY <1>1, <1>2, <1>6, <2>2, <2>3, <2>4, <2>5, Continues
<1>7. QED
  BY <1>1, <1>5, <1>6

\* Then its directory is discarded, and the scan goes on.
LEMMA UndoDiscardOne == RestoreInv /\ AtomicInv /\ OneFault /\ UndoDiscard => OneFault'
<1> SUFFICES ASSUME RestoreInv, AtomicInv, OneFault, UndoDiscard PROVE OneFault'
  OBVIOUS
<1>1. /\ pc = "undo-discard" /\ Discard(proc.op) /\ pc' = "scan" /\ proc' = proc
      /\ outcome' = outcome /\ main' = main /\ owner' = owner
  BY DEF UndoDiscard, History, Keep
<1>2. Live = {proc.op} /\ proc.op \in Ops /\ outcome = "none"
  BY <1>1, OnlyOne DEF Undoing
<1>3. Live' = {}
  BY <1>1, <1>2, DiscardGone
<1>4. QED
  BY <1>1, <1>2, <1>3, Rests

-----------------------------------------------------------------------------
(* A restore *)

\* What is known of the restore that is running.
LEMMA RestoreKnows ==
  ASSUME OneFault, pc \in Restoring
  PROVE  RestorePointOK(pc, main, proc, dir[proc.op])
  BY DEF OneFault, FaultPcOK

\* What a rollback begins with.
Undoable(m, r, d) ==
  /\ ~r.errors
  /\ IF r.candidateInstalled THEN AllKept(d) /\ r.moved = Present(d.prior)
     ELSE Split(m, d, r.moved)

\* The first fault of a restore that moves files begins its rollback.
LEMMA Fails ==
  ASSUME RestoreInv, AtomicInv, OneFault, faults' <= 1, Fault, pc \in Restoring,
         pc' = "rb-record", owner' = owner, outcome' = outcome, proc'.op = proc.op,
         NEW e, dir' = [dir EXCEPT ![proc.op] = e], e.state = "live", LaidOut(main', e),
         Undoable(main', proc', e)
  PROVE  OneFault'
<1>1. faults \in Nat /\ MaxFaults \in Nat
  BY RestoreAssumption DEF RestoreInv, Typed
<1>2. faults' = 1
  BY <1>1 DEF Fault
<1>3. RestorePointOK(pc', main', proc', e)
  BY DEF RestorePointOK, Undoable, Installing
<1>4. pc' \in Restoring /\ pc' \notin Undoing
  BY DEF Restoring, Undoing
<1>5. QED
  BY <1>2, <1>3, <1>4, Continues

\* A record is appended, or the restore fails.
LEMMA RecordOne ==
  ASSUME RestoreInv, AtomicInv, OneFault, faults' <= 1, pc \in Restoring,
         NEW ph \in Phases, NEW d \in RestoreDirs, NEW next, Record(ph, next, d),
         d.state = "live", main' = main, owner' = owner, LaidOut(main, d),
         LaidOut(main, Appended(d, ph)), Undoable(main, proc, d),
         next => /\ pc' \in Restoring \ (RollingBack \cup {"stage", "prepare"})
                 /\ proc'.op = proc.op /\ outcome' = outcome
                 /\ RestorePointOK(pc', main, proc', Appended(d, ph))
  PROVE  OneFault'
<1> DEFINE a == Appended(d, ph)
<1>1. CASE dir' = [dir EXCEPT ![proc.op] = a] /\ next
  <2>1. a.state = "live"
    BY AppendRest DEF FailedAppends
  <2>2. pc' \notin Undoing /\ LaidOut(main', a)
    BY <1>1 DEF Restoring, Undoing
  <2> HIDE DEF a
  <2>3. QED
    BY <1>1, <2>1, <2>2, Continues DEF a
<1>2. ASSUME Fault, NEW e \in FailedAppends(d, ph), dir' = [dir EXCEPT ![proc.op] = e],
             Keep("rb-record")
      PROVE  OneFault'
  <2>1. pc' = "rb-record" /\ proc' = proc /\ outcome' = outcome
    BY <1>2 DEF Keep
  <2>2. /\ e.state = "live" /\ e.prior = d.prior /\ e.quar = d.quar /\ e.failed = d.failed
        /\ e.installed = d.installed
    BY AppendRest
  <2>3. LaidOut(main', e)
    BY FailedLayout
  <2>4. Undoable(main', proc', e)
    BY <2>1, <2>2, SameLayout DEF Undoable
  <2>5. QED
    BY <1>2, <2>1, <2>2, <2>3, <2>4, Fails
<1>3. QED
  BY <1>1, <1>2 DEF Record

\* No restore is in use when the user is asked for a backup.
LEMMA AskKnows ==
  ASSUME RestoreInv, AtomicInv, OneFault, pc \in {"dialog", "create"}
  PROVE  /\ owner # "new" /\ outcome = "none" /\ Live = {} /\ proc \in Procs
         /\ ~proc.errors /\ proc.moved = {} /\ ~proc.candidateInstalled
         /\ main["db"] = Absent => main = NoFiles
  BY DEF OneFault, NewOK, FaultPcOK, RestoreInv, Typed

\* The user gives up, fails to choose, or chooses a backup.
LEMMA ChooseBackupOne == RestoreInv /\ AtomicInv /\ OneFault /\ ChooseBackup => OneFault'
<1> SUFFICES ASSUME RestoreInv, AtomicInv, OneFault, ChooseBackup PROVE OneFault'
  OBVIOUS
<1> DEFINE r == [proc EXCEPT !.attempt = @ + 1]
<1>1. pc = "dialog" /\ main' = main /\ dir' = dir /\ owner' = owner
  BY DEF ChooseBackup, History
<1>2. /\ owner # "new" /\ outcome = "none" /\ Live = {} /\ proc \in Procs
      /\ ~proc.errors /\ proc.moved = {} /\ ~proc.candidateInstalled
      /\ main["db"] = Absent => main = NoFiles
  BY <1>1, AskKnows
<1>3. Live' = {}
  BY <1>1, <1>2 DEF Live
<1>4. r \in Procs /\ ~r.errors /\ r.moved = {} /\ ~r.candidateInstalled
  <2>1. proc.attempt < MaxAttempts /\ proc.attempt \in Nat /\ MaxAttempts \in Nat
    BY <1>1, RestoreAssumption DEF RestoreInv, Typed, Procs
  <2>2. proc.attempt + 1 \in 0..MaxAttempts
    BY <2>1
  <2>3. QED
    BY <1>2, <2>2 DEF Procs
<1>5. CASE EndStart("quit")
  BY <1>1, <1>5, Quits
<1>6. CASE OfferRecovery(r)
  BY <1>1, <1>2, <1>3, <1>4, <1>6, Offers
<1>7. CASE pc' = "create" /\ proc' = r /\ outcome' = outcome
  <2>1. DiskOK' /\ NewOK' /\ RefusalsAreExplained'
    BY <1>1, <1>2, <1>3, <1>7 DEF DiskOK, NewOK, RefusalsAreExplained
  <2>2. FaultPcOK'
    BY <1>1, <1>2, <1>3, <1>4, <1>7 DEF FaultPcOK, Restoring, Undoing, RollingBack
  <2>3. QED
    BY <2>1, <2>2 DEF OneFault
<1>8. QED
  BY <1>5, <1>6, <1>7 DEF ChooseBackup

\* A new restore directory is the only one in use.
LEMMA CreateOne == RestoreInv /\ AtomicInv /\ OneFault /\ CreateRestoreDirectory => OneFault'
<1> SUFFICES ASSUME RestoreInv, AtomicInv, OneFault, CreateRestoreDirectory PROVE OneFault'
  OBVIOUS
<1>1. pc = "create" /\ main' = main /\ owner' = owner
  BY DEF CreateRestoreDirectory, History
<1>2. /\ owner # "new" /\ outcome = "none" /\ Live = {} /\ proc \in Procs
      /\ ~proc.errors /\ proc.moved = {} /\ ~proc.candidateInstalled
      /\ main["db"] = Absent => main = NoFiles
  BY <1>1, AskKnows
<1>3. CASE OfferRecovery(proc) /\ dir' = dir
  <2>1. Live' = {}
    BY <1>2, <1>3 DEF Live
  <2>2. QED
    BY <1>1, <1>2, <1>3, <2>1, Offers
<1>4. ASSUME NEW o \in Ops, dir[o].state = "unused", dir' = [dir EXCEPT ![o].state = "live"],
             pc' = "stage", proc' = [proc EXCEPT !.op = o], outcome' = outcome
      PROVE  OneFault'
  <2>1. dir \in [Ops -> RestoreDirs] /\ dir[o] = EmptyDir
    BY <1>4 DEF RestoreInv, Typed, DirsOK, dirOK
  <2>2. /\ dir'[o].state = "live" /\ dir'[o].journal = <<>> /\ dir'[o].quar = NoFiles
        /\ dir'[o].failed = NoFiles /\ \A p \in Ops : p # o => dir'[p] = dir[p]
    BY <1>4, <2>1 DEF EmptyDir
  <2>3. Live' = {o}
    BY <1>2, <2>2 DEF Live
  <2>4. LaidOut(main', dir'[o])
    BY <2>2 DEF LaidOut, ParsesJournal
  <2>5. DiskOK' /\ NewOK' /\ RefusalsAreExplained'
    BY <1>1, <1>2, <1>4, <2>3, <2>4 DEF DiskOK, NewOK, RefusalsAreExplained
  <2>6. proc'.op = o /\ ~proc'.errors /\ proc'.moved = {}
    BY <1>2, <1>4 DEF Procs
  <2>7. NoneFailed(dir'[o]) /\ \A f \in Files : dir'[o].quar[f] = Absent
    BY <2>2 DEF NoneFailed, NoFiles
  <2>8. RestorePointOK(pc', main', proc', dir'[proc'.op])
    BY <1>4, <2>6, <2>7 DEF RestorePointOK, Installing
  <2>9. FaultPcOK'
    BY <1>1, <1>2, <1>4, <2>8 DEF FaultPcOK, Undoing, RollingBack
  <2>10. QED
    BY <2>5, <2>9 DEF OneFault
<1>5. QED
  BY <1>3, <1>4 DEF CreateRestoreDirectory

\* A restore that moved nothing is given up after its first fault.
LEMMA AbandonOne ==
  ASSUME RestoreInv, AtomicInv, OneFault, faults' <= 1, pc \in Restoring, NEW d \in RestoreDirs,
         Abandon(d, 1), main' = main, owner' = owner, main["db"] = Absent => main = NoFiles
  PROVE  OneFault'
<1> DEFINE e == [d EXCEPT !.state = "gone"]
<1>1. faults \in Nat
  BY RestoreAssumption DEF RestoreInv, Typed
<1>2. ~(faults' = faults + 1 + 1)
  BY <1>1
<1>3. dir' = [dir EXCEPT ![proc.op] = e] /\ OfferRecovery(proc)
  BY <1>2 DEF Abandon
<1>4. e.state # "live"
  BY DEF RestoreDirs
<1> HIDE DEF e
<1>5. QED
  BY <1>3, <1>4, LetsGo

\* The candidate is staged.
LEMMA StageCandidateOne ==
  RestoreInv /\ AtomicInv /\ OneFault /\ faults' <= 1 /\ StageCandidate => OneFault'
<1> SUFFICES ASSUME RestoreInv, AtomicInv, OneFault, faults' <= 1, StageCandidate PROVE OneFault'
  OBVIOUS
<1> DEFINE d == dir[proc.op]
           e == [d EXCEPT !.cand = TRUE]
<1>1. /\ pc = "stage" /\ main' = main /\ owner' = owner
      /\ (dir' = [dir EXCEPT ![proc.op] = e] /\ Keep("prepare")) \/ Abandon(d, 1)
  BY DEF StageCandidate, History, Here
<1>2. pc \in Restoring /\ (main["db"] = Absent => main = NoFiles)
  BY <1>1 DEF Restoring, OneFault, FaultPcOK
<1>3. d \in RestoreDirs /\ d.state = "live" /\ LaidOut(main, d) /\ RestorePointOK("stage", main, proc, d)
  BY <1>1, <1>2, OnlyOne, RestoreKnows
<1>4. CASE Abandon(d, 1)
  BY <1>1, <1>2, <1>3, <1>4, AbandonOne
<1>5. CASE dir' = [dir EXCEPT ![proc.op] = e] /\ Keep("prepare")
  <2>1. /\ pc' = "prepare" /\ proc' = proc /\ outcome' = outcome
        /\ pc' \in Restoring /\ pc' \notin Undoing \cup RollingBack
    BY <1>5 DEF Keep, Restoring, Undoing, RollingBack
  <2>2. /\ e.state = "live" /\ e.journal = d.journal /\ e.prior = d.prior /\ e.quar = d.quar
        /\ e.failed = d.failed /\ e.installed = d.installed
    BY <1>3 DEF RestoreDirs
  <2> HIDE DEF e
  <2>3. LaidOut(main', e)
    BY <1>1, <1>3, <2>2, SameLayout
  <2>4. RestorePointOK(pc', main', proc', e)
    BY <1>3, <2>1, <2>2 DEF RestorePointOK, NoneFailed, Installing
  <2>5. QED
    BY <1>1, <1>2, <1>5, <2>1, <2>2, <2>3, <2>4, Continues
<1>6. QED
  BY <1>1, <1>4, <1>5

\* The first record binds the files as they are.
LEMMA RecordPreparedOne ==
  RestoreInv /\ AtomicInv /\ OneFault /\ faults' <= 1 /\ RecordPrepared => OneFault'
<1> SUFFICES ASSUME RestoreInv, AtomicInv, OneFault, faults' <= 1, RecordPrepared PROVE OneFault'
  OBVIOUS
<1> DEFINE d == dir[proc.op]
           b == [d EXCEPT !.prior = main]
           a == Appended(b, "prepared")
<1>1. pc = "prepare" /\ main' = main /\ owner' = owner
  BY DEF RecordPrepared, History
<1>2. pc \in Restoring /\ (main["db"] = Absent => main = NoFiles)
  BY <1>1 DEF Restoring, OneFault, FaultPcOK
<1>3. /\ d \in RestoreDirs /\ d.state = "live" /\ d.journal = <<>> /\ main \in [Files -> Bytes]
      /\ RestorePointOK("prepare", main, proc, d)
  BY <1>1, <1>2, OnlyOne, RestoringOp, RestoreKnows
<1>4. /\ b \in RestoreDirs /\ b.state = "live" /\ b.journal = <<>> /\ b.prior = main
      /\ b.quar = d.quar /\ b.failed = d.failed
  BY <1>3 DEF RestoreDirs
<1>5. \/ dir' = [dir EXCEPT ![proc.op] = a] /\ Keep("record-quarantining")
      \/ \E e \in FailedAppends(b, "prepared") : Abandon(e, 1)
  BY <1>2 DEF RecordPrepared, Here
<1> HIDE DEF b
<1>6. "prepared" \in Phases
  BY DEF Phases
<1>7. CASE \E e \in FailedAppends(b, "prepared") : Abandon(e, 1)
  BY <1>1, <1>2, <1>4, <1>6, <1>7, AppendRest, AbandonOne
<1>8. CASE dir' = [dir EXCEPT ![proc.op] = a] /\ Keep("record-quarantining")
  <2>1. /\ pc' = "record-quarantining" /\ proc' = proc /\ outcome' = outcome
        /\ pc' \in Restoring /\ pc' \notin Undoing \cup RollingBack \cup {"stage", "prepare"}
    BY <1>8 DEF Keep, Restoring, Undoing, RollingBack
  <2>2. a.state = "live" /\ a.prior = main /\ a.quar = d.quar /\ a.failed = d.failed
    BY <1>4, <1>6, AppendRest DEF FailedAppends
  <2>3. NoneFailed(a) /\ AllInPlace(main, a) /\ \A f \in Files : a.quar[f] = Absent
    BY <1>3, <2>2 DEF RestorePointOK, NoneFailed, AllInPlace, InPlace
  <2>4. At(a, "prepared")
    BY <1>4, FirstRecord DEF At
  <2> HIDE DEF a
  <2>5. LaidOut(main', a)
    BY <1>1, <2>3, <2>4 DEF At, LaidOut, LayoutOf
  <2>6. RestorePointOK(pc', main', proc', a)
    BY <1>1, <1>3, <2>1, <2>3, <2>4 DEF RestorePointOK, Installing
  <2>7. QED
    BY <1>1, <1>2, <1>8, <2>1, <2>2, <2>5, <2>6, Continues
<1>9. QED
  BY <1>5, <1>7, <1>8

\* The quarantine is on record before it begins.
LEMMA RecordQuarantiningOne ==
  RestoreInv /\ AtomicInv /\ OneFault /\ faults' <= 1 /\ RecordQuarantining => OneFault'
<1> SUFFICES ASSUME RestoreInv, AtomicInv, OneFault, faults' <= 1, RecordQuarantining PROVE OneFault'
  OBVIOUS
<1> DEFINE d == dir[proc.op]
           a == Appended(d, "quarantining")
           next == /\ pc' = "quarantine" /\ UNCHANGED outcome
                   /\ proc' = [proc EXCEPT !.todo = Present(Here.prior)]
<1>1. /\ pc = "record-quarantining" /\ main' = main /\ owner' = owner
      /\ Record("quarantining", next, d)
  BY DEF RecordQuarantining, History, Here
<1>2. pc \in Restoring /\ "quarantining" \in Phases
  BY <1>1 DEF Restoring, Phases
<1>3. /\ d \in RestoreDirs /\ d.state = "live" /\ LaidOut(main, d) /\ d.journal # <<>>
      /\ proc \in Procs /\ RestorePointOK("record-quarantining", main, proc, d)
      /\ ~proc.candidateInstalled
  BY <1>1, <1>2, OnlyOne, RestoringOp, RestoreKnows DEF PointOK
<1>4. /\ ~proc.errors /\ proc.moved = {} /\ NoneFailed(d) /\ AllInPlace(main, d)
      /\ Split(main, d, {})
  BY <1>3 DEF RestorePointOK, AllInPlace, Split
<1>5. LaidOut(main, a) /\ At(a, "quarantining")
  BY <1>2, <1>3, <1>4, NextLayout DEF LayoutOf, AllInPlace
<1>6. Undoable(main, proc, d)
  BY <1>3, <1>4 DEF Undoable
<1>7. next => /\ pc' \in Restoring \ (RollingBack \cup {"stage", "prepare"})
              /\ proc'.op = proc.op /\ outcome' = outcome /\ RestorePointOK(pc', main, proc', a)
  <2>1. SUFFICES ASSUME next
                 PROVE  /\ pc' \in Restoring \ (RollingBack \cup {"stage", "prepare"})
                        /\ proc'.op = proc.op /\ RestorePointOK(pc', main, proc', a)
    OBVIOUS
  <2>2. /\ pc' = "quarantine" /\ proc'.op = proc.op /\ proc'.todo = Present(d.prior)
        /\ proc'.moved = {} /\ ~proc'.errors
    BY <1>3, <1>4, <2>1 DEF Procs, Here
  <2>3. a.prior = d.prior /\ a.quar = d.quar /\ a.failed = d.failed /\ a.installed = d.installed
    BY <1>2, <1>3, AppendRest DEF FailedAppends
  <2>4. NoneFailed(a) /\ Split(main, a, {})
    BY <1>4, <2>3, SameLayout
  <2> HIDE DEF a
  <2>5. RestorePointOK(pc', main, proc', a)
    BY <1>5, <2>2, <2>3, <2>4 DEF RestorePointOK, Installing
  <2>6. QED
    BY <2>2, <2>5 DEF Restoring, RollingBack
<1> HIDE DEF next
<1>8. QED
  BY <1>1, <1>2, <1>3, <1>5, <1>6, <1>7, RecordOne

\* A file is moved aside.
LEMMA QuarantineNextOne ==
  RestoreInv /\ AtomicInv /\ OneFault /\ faults' <= 1 /\ QuarantineNext => OneFault'
<1> SUFFICES ASSUME RestoreInv, AtomicInv, OneFault, faults' <= 1, QuarantineNext PROVE OneFault'
  OBVIOUS
<1> DEFINE o == proc.op
           d == dir[o]
           f == PrimaryLast(proc.todo)
           moved == [proc EXCEPT !.todo = proc.todo \ {f}, !.moved = proc.moved \cup {f}]
<1>1. pc = "quarantine" /\ proc.todo # {} /\ owner' = owner
  BY DEF QuarantineNext, History
<1>2. pc \in Restoring /\ pc \notin Undoing \cup RollingBack \cup {"stage", "prepare"}
  BY <1>1 DEF Restoring, Undoing, RollingBack
<1>3. /\ o \in Ops /\ d \in RestoreDirs /\ d.state = "live" /\ LaidOut(main, d)
      /\ main \in [Files -> Bytes] /\ dir \in [Ops -> RestoreDirs] /\ proc \in Procs
      /\ proc.todo \subseteq Files /\ ~proc.candidateInstalled
      /\ RestorePointOK("quarantine", main, proc, d)
  BY <1>1, <1>2, OnlyOne, RestoringOp, RestoreKnows DEF PointOK
<1>4. f \in Files /\ f \in proc.todo
  BY <1>1, <1>3, NextFile
<1>5. /\ ~proc.errors /\ proc.todo \subseteq Present(d.prior)
      /\ proc.moved = Present(d.prior) \ proc.todo
      /\ Split(main, d, proc.moved) /\ NoneFailed(d) /\ At(d, "quarantining")
  BY <1>3 DEF RestorePointOK
<1>6. \/ /\ IntoDir(o, "quar", f) /\ proc' = moved /\ outcome' = outcome
         /\ pc' = pc \/ (pc' = "rb-record" /\ Fault)
      \/ Fault /\ Keep("rb-record") /\ main' = main /\ dir' = dir
  BY DEF QuarantineNext
<1>7. CASE Fault /\ Keep("rb-record") /\ main' = main /\ dir' = dir
  <2>1. pc' = "rb-record" /\ proc' = proc /\ outcome' = outcome
    BY <1>7 DEF Keep
  <2>2. Undoable(main', proc', d) /\ dir' = [dir EXCEPT ![o] = d] /\ LaidOut(main', d)
    BY <1>3, <1>5, <1>7, <2>1 DEF Undoable
  <2>3. QED
    BY <1>1, <1>2, <1>3, <1>7, <2>1, <2>2, Fails
<1>8. CASE /\ IntoDir(o, "quar", f) /\ proc' = moved /\ outcome' = outcome
           /\ pc' = pc \/ (pc' = "rb-record" /\ Fault)
  <2>1. /\ proc'.op = o /\ proc'.todo = proc.todo \ {f} /\ proc'.moved = proc.moved \cup {f}
        /\ ~proc'.errors /\ ~proc'.candidateInstalled
    BY <1>3, <1>5, <1>8 DEF Procs
  <2> HIDE DEF f, moved
  <2> DEFINE e == dir'[o]
  <2>2. /\ main'[f] = Absent /\ \A g \in Files : g # f => main'[g] = main[g]
        /\ dir' = [dir EXCEPT ![o] = e] /\ e.state = d.state /\ e.journal = d.journal
        /\ e.prior = d.prior /\ e.failed = d.failed /\ e.quar[f] = main[f]
        /\ \A g \in Files : g # f => e.quar[g] = d.quar[g]
    BY <1>3, <1>4, <1>8, MovesInto
  <2>3. InPlace(main, d, f)
    BY <1>4, <1>5 DEF Split
  <2>4. Aside(main', e, f)
    BY <2>2, <2>3 DEF InPlace, Aside
  <2>5. Split(main', e, proc'.moved)
    <3>1. ASSUME NEW g \in Files
          PROVE  IF g \in proc'.moved THEN Aside(main', e, g) ELSE InPlace(main', e, g)
      <4>1. CASE g = f
        BY <2>1, <2>4, <4>1
      <4>2. CASE g # f
        BY <1>5, <2>1, <2>2, <4>2 DEF Split, InPlace, Aside
      <4>3. QED
        BY <4>1, <4>2
    <3>2. QED
      BY <3>1 DEF Split
  <2>6. /\ proc'.todo \subseteq Present(e.prior) /\ proc'.moved = Present(e.prior) \ proc'.todo
    BY <1>4, <1>5, <2>1, <2>2
  <2>7. NoneFailed(e) /\ At(e, "quarantining")
    BY <1>5, <2>2 DEF NoneFailed, At, ParsesJournal, LastPhase
  <2> HIDE DEF e
  <2>8. LaidOut(main', e)
    BY <2>5, <2>7 DEF At, LaidOut, LayoutOf, Split
  <2>9. CASE pc' = pc
    <3>1. RestorePointOK(pc', main', proc', e)
      BY <1>1, <2>1, <2>5, <2>6, <2>7, <2>9 DEF RestorePointOK, Installing
    <3>2. QED
      BY <1>1, <1>2, <1>3, <1>8, <2>1, <2>2, <2>8, <2>9, <3>1, Continues
  <2>10. CASE pc' = "rb-record" /\ Fault
    <3>1. Undoable(main', proc', e)
      BY <2>1, <2>5 DEF Undoable
    <3>2. QED
      BY <1>1, <1>2, <1>3, <1>8, <2>1, <2>2, <2>8, <2>10, <3>1, Fails
  <2>11. QED
    BY <1>8, <2>9, <2>10
<1>9. QED
  BY <1>6, <1>7, <1>8

\* The quarantine is complete.
LEMMA RecordQuarantinedOne ==
  RestoreInv /\ AtomicInv /\ OneFault /\ faults' <= 1 /\ RecordQuarantined => OneFault'
<1> SUFFICES ASSUME RestoreInv, AtomicInv, OneFault, faults' <= 1, RecordQuarantined PROVE OneFault'
  OBVIOUS
<1> DEFINE d == dir[proc.op]
           a == Appended(d, "quarantined")
<1>1. /\ pc = "quarantine" /\ proc.todo = {} /\ main' = main /\ owner' = owner
      /\ Record("quarantined", Keep("install"), d)
  BY DEF RecordQuarantined, History, Here
<1>2. pc \in Restoring /\ "quarantined" \in Phases
  BY <1>1 DEF Restoring, Phases
<1>3. /\ d \in RestoreDirs /\ d.state = "live" /\ LaidOut(main, d) /\ d.journal # <<>>
      /\ RestorePointOK("quarantine", main, proc, d) /\ ~proc.candidateInstalled
  BY <1>1, <1>2, OnlyOne, RestoringOp, RestoreKnows DEF PointOK
<1>4. /\ ~proc.errors /\ proc.moved = Present(d.prior) /\ NoneFailed(d)
      /\ Split(main, d, proc.moved)
  BY <1>1, <1>3 DEF RestorePointOK
<1>5. AllKept(d)
  BY <1>4 DEF AllKept, Split, Present, Aside, InPlace
<1>6. LaidOut(main, a) /\ At(a, "quarantined")
  BY <1>2, <1>3, <1>4, <1>5, NextLayout DEF LayoutOf
<1>7. Undoable(main, proc, d)
  BY <1>3, <1>4 DEF Undoable
<1>8. Keep("install") => /\ pc' \in Restoring \ (RollingBack \cup {"stage", "prepare"})
                         /\ proc'.op = proc.op /\ outcome' = outcome
                         /\ RestorePointOK(pc', main, proc', a)
  <2>1. SUFFICES ASSUME Keep("install")
                 PROVE  /\ pc' \in Restoring \ (RollingBack \cup {"stage", "prepare"})
                        /\ proc'.op = proc.op /\ outcome' = outcome
                        /\ RestorePointOK(pc', main, proc', a)
    OBVIOUS
  <2>2. pc' = "install" /\ proc' = proc /\ outcome' = outcome
    BY <2>1 DEF Keep
  <2>3. a.prior = d.prior /\ a.quar = d.quar /\ a.failed = d.failed /\ a.installed = d.installed
    BY <1>2, <1>3, AppendRest DEF FailedAppends
  <2>4. NoneFailed(a) /\ AllKept(a) /\ Split(main, a, proc.moved)
    BY <1>4, <1>5, <2>3, SameLayout
  <2> HIDE DEF a
  <2>5. RestorePointOK(pc', main, proc', a)
    BY <1>4, <1>6, <2>2, <2>3, <2>4 DEF RestorePointOK, Installing
  <2>6. QED
    BY <2>2, <2>5 DEF Restoring, RollingBack
<1>9. QED
  BY <1>1, <1>2, <1>3, <1>6, <1>7, <1>8, RecordOne

\* From the end of the quarantine to the end of the restore the files in the database
\* directory do not matter.
LEMMA KeptLayout ==
  ASSUME NEW m, NEW d, NEW ph \in {"quarantined", "installed"}, AllKept(d), NoneFailed(d), At(d, ph)
  PROVE  LaidOut(m, d)
  BY DEF LaidOut, LayoutOf, At

\* The candidate becomes the primary.
LEMMA InstallCandidateOne ==
  RestoreInv /\ AtomicInv /\ OneFault /\ faults' <= 1 /\ InstallCandidate => OneFault'
<1> SUFFICES ASSUME RestoreInv, AtomicInv, OneFault, faults' <= 1, InstallCandidate PROVE OneFault'
  OBVIOUS
<1> DEFINE o == proc.op
           d == dir[o]
           e == [d EXCEPT !.cand = FALSE]
<1>1. pc = "install" /\ owner' = owner
  BY DEF InstallCandidate, History
<1>2. pc \in Restoring
  BY <1>1 DEF Restoring
<1>3. /\ o \in Ops /\ d \in RestoreDirs /\ d.state = "live" /\ LaidOut(main, d)
      /\ dir \in [Ops -> RestoreDirs] /\ proc \in Procs /\ ~proc.candidateInstalled
      /\ RestorePointOK("install", main, proc, d)
  BY <1>1, <1>2, OnlyOne, RestoringOp, RestoreKnows DEF PointOK
<1>4. /\ ~proc.errors /\ Split(main, d, proc.moved) /\ AllKept(d) /\ NoneFailed(d)
      /\ proc.moved = Present(d.prior) /\ At(d, "quarantined")
  BY <1>3 DEF RestorePointOK
<1>5. \/ /\ dir' = [dir EXCEPT ![o] = e] /\ outcome' = outcome
         /\ proc' = [proc EXCEPT !.candidateInstalled = TRUE]
         /\ pc' = "record-installed" \/ (pc' = "rb-record" /\ Fault)
      \/ Fault /\ Keep("rb-record") /\ main' = main /\ dir' = dir
  BY DEF InstallCandidate
<1>6. CASE Fault /\ Keep("rb-record") /\ main' = main /\ dir' = dir
  <2>1. pc' = "rb-record" /\ proc' = proc /\ outcome' = outcome
    BY <1>6 DEF Keep
  <2>2. Undoable(main', proc', d) /\ dir' = [dir EXCEPT ![o] = d] /\ LaidOut(main', d)
    BY <1>3, <1>4, <1>6, <2>1 DEF Undoable
  <2>3. QED
    BY <1>1, <1>2, <1>3, <1>6, <2>1, <2>2, Fails
<1>7. CASE /\ dir' = [dir EXCEPT ![o] = e] /\ outcome' = outcome
           /\ proc' = [proc EXCEPT !.candidateInstalled = TRUE]
           /\ pc' = "record-installed" \/ (pc' = "rb-record" /\ Fault)
  <2>1. /\ proc'.op = o /\ proc'.moved = proc.moved /\ ~proc'.errors /\ proc'.candidateInstalled
    BY <1>3, <1>4, <1>7 DEF Procs
  <2>2. /\ e.state = "live" /\ e.journal = d.journal /\ e.prior = d.prior /\ e.quar = d.quar
        /\ e.failed = d.failed
    BY <1>3 DEF RestoreDirs
  <2> HIDE DEF e
  <2>3. AllKept(e) /\ NoneFailed(e) /\ At(e, "quarantined")
    BY <1>4, <2>2 DEF AllKept, NoneFailed, At, ParsesJournal, LastPhase
  <2>4. LaidOut(main', e)
    BY <2>3, KeptLayout
  <2>5. CASE pc' = "record-installed"
    <3>1. RestorePointOK(pc', main', proc', e)
      BY <1>4, <2>1, <2>2, <2>3, <2>5 DEF RestorePointOK, Installing
    <3>2. pc' \in Restoring /\ pc' \notin Undoing \cup RollingBack \cup {"stage", "prepare"}
      BY <2>5 DEF Restoring, Undoing, RollingBack
    <3>3. QED
      BY <1>1, <1>2, <1>7, <2>1, <2>2, <2>4, <3>1, <3>2, Continues
  <2>6. CASE pc' = "rb-record" /\ Fault
    <3>1. Undoable(main', proc', e)
      BY <1>4, <2>1, <2>2, <2>3 DEF Undoable
    <3>2. QED
      BY <1>1, <1>2, <1>7, <2>1, <2>2, <2>4, <2>6, <3>1, Fails
  <2>7. QED
    BY <1>7, <2>5, <2>6
<1>8. QED
  BY <1>5, <1>6, <1>7

\* What is known between the installation and its end.
LEMMA InstalledKnows ==
  ASSUME RestoreInv, AtomicInv, OneFault, pc \in Installing
  PROVE  LET d == dir[proc.op] IN
         /\ pc \in Restoring /\ d \in RestoreDirs /\ d.state = "live" /\ d.journal # <<>>
         /\ LaidOut(main, d) /\ ~proc.errors /\ AllKept(d) /\ NoneFailed(d)
         /\ proc.moved = Present(d.prior) /\ proc.candidateInstalled
         /\ pc = "record-installed" => At(d, "quarantined")
         /\ pc # "record-installed" => At(d, "installed")
         /\ Undoable(main, proc, d) /\ proc.op \in Ops /\ dir \in [Ops -> RestoreDirs]
<1> DEFINE d == dir[proc.op]
<1>1. pc \in Restoring /\ pc \notin {"stage", "prepare"}
  BY DEF Installing, Restoring
<1>2. /\ d \in RestoreDirs /\ d.state = "live" /\ LaidOut(main, d) /\ d.journal # <<>>
      /\ RestorePointOK(pc, main, proc, d) /\ proc.op \in Ops /\ dir \in [Ops -> RestoreDirs]
  BY <1>1, OnlyOne, RestoringOp, RestoreKnows
<1>3. /\ ~proc.errors /\ AllKept(d) /\ NoneFailed(d) /\ proc.moved = Present(d.prior)
      /\ proc.candidateInstalled
      /\ pc = "record-installed" => At(d, "quarantined")
      /\ pc # "record-installed" => At(d, "installed")
  BY <1>2 DEF RestorePointOK, Installing
<1>4. QED
  BY <1>1, <1>2, <1>3 DEF Undoable

\* The installation is on record.
LEMMA RecordInstalledOne ==
  RestoreInv /\ AtomicInv /\ OneFault /\ faults' <= 1 /\ RecordInstalled => OneFault'
<1> SUFFICES ASSUME RestoreInv, AtomicInv, OneFault, faults' <= 1, RecordInstalled PROVE OneFault'
  OBVIOUS
<1> DEFINE d == dir[proc.op]
           a == Appended(d, "installed")
<1>1. /\ pc = "record-installed" /\ main' = main /\ owner' = owner
      /\ Record("installed", Keep("validate"), d) /\ "installed" \in Phases
  BY DEF RecordInstalled, History, Here, Phases
<1>2. /\ pc \in Restoring /\ d \in RestoreDirs /\ d.state = "live" /\ d.journal # <<>>
      /\ LaidOut(main, d) /\ ~proc.errors /\ AllKept(d) /\ NoneFailed(d)
      /\ proc.moved = Present(d.prior) /\ proc.candidateInstalled /\ Undoable(main, proc, d)
  BY <1>1, InstalledKnows DEF Installing
<1>3. LaidOut(main, a) /\ At(a, "installed")
  BY <1>1, <1>2, NextLayout DEF LayoutOf
<1>4. Keep("validate") => /\ pc' \in Restoring \ (RollingBack \cup {"stage", "prepare"})
                          /\ proc'.op = proc.op /\ outcome' = outcome
                          /\ RestorePointOK(pc', main, proc', a)
  <2>1. SUFFICES ASSUME Keep("validate")
                 PROVE  /\ pc' \in Restoring \ (RollingBack \cup {"stage", "prepare"})
                        /\ proc'.op = proc.op /\ outcome' = outcome
                        /\ RestorePointOK(pc', main, proc', a)
    OBVIOUS
  <2>2. pc' = "validate" /\ proc' = proc /\ outcome' = outcome
    BY <2>1 DEF Keep
  <2>3. a.prior = d.prior /\ a.quar = d.quar /\ a.failed = d.failed /\ a.installed = d.installed
    BY <1>1, <1>2, AppendRest DEF FailedAppends
  <2>4. NoneFailed(a) /\ AllKept(a)
    BY <1>2, <2>3, SameLayout
  <2> HIDE DEF a
  <2>5. RestorePointOK(pc', main, proc', a)
    BY <1>2, <1>3, <2>2, <2>3, <2>4 DEF RestorePointOK, Installing
  <2>6. QED
    BY <2>2, <2>5 DEF Restoring, RollingBack
<1>5. QED
  BY <1>1, <1>2, <1>3, <1>4, RecordOne

\* The installed database is opened, checked and closed.
LEMMA ValidateOne ==
  RestoreInv /\ AtomicInv /\ OneFault /\ faults' <= 1 /\ (OpenInstalled \/ CloseInstalled) => OneFault'
<1> SUFFICES ASSUME RestoreInv, AtomicInv, OneFault, faults' <= 1, OpenInstalled \/ CloseInstalled
             PROVE  OneFault'
  OBVIOUS
<1> DEFINE d == dir[proc.op]
<1>1. /\ pc \in {"validate", "validating"} /\ owner' = owner /\ dir' = dir /\ proc' = proc
      /\ outcome' = outcome
      /\ pc' \in {"validating", "complete"} \/ (pc' = "rb-record" /\ Fault)
  BY DEF OpenInstalled, CloseInstalled, Keep, History
<1>2. /\ pc \in Restoring /\ d \in RestoreDirs /\ d.state = "live"
      /\ ~proc.errors /\ AllKept(d) /\ NoneFailed(d) /\ At(d, "installed")
      /\ proc.moved = Present(d.prior) /\ proc.candidateInstalled
      /\ proc.op \in Ops /\ dir \in [Ops -> RestoreDirs]
  BY <1>1, InstalledKnows DEF Installing
<1>3. LaidOut(main', d) /\ dir' = [dir EXCEPT ![proc.op] = d]
  BY <1>1, <1>2, KeptLayout
<1>4. CASE pc' \in {"validating", "complete"}
  <2>1. RestorePointOK(pc', main', proc', d)
    BY <1>1, <1>2, <1>4 DEF RestorePointOK, Installing
  <2>2. pc' \in Restoring /\ pc' \notin Undoing \cup RollingBack \cup {"stage", "prepare"}
    BY <1>4 DEF Restoring, Undoing, RollingBack
  <2>3. QED
    BY <1>1, <1>2, <1>3, <2>1, <2>2, Continues
<1>5. CASE pc' = "rb-record" /\ Fault
  <2>1. Undoable(main', proc', d)
    BY <1>1, <1>2 DEF Undoable
  <2>2. QED
    BY <1>1, <1>2, <1>3, <1>5, <2>1, Fails
<1>6. QED
  BY <1>1, <1>4, <1>5

\* The restore is complete: its directory seals the database that is installed.
LEMMA RecordCompletedOne ==
  RestoreInv /\ AtomicInv /\ OneFault /\ faults' <= 1 /\ RecordCompleted => OneFault'
<1> SUFFICES ASSUME RestoreInv, AtomicInv, OneFault, faults' <= 1, RecordCompleted PROVE OneFault'
  OBVIOUS
<1> DEFINE o == proc.op
           d == dir[o]
           c == [d EXCEPT !.installed = main]
           a == Appended(c, "completed")
<1>1. /\ pc = "complete" /\ main' = main /\ owner' = IF pc' = "boundary" THEN "new" ELSE owner
      /\ Record("completed", Keep("boundary"), c) /\ "completed" \in Phases
  BY DEF RecordCompleted, Here, Phases
<1>2. /\ pc \in Restoring /\ d \in RestoreDirs /\ d.state = "live" /\ d.journal # <<>>
      /\ AllKept(d) /\ NoneFailed(d) /\ At(d, "installed") /\ Undoable(main, proc, d)
      /\ o \in Ops /\ dir \in [Ops -> RestoreDirs]
  BY <1>1, InstalledKnows DEF Installing
<1>3. main["db"] = "audited" /\ main \in [Files -> Bytes]
  BY <1>1, <1>2, OnlyOne DEF AtomicInv, MorePcOK, MorePointOK
<1>4. /\ c \in RestoreDirs /\ c.state = "live" /\ c.prior = d.prior /\ c.quar = d.quar
      /\ c.journal = d.journal /\ c.failed = d.failed /\ c.installed = main
  BY <1>2, <1>3 DEF RestoreDirs
<1>5. /\ AllKept(c) /\ NoneFailed(c) /\ At(c, "installed")
  BY <1>2, <1>4 DEF AllKept, NoneFailed, At, ParsesJournal, LastPhase
<1>6. Undoable(main, proc, c)
  BY <1>2, <1>4, <1>5 DEF Undoable, Split, InPlace, Aside
<1> HIDE DEF c
<1>7. LaidOut(main, c)
  BY <1>5, KeptLayout
<1>8. LaidOut(main, a) /\ At(a, "completed")
  BY <1>1, <1>2, <1>3, <1>4, <1>5, NextLayout DEF LayoutOf
<1>9. CASE dir' = [dir EXCEPT ![o] = a] /\ Keep("boundary")
  <2>1. pc' = "boundary" /\ outcome' = outcome /\ owner' = "new"
    BY <1>1, <1>9 DEF Keep
  <2>2. a.state = "live" /\ a.installed = main /\ a.journal # <<>> /\ a.tail = "clean"
    BY <1>1, <1>4, AppendRest, AppendedDir DEF FailedAppends
  <2> HIDE DEF a
  <2>3. Sealed(a)
    BY <1>3, <1>8, <2>2 DEF Sealed, At
  <2>4. Live = {o} /\ outcome = "none"
    BY <1>2, OnlyOne
  <2>5. dir'[o] = a /\ \A p \in Ops : p # o => dir'[p] = dir[p]
    BY <1>2, <1>9
  <2>6. Live' = {o}
    BY <1>2, <2>2, <2>4, <2>5 DEF Live
  <2>7. DiskOK' /\ NewOK' /\ RefusalsAreExplained'
    BY <1>1, <1>3, <1>8, <2>1, <2>3, <2>4, <2>5, <2>6 DEF DiskOK, NewOK, RefusalsAreExplained
  <2>8. FaultPcOK'
    BY <2>1, <2>4 DEF FaultPcOK, Restoring, Undoing, RollingBack
  <2>9. QED
    BY <2>7, <2>8 DEF OneFault
<1>10. ASSUME Fault, NEW e \in FailedAppends(c, "completed"), dir' = [dir EXCEPT ![o] = e],
              Keep("rb-record")
       PROVE  OneFault'
  <2>1. pc' = "rb-record" /\ proc' = proc /\ outcome' = outcome /\ owner' = owner
    BY <1>1, <1>10 DEF Keep
  <2>2. /\ e.state = "live" /\ e.prior = c.prior /\ e.quar = c.quar /\ e.failed = c.failed
        /\ e.installed = c.installed
    BY <1>1, <1>4, AppendRest
  <2>3. LaidOut(main', e)
    BY <1>1, <1>4, <1>7, <1>8, FailedLayout
  <2>4. Undoable(main', proc', e)
    BY <1>1, <1>6, <2>1, <2>2, SameLayout DEF Undoable
  <2>5. QED
    BY <1>2, <1>10, <2>1, <2>2, <2>3, <2>4, Fails
<1>11. QED
  BY <1>1, <1>9, <1>10 DEF Record

-----------------------------------------------------------------------------
(* A rollback *)

\* A rollback works after the one fault there is.
LEMMA RollbackKnows ==
  ASSUME RestoreInv, AtomicInv, OneFault, pc \in RollingBack
  PROVE  LET d == dir[proc.op] IN
         /\ pc \in Restoring /\ d \in RestoreDirs /\ d.state = "live" /\ d.journal # <<>>
         /\ LaidOut(main, d) /\ RestorePointOK(pc, main, proc, d) /\ ~proc.errors
         /\ proc.op \in Ops /\ dir \in [Ops -> RestoreDirs] /\ main \in [Files -> Bytes]
         /\ proc \in Procs /\ proc.todo \subseteq Files
         /\ faults = 1 /\ (faults' <= 1 => ~Fault)
<1> DEFINE d == dir[proc.op]
<1>1. pc \in Restoring /\ pc \notin {"stage", "prepare"}
  BY DEF RollingBack, Restoring
<1>2. /\ d \in RestoreDirs /\ d.state = "live" /\ LaidOut(main, d) /\ d.journal # <<>>
      /\ RestorePointOK(pc, main, proc, d)
      /\ proc.op \in Ops /\ dir \in [Ops -> RestoreDirs] /\ main \in [Files -> Bytes]
      /\ proc \in Procs /\ proc.todo \subseteq Files
  BY <1>1, OnlyOne, RestoringOp, RestoreKnows
<1>3. faults = 1 /\ (faults' <= 1 => ~Fault)
  BY DEF OneFault, FaultPcOK, Fault
<1>4. ~proc.errors
  BY <1>2 DEF RestorePointOK
<1>5. QED
  BY <1>1, <1>2, <1>3, <1>4

\* The rollback is on record before it begins.
LEMMA RollbackRecordOne ==
  RestoreInv /\ AtomicInv /\ OneFault /\ faults' <= 1 /\ RollbackRecord => OneFault'
<1> SUFFICES ASSUME RestoreInv, AtomicInv, OneFault, faults' <= 1, RollbackRecord PROVE OneFault'
  OBVIOUS
<1> DEFINE o == proc.op
           d == dir[o]
           a == Appended(d, "rolling-back")
<1>1. pc = "rb-record" /\ main' = main /\ owner' = owner
  BY DEF RollbackRecord, History
<1>2. /\ pc \in Restoring /\ d \in RestoreDirs /\ d.state = "live" /\ d.journal # <<>>
      /\ LaidOut(main, d) /\ RestorePointOK("rb-record", main, proc, d) /\ ~proc.errors
      /\ proc \in Procs /\ faults = 1 /\ ~Fault
  BY <1>1, RollbackKnows DEF RollingBack
<1>3. /\ dir' = [dir EXCEPT ![o] = a] /\ pc' = "rb-preserve" /\ outcome' = outcome
      /\ proc' = [proc EXCEPT !.todo = IF proc.candidateInstalled THEN Files ELSE {}]
      /\ faults' = faults
  BY <1>2 DEF RollbackRecord
<1>4. /\ proc'.op = o /\ ~proc'.errors /\ proc'.moved = proc.moved
      /\ proc'.candidateInstalled = proc.candidateInstalled
      /\ proc'.todo = IF proc.candidateInstalled THEN Files ELSE {}
  BY <1>2, <1>3 DEF Procs
<1>5. LaidOut(main, a) /\ At(a, "rolling-back")
  BY <1>2, RollingBackLayout
<1>6. /\ a.state = "live" /\ a.prior = d.prior /\ a.quar = d.quar /\ a.failed = d.failed
      /\ a.installed = d.installed
  BY <1>2, AppendRest DEF FailedAppends, Phases
<1>7. IF proc.candidateInstalled THEN AllKept(d) /\ proc.moved = Present(d.prior)
      ELSE Split(main, d, proc.moved)
  BY <1>2 DEF RestorePointOK
<1> HIDE DEF a
<1>8. IF proc.candidateInstalled THEN AllKept(a) /\ proc.moved = Present(a.prior)
      ELSE Split(main, a, proc.moved)
  BY <1>6, <1>7, SameLayout
<1>9. RestorePointOK(pc', main', proc', a)
  BY <1>1, <1>3, <1>4, <1>5, <1>8 DEF RestorePointOK, Installing
<1>10. pc' \in Restoring /\ pc' \notin Undoing \cup {"stage", "prepare"}
  BY <1>3 DEF Restoring, Undoing
<1>11. QED
  BY <1>1, <1>2, <1>3, <1>4, <1>5, <1>6, <1>9, <1>10, Continues

\* A file of the candidate is taken out of the way.
LEMMA RollbackPreserveOne ==
  RestoreInv /\ AtomicInv /\ OneFault /\ faults' <= 1 /\ RollbackPreserve => OneFault'
<1> SUFFICES ASSUME RestoreInv, AtomicInv, OneFault, faults' <= 1, RollbackPreserve PROVE OneFault'
  OBVIOUS
<1> DEFINE o == proc.op
           d == dir[o]
           f == PrimaryFirst(proc.todo)
<1>1. /\ pc = "rb-preserve" /\ proc.todo # {} /\ owner' = owner /\ pc' = pc /\ outcome' = outcome
  BY DEF RollbackPreserve, History
<1>2. /\ pc \in Restoring /\ d \in RestoreDirs /\ d.state = "live" /\ LaidOut(main, d)
      /\ RestorePointOK("rb-preserve", main, proc, d) /\ ~proc.errors
      /\ o \in Ops /\ dir \in [Ops -> RestoreDirs] /\ main \in [Files -> Bytes]
      /\ proc \in Procs /\ proc.todo \subseteq Files /\ faults = 1 /\ ~Fault
  BY <1>1, RollbackKnows DEF RollingBack
<1>3. /\ Next1(proc) /\ faults' = faults
      /\ \/ main[f] = Absent /\ main' = main /\ dir' = dir
         \/ IntoDir(o, "failed", f)
  BY <1>2 DEF RollbackPreserve
<1>4. f \in Files
  BY <1>1, <1>2, NextFile
<1>5. /\ proc'.op = o /\ ~proc'.errors /\ proc'.moved = proc.moved
      /\ proc'.candidateInstalled = proc.candidateInstalled
      /\ proc'.todo = proc.todo \ {f}
  BY <1>2, <1>3 DEF Next1, Procs
<1>6. /\ proc.candidateInstalled /\ AllKept(d) /\ proc.moved = Present(d.prior)
      /\ \A g \in Files \ proc.todo : main[g] = Absent
  BY <1>1, <1>2 DEF RestorePointOK
<1>7. At(d, "rolling-back")
  BY <1>2 DEF RestorePointOK
<1> HIDE DEF f
<1>8. pc' \notin Undoing \cup {"stage", "prepare"}
  BY <1>1 DEF Undoing
<1>9. CASE main[f] = Absent /\ main' = main /\ dir' = dir
  <2>1. \A g \in Files \ proc'.todo : main'[g] = Absent
    BY <1>5, <1>6, <1>9
  <2>2. RestorePointOK(pc', main, proc', d)
    BY <1>1, <1>5, <1>6, <1>7, <1>9, <2>1 DEF RestorePointOK, Installing
  <2>3. QED
    BY <1>1, <1>2, <1>3, <1>5, <1>8, <1>9, <2>2, Proceeds
<1>10. CASE IntoDir(o, "failed", f)
  <2> DEFINE e == dir'[o]
  <2>1. /\ main'[f] = Absent /\ \A g \in Files : g # f => main'[g] = main[g]
        /\ dir' = [dir EXCEPT ![o] = e] /\ e.state = d.state /\ e.journal = d.journal
        /\ e.prior = d.prior /\ e.quar = d.quar
        /\ \A g \in Files : g # f => e.failed[g] = d.failed[g]
    BY <1>2, <1>4, <1>10, MovesInto
  <2> HIDE DEF e
  <2>2. AllKept(e) /\ At(e, "rolling-back")
    BY <1>6, <1>7, <2>1 DEF AllKept, At, ParsesJournal, LastPhase
  <2>3. Aside(main', e, f)
    BY <1>4, <2>1, <2>2 DEF AllKept, Aside
  <2>4. LaidOut(main', e)
    BY <1>2, <1>4, <1>7, <2>1, <2>3, UndoLayout
  <2>5. \A g \in Files \ proc'.todo : main'[g] = Absent
    BY <1>5, <1>6, <2>1
  <2>6. RestorePointOK(pc', main', proc', e)
    BY <1>1, <1>5, <1>6, <2>1, <2>2, <2>5 DEF RestorePointOK, Installing
  <2>7. QED
    BY <1>1, <1>2, <1>3, <1>5, <1>8, <2>1, <2>4, <2>6, Continues
<1>11. QED
  BY <1>3, <1>9, <1>10

\* Then what was moved aside is put back.
LEMMA RollbackPreservedOne ==
  RestoreInv /\ AtomicInv /\ OneFault /\ faults' <= 1 /\ RollbackPreserved => OneFault'
<1> SUFFICES ASSUME RestoreInv, AtomicInv, OneFault, faults' <= 1, RollbackPreserved PROVE OneFault'
  OBVIOUS
<1> DEFINE d == dir[proc.op]
<1>1. /\ pc = "rb-preserve" /\ proc.todo = {} /\ owner' = owner /\ pc' = "rb-restore"
      /\ outcome' = outcome /\ main' = main /\ dir' = dir /\ faults' = faults
      /\ proc' = [proc EXCEPT !.todo = proc.moved]
  BY DEF RollbackPreserved, History
<1>2. /\ pc \in Restoring /\ RestorePointOK("rb-preserve", main, proc, d) /\ ~proc.errors
      /\ proc \in Procs /\ faults = 1
  BY <1>1, RollbackKnows DEF RollingBack
<1>3. proc'.op = proc.op /\ ~proc'.errors /\ proc'.todo = proc.moved
  BY <1>1, <1>2 DEF Procs
<1>4. Split(main, d, proc.moved)
  <2>1. CASE proc.candidateInstalled
    <3>1. /\ AllKept(d) /\ proc.moved = Present(d.prior)
          /\ \A f \in Files : main[f] = Absent
      BY <1>1, <1>2, <2>1 DEF RestorePointOK
    <3>2. QED
      BY <3>1 DEF AllKept, Split, Present, Aside, InPlace
  <2>2. CASE ~proc.candidateInstalled
    BY <1>2, <2>2 DEF RestorePointOK
  <2>3. QED
    BY <2>1, <2>2
<1>5. At(d, "rolling-back")
  BY <1>2 DEF RestorePointOK
<1>6. RestorePointOK(pc', main, proc', d)
  BY <1>1, <1>3, <1>4, <1>5 DEF RestorePointOK, Installing
<1>7. pc' \in Restoring /\ pc' \notin Undoing \cup {"stage", "prepare"}
  BY <1>1 DEF Restoring, Undoing
<1>8. QED
  BY <1>1, <1>2, <1>3, <1>6, <1>7, Proceeds

\* A file that was moved aside finds its place free.
LEMMA RollbackRestoreOne ==
  RestoreInv /\ AtomicInv /\ OneFault /\ faults' <= 1 /\ RollbackRestore => OneFault'
<1> SUFFICES ASSUME RestoreInv, AtomicInv, OneFault, faults' <= 1, RollbackRestore PROVE OneFault'
  OBVIOUS
<1> DEFINE o == proc.op
           d == dir[o]
           f == PrimaryFirst(proc.todo)
           refused == d.quar[f] # d.prior[f] \/ main[f] # Absent
<1>1. /\ pc = "rb-restore" /\ proc.todo # {} /\ owner' = owner /\ pc' = pc /\ outcome' = outcome
  BY DEF RollbackRestore, History
<1>2. /\ pc \in Restoring /\ d \in RestoreDirs /\ d.state = "live" /\ LaidOut(main, d)
      /\ RestorePointOK("rb-restore", main, proc, d) /\ ~proc.errors
      /\ o \in Ops /\ dir \in [Ops -> RestoreDirs] /\ main \in [Files -> Bytes]
      /\ proc \in Procs /\ proc.todo \subseteq Files /\ faults = 1 /\ ~Fault
  BY <1>1, RollbackKnows DEF RollingBack
<1>3. f \in Files /\ f \in proc.todo
  BY <1>1, <1>2, NextFile
<1>4. Split(main, d, proc.todo) /\ At(d, "rolling-back")
  BY <1>2 DEF RestorePointOK
<1>5. main[f] = Absent /\ d.quar[f] = d.prior[f]
  BY <1>3, <1>4 DEF Split, Aside
<1>6. /\ Next1(proc) /\ faults' = faults
      /\ \/ d.quar[f] = Absent /\ main' = main /\ dir' = dir
         \/ BackToMain(o, f)
  BY <1>2, <1>5 DEF RollbackRestore, Here
<1>7. proc'.op = o /\ ~proc'.errors /\ proc'.todo = proc.todo \ {f}
  BY <1>2, <1>6 DEF Next1, Procs
<1> HIDE DEF f
<1>8. pc' \notin Undoing \cup {"stage", "prepare"}
  BY <1>1 DEF Undoing
<1>9. CASE d.quar[f] = Absent /\ main' = main /\ dir' = dir
  <2>1. Split(main, d, proc'.todo)
    BY <1>4, <1>5, <1>7, <1>9 DEF Split, InPlace, Aside
  <2>2. RestorePointOK(pc', main, proc', d)
    BY <1>1, <1>4, <1>7, <2>1 DEF RestorePointOK, Installing
  <2>3. QED
    BY <1>1, <1>2, <1>6, <1>7, <1>8, <1>9, <2>2, Proceeds
<1>10. CASE BackToMain(o, f)
  <2> DEFINE e == dir'[o]
  <2>1. /\ main'[f] = d.quar[f] /\ \A g \in Files : g # f => main'[g] = main[g]
        /\ dir' = [dir EXCEPT ![o] = e] /\ e.state = d.state /\ e.journal = d.journal
        /\ e.prior = d.prior /\ e.failed = d.failed
        /\ e.quar[f] = Absent /\ \A g \in Files : g # f => e.quar[g] = d.quar[g]
    BY <1>2, <1>3, <1>10, MovesBack
  <2> HIDE DEF e
  <2>2. InPlace(main', e, f)
    BY <1>5, <2>1 DEF InPlace
  <2>3. LaidOut(main', e)
    BY <1>2, <1>3, <1>4, <2>1, <2>2, UndoLayout
  <2>4. At(e, "rolling-back")
    BY <1>4, <2>1 DEF At, ParsesJournal, LastPhase
  <2>5. Split(main', e, proc'.todo)
    BY <1>4, <1>7, <2>1, <2>2 DEF Split, InPlace, Aside
  <2>6. RestorePointOK(pc', main', proc', e)
    BY <1>1, <1>7, <2>4, <2>5 DEF RestorePointOK, Installing
  <2>7. QED
    BY <1>1, <1>2, <1>6, <1>7, <1>8, <2>1, <2>3, <2>6, Continues
<1>11. QED
  BY <1>6, <1>9, <1>10

\* A rollback after one fault verifies.
LEMMA RollbackFinishOne ==
  RestoreInv /\ AtomicInv /\ OneFault /\ faults' <= 1 /\ RollbackFinish => OneFault'
<1> SUFFICES ASSUME RestoreInv, AtomicInv, OneFault, faults' <= 1, RollbackFinish PROVE OneFault'
  OBVIOUS
<1> DEFINE o == proc.op
           d == dir[o]
           a == Appended(d, "rolled-back")
<1>1. pc = "rb-restore" /\ proc.todo = {} /\ owner' = owner /\ main' = main
  BY DEF RollbackFinish, History
<1>2. /\ pc \in Restoring /\ d \in RestoreDirs /\ d.state = "live" /\ d.journal # <<>>
      /\ RestorePointOK("rb-restore", main, proc, d) /\ ~proc.errors
      /\ main \in [Files -> Bytes] /\ faults = 1 /\ ~Fault
  BY <1>1, RollbackKnows DEF RollingBack
<1>3. AllInPlace(main, d)
  BY <1>1, <1>2 DEF RestorePointOK, Split, AllInPlace
<1>4. main = d.prior
  BY <1>2, <1>3, DirFields DEF AllInPlace, InPlace
<1>5. RollbackVerified
  BY <1>2, <1>4 DEF RollbackVerified, Here
<1>6. dir' = [dir EXCEPT ![o] = a] /\ Keep("rb-discard") /\ faults' = faults
  BY <1>2, <1>5 DEF RollbackFinish
<1>7. pc' = "rb-discard" /\ proc' = proc /\ outcome' = outcome
  BY <1>6 DEF Keep
<1>8. "rolled-back" \in Phases
  BY DEF Phases
<1>9. /\ a.state = "live" /\ a.prior = d.prior /\ a.quar = d.quar /\ a.failed = d.failed
      /\ a.installed = d.installed
  BY <1>2, <1>8, AppendRest DEF FailedAppends
<1>10. LaidOut(main, a)
  BY <1>2, <1>3, <1>8, NextLayout DEF LayoutOf
<1> HIDE DEF a
<1>11. AllInPlace(main, a)
  BY <1>3, <1>9, SameLayout
<1>12. RestorePointOK(pc', main', proc', a)
  BY <1>1, <1>2, <1>7, <1>11 DEF RestorePointOK, Installing
<1>13. pc' \in Restoring /\ pc' \notin Undoing \cup {"stage", "prepare"}
  BY <1>7 DEF Restoring, Undoing
<1>14. QED
  BY <1>1, <1>2, <1>6, <1>7, <1>9, <1>10, <1>12, <1>13, Continues

\* The directory of a restore that was rolled back is removed.
LEMMA RollbackDiscardOne ==
  RestoreInv /\ AtomicInv /\ OneFault /\ faults' <= 1 /\ RollbackDiscard => OneFault'
<1> SUFFICES ASSUME RestoreInv, AtomicInv, OneFault, faults' <= 1, RollbackDiscard PROVE OneFault'
  OBVIOUS
<1> DEFINE o == proc.op
           d == dir[o]
           e == [d EXCEPT !.state = "gone"]
<1>1. pc = "rb-discard" /\ owner' = owner /\ main' = main /\ OfferRecovery(proc)
  BY DEF RollbackDiscard, History
<1>2. /\ pc \in Restoring /\ d \in RestoreDirs /\ d.state = "live" /\ d.journal # <<>>
      /\ RestorePointOK("rb-discard", main, proc, d) /\ o \in Ops
      /\ main \in [Files -> Bytes] /\ faults = 1 /\ ~Fault
  BY <1>1, RollbackKnows DEF RollingBack
<1>3. dir' = [dir EXCEPT ![o] = e]
  BY <1>2 DEF RollbackDiscard
<1>4. e.state # "live"
  BY <1>2 DEF RestoreDirs
<1> HIDE DEF e
<1>5. main = d.prior
  BY <1>2, DirFields DEF RestorePointOK, AllInPlace, InPlace
<1>6. Acting /\ o \in Live
  BY <1>2, WorkingOp
<1>7. d.prior["db"] = Absent => d.prior = NoFiles
  BY <1>2, <1>6 DEF AtomicInv, SoundOK, Acting
<1>8. QED
  BY <1>1, <1>2, <1>3, <1>4, <1>5, <1>7, LetsGo

-----------------------------------------------------------------------------
(* The store *)

\* A store is only opened when nothing is left that could be undone.
LEMMA AllSealed ==
  ASSUME RestoreInv, AtomicInv, OneFault, pc \in {"open", "running"}
  PROVE  /\ \A o \in Live : Sealed(dir[o])
         /\ owner \in {"none", "old", "lost"} => Live = {}
<1>1. Opening
  BY DEF Opening
<1>2. owner \in {"none", "old", "lost"} => Live = {}
  <2>1. owner = "none" => Live = {}
    BY DEF AtomicInv, NoneOK, Live
  <2>2. owner = "old" => Live = {}
    BY DEF RestoreInv, OldOK
  <2>3. owner = "lost" => Live = {}
    BY <1>1 DEF AtomicInv, LostOK
  <2>4. QED
    BY <2>1, <2>2, <2>3
<1>3. owner \in {"new", "own"} => Live = {} \/ \E o \in Live : Sealed(dir[o])
  BY <1>1 DEF AtomicInv, OwnOK, SoundOK
<1>4. \A o, p \in Live : o = p
  BY DEF OneFault, DiskOK
<1>5. Live = {} \/ \E o \in Live : Sealed(dir[o])
  BY <1>2, <1>3 DEF RestoreInv, Typed
<1>6. QED
  BY <1>2, <1>4, <1>5

\* A step of an open store.
LEMMA Serves ==
  ASSUME RestoreInv, AtomicInv, OneFault, pc \in {"open", "running"}, dir' = dir,
         pc' \in {"running", "off"}, owner' = "new" => main'["db"] = "audited",
         pc' # "off" => outcome' = "none", outcome' # "unavailable"
  PROVE  OneFault'
<1>1. Live' = Live
  BY DEF Live
<1>2. \A o \in Live : Sealed(dir[o]) /\ LaidOut(main', dir[o])
  BY AllSealed, SealedLayout DEF OneFault, DiskOK
<1>3. DiskOK'
  BY <1>1, <1>2 DEF DiskOK, OneFault
<1>4. NewOK' /\ RefusalsAreExplained'
  BY <1>1, <1>2 DEF NewOK, RefusalsAreExplained
<1>5. FaultPcOK'
  BY DEF FaultPcOK, Restoring, Undoing, RollingBack
<1>6. QED
  BY <1>3, <1>4, <1>5 DEF OneFault

\* A store is opened, or the recovery is offered, or the marker cannot be written.
LEMMA OpenStoreOne == RestoreInv /\ AtomicInv /\ OneFault /\ OpenStore => OneFault'
<1> SUFFICES ASSUME RestoreInv, AtomicInv, OneFault, OpenStore PROVE OneFault'
  OBVIOUS
<1> DEFINE bytes == IF main["db"] = Absent THEN "own" ELSE main["db"]
<1>1. pc = "open" /\ dir' = dir /\ "db" \in Files
  BY DEF OpenStore, Files
<1>2. /\ outcome = "none" /\ proc \in Procs /\ (main["db"] = Absent => main = NoFiles)
      /\ owner = "new" => main["db"] = "audited"
  BY <1>1 DEF OneFault, FaultPcOK, NewOK, RestoreInv, Typed
<1>3. CASE /\ IF main["db"] = Absent THEN marker ELSE main["db"] = "prior"
           /\ OfferRecovery(proc) /\ main' = main /\ owner' = owner
  <2>1. owner \notin {"new", "none", "own"}
    BY <1>1, <1>2, <1>3 DEF AtomicInv, NoneOK, OwnOK, NoFiles, Absent
  <2>2. Live = {}
    BY <1>1, <2>1, AllSealed DEF RestoreInv, Typed
  <2>3. Live' = {}
    BY <1>1, <2>2 DEF Live
  <2>4. QED
    BY <1>2, <1>3, <2>1, <2>3, Offers
<1>4. CASE /\ owner' = IF main["db"] = Absent THEN "own" ELSE owner
           /\ \/ main' = WithSqliteSidecars(bytes) /\ pc' = "running" /\ outcome' = outcome
              \/ /\ main' = [f \in Files |-> IF f = "db" THEN bytes ELSE Absent]
                 /\ EndStart("io-error")
  <2>1. /\ main'["db"] = bytes /\ pc' \in {"running", "off"} /\ (pc' # "off" => outcome' = "none")
        /\ outcome' # "unavailable"
    BY <1>1, <1>2, <1>4 DEF WithSqliteSidecars, EndStart
  <2>2. owner' = "new" => main'["db"] = "audited"
    BY <1>2, <1>4, <2>1
  <2>3. QED
    BY <1>1, <2>1, <2>2, Serves
<1>5. QED
  BY <1>3, <1>4 DEF OpenStore

\* The application writes.
LEMMA WorkOne == RestoreInv /\ AtomicInv /\ OneFault /\ Work => OneFault'
<1> SUFFICES ASSUME RestoreInv, AtomicInv, OneFault, Work PROVE OneFault'
  OBVIOUS
<1>1. pc = "running" /\ pc' = pc /\ dir' = dir /\ owner' = "own" /\ outcome' = outcome
  BY DEF Work
<1>2. outcome = "none"
  BY <1>1 DEF OneFault, FaultPcOK
<1>3. QED
  BY <1>1, <1>2, Serves

\* The application quits.
LEMMA CloseStoreOne == RestoreInv /\ AtomicInv /\ OneFault /\ CloseStore => OneFault'
<1> SUFFICES ASSUME RestoreInv, AtomicInv, OneFault, CloseStore PROVE OneFault'
  OBVIOUS
<1>1. /\ pc = "running" /\ pc' = "off" /\ dir' = dir /\ owner' = owner /\ outcome' = "opened"
      /\ main' = WithoutSidecars(main) /\ "db" \in Files
  BY DEF CloseStore, EndStart, History, Files
<1>2. owner' = "new" => main'["db"] = "audited"
  BY <1>1 DEF WithoutSidecars, OneFault, NewOK
<1>3. QED
  BY <1>1, <1>2, Serves

-----------------------------------------------------------------------------
(* Crashes, and every behaviour *)

\* A start that is interrupted tears at most one append of a restore.
LEMMA InterruptedOne ==
  ASSUME RestoreInv, AtomicInv, OneFault, NEW how, how # "unavailable", Interrupted(how)
  PROVE  OneFault'
<1> DEFINE o == proc.op
           d == dir[o]
           e == Torn(d)
<1>1. EndStart(how) /\ main' = main /\ owner' = owner
  BY DEF Interrupted, History
<1>2. CASE dir' = dir
  BY <1>1, <1>2, Quits
<1>3. CASE Appending /\ dir' = [dir EXCEPT ![o] = e]
  <2>1. pc \in Restoring \cup Undoing
    BY <1>3 DEF Appending, AppendPoints, Restoring, Undoing
  <2>2. /\ d \in RestoreDirs /\ d.state = "live" /\ Live = {o} /\ o \in Ops
        /\ dir \in [Ops -> RestoreDirs] /\ LaidOut(main, d)
    BY <2>1, OnlyOne
  <2>3. /\ e.state = "live" /\ e.prior = d.prior /\ e.quar = d.quar /\ e.journal = d.journal
        /\ e.failed = d.failed /\ e.installed = d.installed /\ e.tail = "torn"
    BY <2>2 DEF Torn, RestoreDirs
  <2> HIDE DEF e
  <2>4. dir'[o] = e /\ \A p \in Ops : p # o => dir'[p] = dir[p]
    BY <1>3, <2>2
  <2>5. Live' = Live
    BY <2>2, <2>3, <2>4 DEF Live
  <2>6. LaidOut(main, e)
    BY <2>2, <2>3, SameLayout
  <2>7. Sealed(d) => Sealed(e)
    BY <2>3 DEF Sealed, ParsesJournal, LastPhase
  <2>8. QED
    BY <1>1, <2>2, <2>4, <2>5, <2>6, <2>7, Stops
<1>4. QED
  BY <1>2, <1>3 DEF Interrupted

\* A crash, and a file operation that fails while the store is opened.
LEMMA CrashOne == RestoreInv /\ AtomicInv /\ OneFault /\ (Crash \/ OpeningFails) => OneFault'
  BY InterruptedOne DEF Crash, OpeningFails

\* A step in which nothing happens.
LEMMA OneStutters == OneFault /\ UNCHANGED restoreVars => OneFault'
<1> SUFFICES ASSUME OneFault, UNCHANGED restoreVars PROVE OneFault'
  OBVIOUS
<1>1. /\ main' = main /\ dir' = dir /\ pc' = pc /\ proc' = proc /\ owner' = owner
      /\ outcome' = outcome /\ faults' = faults
  BY DEF restoreVars
<1>2. Live' = Live
  BY <1>1 DEF Live
<1>3. DiskOK' /\ NewOK' /\ RefusalsAreExplained'
  BY <1>1, <1>2 DEF OneFault, DiskOK, NewOK, RefusalsAreExplained
<1>4. FaultPcOK'
  BY <1>1, <1>2 DEF OneFault, FaultPcOK
<1>5. QED
  BY <1>3, <1>4 DEF OneFault

\* Faults are only ever counted up.
LEMMA FaultsGrow == RestoreInv /\ [RestoreNext]_restoreVars => faults <= faults'
<1> SUFFICES ASSUME RestoreInv, [RestoreNext]_restoreVars PROVE faults <= faults'
  OBVIOUS
<1>1. faults \in Nat
  BY RestoreAssumption DEF RestoreInv, Typed
<1>2. Fault => faults <= faults'
  BY <1>1 DEF Fault
<1>3. UNCHANGED faults => faults <= faults'
  BY <1>1
<1>4. ASSUME NEW d, NEW n \in {0, 1}, Abandon(d, n) PROVE faults <= faults'
  BY <1>1, <1>4 DEF Abandon
<1>5. CASE \/ UNCHANGED restoreVars \/ Start \/ Work \/ CloseStore \/ Crash \/ OpeningFails
           \/ PrepareBoundary \/ ScanEnds \/ (\E o \in Ops : RemoveDiscarded(o) \/ ScanDirectory(o)) \/ UndoRecord
           \/ UndoPreserve \/ UndoPreserved \/ UndoRestore \/ UndoFinish \/ UndoDiscard
           \/ RollbackPreserved
  BY <1>3, <1>5 DEF restoreVars, Start, Work, CloseStore, Crash, OpeningFails, Interrupted,
     PrepareBoundary, ScanEnds, RemoveDiscarded, ScanDirectory, UndoRecord, UndoPreserve,
     UndoPreserved, UndoRestore, UndoFinish, UndoDiscard, RollbackPreserved
<1>6. CASE ChooseBackup \/ CreateRestoreDirectory \/ OpenStore
  BY <1>2, <1>3, <1>6 DEF ChooseBackup, CreateRestoreDirectory, OpenStore
<1>7. CASE StageCandidate \/ RecordPrepared
  BY <1>3, <1>4, <1>7 DEF StageCandidate, RecordPrepared
<1>8. CASE RecordQuarantining \/ RecordQuarantined \/ RecordInstalled \/ RecordCompleted
  BY <1>2, <1>3, <1>8
     DEF RecordQuarantining, RecordQuarantined, RecordInstalled, RecordCompleted, Record
<1>9. CASE QuarantineNext \/ InstallCandidate \/ OpenInstalled \/ CloseInstalled
  BY <1>2, <1>3, <1>9 DEF QuarantineNext, InstallCandidate, OpenInstalled, CloseInstalled
<1>10. CASE \/ RollbackRecord \/ RollbackPreserve \/ RollbackRestore \/ RollbackFinish
            \/ RollbackDiscard
  BY <1>2, <1>3, <1>10 DEF RollbackRecord, RollbackPreserve, RollbackRestore, RollbackFinish,
     RollbackDiscard
<1>11. QED
  BY <1>5, <1>6, <1>7, <1>8, <1>9, <1>10 DEF RestoreNext, ProcessStep

\* Every step of the program, and every crash, keeps the invariant.
LEMMA OneFaultStep ==
  RestoreInv /\ AtomicInv /\ OneFaultInv /\ [RestoreNext]_restoreVars => OneFaultInv'
<1> SUFFICES ASSUME RestoreInv, AtomicInv, OneFaultInv, [RestoreNext]_restoreVars, faults' <= 1
             PROVE  OneFault'
  BY DEF OneFaultInv
<1>1. faults \in Nat /\ faults <= faults' /\ faults' \in Nat
  <2>1. RestoreInv'
    BY RestoreStep
  <2>2. QED
    BY <2>1, FaultsGrow, RestoreAssumption DEF RestoreInv, Typed
<1>2. OneFault
  BY <1>1 DEF OneFaultInv
<1>3. QED
  BY <1>2, StartOne, PrepareBoundaryOne, RemoveDiscardedOne, ScanDirectoryOne, ScanEndsOne,
     UndoRecordOne, UndoPreserveOne, UndoPreservedOne, UndoRestoreOne, UndoFinishOne,
     UndoDiscardOne, OpenStoreOne, WorkOne, CloseStoreOne, ChooseBackupOne, CreateOne,
     StageCandidateOne, RecordPreparedOne, RecordQuarantiningOne, QuarantineNextOne,
     RecordQuarantinedOne, InstallCandidateOne, RecordInstalledOne, ValidateOne,
     RecordCompletedOne, RollbackRecordOne, RollbackPreserveOne, RollbackPreservedOne,
     RollbackRestoreOne, RollbackFinishOne, RollbackDiscardOne, CrashOne, OneStutters
     DEF RestoreNext, ProcessStep

\* At the first start no restore is in use and nothing was refused.
LEMMA OneFaultInitially == RestoreInit => OneFaultInv
<1> SUFFICES ASSUME RestoreInit PROVE OneFault
  BY DEF OneFaultInv
<1>1. Live = {} /\ pc = "off" /\ outcome = "none" /\ owner # "new"
  BY DEF RestoreInit, Live, EmptyDir
<1>2. DiskOK /\ NewOK /\ RefusalsAreExplained
  BY <1>1 DEF DiskOK, NewOK, RefusalsAreExplained
<1>3. FaultPcOK
  BY <1>1 DEF FaultPcOK, Restoring, Undoing, RollingBack
<1>4. QED
  BY <1>2, <1>3 DEF OneFault

\* The inductive invariant: up to the second fault one restore directory at most is in use,
\* and the files are as its journal says.
THEOREM OneFaultInvariance == RestoreSpec => []OneFaultInv
  BY OneFaultInitially, OneFaultStep, RestoreInvariance, AtomicInvariance, PTL DEF RestoreSpec

\* As long as at most one file operation of a restore has failed (the boundary check, the
\* reconciliation and the opening may fail any number of times), a completed restore stays:
\* no start, crash, scan of restore directories or attempt at another restore takes the
\* installed database away again.
THEOREM CompletedRestoreStays == RestoreSpec => [](faults <= 1 => RestoredFilesSurvive)
<1>1. AtomicInv /\ OneFaultInv => (faults <= 1 => RestoredFilesSurvive)
  BY DEF AtomicInv, OwnOK, OneFaultInv, OneFault, NewOK, RestoredFilesSurvive
<1>2. QED
  BY <1>1, AtomicInvariance, OneFaultInvariance, PTL

\* As long as at most one file operation of a restore has failed, a start in which none fails
\* refuses the database only for sidecars without their primary, a journal that cannot be
\* read, or a completed restore whose database has changed: never because two restores are in
\* use, never because the files contradict a journal that can be read and is not complete, and
\* whatever file operations failed while earlier starts opened the store.
THEOREM RefusalsExplained == RestoreSpec => [](faults <= 1 => RefusalsAreExplained)
<1>1. OneFaultInv => (faults <= 1 => RefusalsAreExplained)
  BY DEF OneFaultInv, OneFault
<1>2. QED
  BY <1>1, OneFaultInvariance, PTL

=============================================================================
