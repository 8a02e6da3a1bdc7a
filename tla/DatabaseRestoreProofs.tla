----------------------- MODULE DatabaseRestoreProofs -----------------------
(***************************************************************************)
(* No interruption of a restore loses the old database: proofs about       *)
(* DatabaseRestore for any number of sidecars, restores, starts and failed *)
(* file operations.                                                        *)
(*                                                                         *)
(* Several restores may be unfinished at once, when one fails and cannot   *)
(* be rolled back and the next is tried.  The inductive invariant says of  *)
(* each that it bound the old bytes as its prior files, or that an earlier *)
(* unfinished restore has them in its quarantine; so the one that is left  *)
(* alone to be undone knows what it must put back.                         *)
(***************************************************************************)
EXTENDS DatabaseRestore, WellFoundedInduction, TLAPS

-----------------------------------------------------------------------------
(* The next file *)

Below == {p \in Nat \X Nat : p[1] < p[2]}

\* The library's theorem, without its operator parameter.
LEMMA BelowWellFounded == IsWellFoundedOn(Below, Nat)
  BY NatLessThanWellFounded DEF OpToRel, Below

\* A set of natural numbers has a least element.
LEMMA LeastNumber ==
  ASSUME NEW S \in SUBSET Nat, S # {}
  PROVE  \E x \in S : \A y \in S : x <= y
<1>1. PICK x \in S : \A y \in S : <<y, x>> \notin Below
  BY BelowWellFounded, WFMin
<1>2. ASSUME NEW y \in S PROVE x <= y
  <2>1. x \in Nat /\ y \in Nat
    OBVIOUS
  <2>2. SUFFICES ASSUME y < x PROVE FALSE
    BY <2>1
  <2>3. <<y, x>>[1] < <<y, x>>[2]
    BY <2>2
  <2>4. <<y, x>> \in Below
    BY <2>1, <2>3 DEF Below
  <2>5. QED
    BY <1>1, <2>4
<1>3. QED
  BY <1>2

\* The next of some files is one of them.
LEMMA NextFile ==
  ASSUME NEW S \in SUBSET Files, S # {}
  PROVE  PrimaryFirst(S) \in S /\ PrimaryLast(S) \in S
<1>1. ASSUME NEW f \in Files PROVE Place(f) \in Nat
  <2>1. CASE f = "db"
    BY <2>1 DEF Place
  <2>2. CASE f # "db"
    <3>1. \E i \in 1..Len(Sidecars) : Sidecars[i] = f
      BY <2>2 DEF Files
    <3>2. Len(Sidecars) \in Nat
      BY RestoreAssumption
    <3>3. QED
      BY <2>2, <3>1, <3>2 DEF Place
  <2>3. QED
    BY <2>1, <2>2
<1>2. ASSUME NEW T \in SUBSET Files, T # {} PROVE PrimaryFirst(T) \in T
  <2> DEFINE P == {Place(f) : f \in T}
  <2>1. P \in SUBSET Nat /\ P # {}
    BY <1>1, <1>2
  <2>2. PICK x \in P : \A y \in P : x <= y
    BY <2>1, LeastNumber
  <2>3. \E f \in T : \A g \in T : Place(f) <= Place(g)
    BY <2>2
  <2>4. QED
    BY <2>3 DEF PrimaryFirst
<1>3. PrimaryFirst(S) \in S
  BY <1>2
<1>4. PrimaryLast(S) \in S
  <2>1. CASE S \subseteq {"db"}
    BY <2>1 DEF PrimaryLast
  <2>2. CASE ~(S \subseteq {"db"})
    <3>1. S \ {"db"} \in SUBSET Files /\ S \ {"db"} # {}
      BY <2>2
    <3>2. PrimaryFirst(S \ {"db"}) \in S \ {"db"}
      BY <1>2, <3>1
    <3>3. QED
      BY <2>2, <3>2 DEF PrimaryLast
  <2>3. QED
    BY <2>1, <2>2
<1>5. QED
  BY <1>3, <1>4

-----------------------------------------------------------------------------
(* The inductive invariant *)

Restoring == {"stage", "prepare", "record-quarantining", "quarantine", "install",
              "record-installed", "validate", "validating", "complete",
              "rb-record", "rb-preserve", "rb-restore", "rb-discard"}
Undoing == {"undo-record", "undo-preserve", "undo-restore", "undo-discard"}
Points == Restoring \cup Undoing
            \cup {"off", "boundary", "scan", "open", "dialog", "create", "running"}
Views == {"closed", "own", "new", "old", "mixed"}
Procs == [op : {0} \cup Ops, moved : SUBSET Files, candidateInstalled : BOOLEAN,
          errors : BOOLEAN, todo : SUBSET Files, scanned : SUBSET Ops,
          attempt : 0..MaxAttempts, reconciled : BOOLEAN,
          phase : Phases \cup {"garbled", "none"}, view : Views]

Typed ==
  /\ main \in [Files -> Bytes] /\ origin \in [Files -> {Absent, "prior"}]
  /\ dir \in [Ops -> RestoreDirs] /\ marker \in BOOLEAN
  /\ starts \in 0..MaxStarts /\ faults \in 0..MaxFaults
  /\ pc \in Points /\ proc \in Procs
  /\ pc = "dialog" => proc.attempt < MaxAttempts
  /\ outcome \in {"none", "unavailable", "io-error", "quit", "opened", "crashed"}
  /\ owner \in {"none", "lost", "old", "new", "own"}

\* What a restore directory holds.
dirOK(d) ==
  /\ d.state = "unused" => d = EmptyDir
  /\ \A f \in Files : d.quar[f] # Absent => d.quar[f] = d.prior[f]
  /\ d.journal = <<>> => d.quar = NoFiles
  /\ d.tail = "nofile" => d.journal = <<>>


noPrior(m) == \A f \in Files : m[f] # "prior"

PcOK ==
  /\ \A o \in proc.scanned : dir[o].journal # <<>>
  /\ pc \in Restoring => /\ proc.op \in Live
                         /\ \A o \in Ops : o > proc.op => dir[o].state = "unused"
  /\ pc \in Undoing => Live = {proc.op} /\ dir[proc.op].journal # <<>>
  /\ pc \in Restoring => (pc \in {"stage", "prepare"} <=> dir[proc.op].journal = <<>>)
  /\ pc \in {"dialog", "create", "stage", "prepare", "record-quarantining", "quarantine", "install"}
       => ~proc.candidateInstalled
  /\ pc = "record-quarantining" => main = dir[proc.op].prior
  /\ pc = "quarantine" =>
       /\ \A f \in Files : main[f] # Absent => f \in proc.todo
       /\ \A f \in proc.todo : main[f] = dir[proc.op].prior[f]
  /\ pc = "install" => noPrior(main)
  /\ pc \in {"record-installed", "validate", "validating", "complete"} => noPrior(main)
  /\ pc = "rb-record" /\ proc.candidateInstalled => noPrior(main)
  /\ pc = "rb-preserve" => proc.todo = {} \/ noPrior(main)
  /\ pc = "rb-discard" => \A f \in Present(dir[proc.op].prior) : main[f] = dir[proc.op].prior[f]
  /\ pc = "undo-restore" =>
       \A f \in Present(dir[proc.op].prior) \ proc.todo : dir[proc.op].quar[f] = Absent
  /\ pc = "undo-discard" => dir[proc.op].quar = NoFiles

OldOK ==
  owner = "old" =>
    /\ origin["db"] = "prior"
    /\ pc # "running"
    /\ pc = "open" \/ (pc = "boundary" /\ proc.reconciled) => Live = {}
    /\ \A o \in Live, f \in Present(origin) :
         dir[o].journal # <<>> =>
           dir[o].prior[f] = "prior" \/ \E p \in Live : p < o /\ dir[p].quar[f] = "prior"

DirsOK ==
  /\ \A o \in Ops : dirOK(dir[o])
  /\ \A o, p \in Ops : o < p /\ dir[o].state = "unused" => dir[p].state = "unused"
RestoreInv == Typed /\ DirsOK /\ PcOK /\ OldOK /\ PriorFilesSurvive

-----------------------------------------------------------------------------
(* Restore directories *)

\* The fields of a restore directory.
LEMMA DirFields ==
  ASSUME NEW d \in RestoreDirs
  PROVE  /\ d.state \in {"unused", "live", "discard", "gone"} /\ d.tail \in Tails
         /\ d.journal \in Seq(Phases \cup {"garbled"}) /\ d.cand \in BOOLEAN
         /\ d.prior \in [Files -> Bytes] /\ d.installed \in [Files -> Bytes]
         /\ d.quar \in [Files -> Bytes] /\ d.failed \in [Files -> Bytes]
  BY DEF RestoreDirs

\* e has the files and the stage of d, and the beginnings of its journal.
Alike(d, e) ==
  /\ e \in RestoreDirs /\ dirOK(e)
  /\ e.state = "live" <=> d.state = "live"
  /\ e.state = "unused" <=> d.state = "unused"
  /\ e.prior = d.prior /\ e.quar = d.quar /\ (e.journal = <<>> <=> d.journal = <<>>)

\* Appending a record starts or extends the journal and moves no file.
LEMMA AppendedDir ==
  ASSUME NEW d \in RestoreDirs, NEW ph \in Phases
  PROVE  LET e == Appended(d, ph) IN
         /\ e \in RestoreDirs /\ e.state = d.state /\ e.prior = d.prior /\ e.quar = d.quar
         /\ e.journal # <<>> /\ e.tail = "clean"
<1> DEFINE x == IF d.tail = "torn" THEN "garbled" ELSE ph
           j == Append(d.journal, x)
<1>1. x \in Phases \cup {"garbled"} /\ d.journal \in Seq(Phases \cup {"garbled"})
  BY DirFields
<1>2. j \in Seq(Phases \cup {"garbled"}) /\ j # <<>>
  BY <1>1
<1>3. Appended(d, ph) = [d EXCEPT !.journal = j, !.tail = "clean"]
  BY DEF Appended
<1> HIDE DEF x, j
<1>4. QED
  BY <1>2, <1>3 DEF RestoreDirs, Tails

\* A torn append leaves the files and the records.
LEMMA TornDir ==
  ASSUME NEW d \in RestoreDirs
  PROVE  LET e == Torn(d) IN
         /\ e \in RestoreDirs /\ e.state = d.state /\ e.prior = d.prior /\ e.quar = d.quar
         /\ e.journal = d.journal /\ e.tail = "torn"
  BY DEF Torn, RestoreDirs, Tails

\* Appending to a journal, or failing to, keeps all that matters of a directory in use.
LEMMA AppendsAlike ==
  ASSUME NEW d \in RestoreDirs, dirOK(d), d.state # "unused", NEW ph \in Phases
  PROVE  /\ d.journal # <<>> => Alike(d, Appended(d, ph))
         /\ Alike(d, Torn(d)) /\ Alike(d, d)
         /\ d.journal # <<>> => \A e \in FailedAppends(d, ph) : Alike(d, e)
<1>1. d.journal # <<>> => Alike(d, Appended(d, ph))
  BY AppendedDir DEF Alike, dirOK
<1>2. Alike(d, Torn(d)) /\ Alike(d, d)
  BY TornDir DEF Alike, dirOK
<1>3. QED
  BY <1>1, <1>2 DEF FailedAppends

-----------------------------------------------------------------------------
(* Kinds of steps *)

\* A step that changes one directory in nothing that matters, and nothing of the old
\* database that is not in quarantine as well.
LEMMA AlikeStep ==
  ASSUME RestoreInv, NEW o \in Ops, NEW e, Alike(dir[o], e), dir' = [dir EXCEPT ![o] = e],
         owner' = owner, origin' = origin, pc' \notin {"running", "open", "boundary"},
         owner = "old" => \A f \in Present(origin) : main[f] = "prior" =>
           main'[f] = "prior" \/ \E p \in Live : dir[p].quar[f] = "prior"
  PROVE  /\ dir' \in [Ops -> RestoreDirs] /\ DirsOK' /\ OldOK' /\ PriorFilesSurvive' /\ Live' = Live
         /\ dir'[o] = e /\ \A p \in Ops : p # o => dir'[p] = dir[p]
         /\ \A p \in Ops : dir'[p].journal = <<>> <=> dir[p].journal = <<>>
<1>1. dir \in [Ops -> RestoreDirs] /\ DirsOK /\ OldOK /\ PriorFilesSurvive
  BY DEF RestoreInv, Typed
<1>2. /\ dir' \in [Ops -> RestoreDirs] /\ dir'[o] = e /\ \A p \in Ops : p # o => dir'[p] = dir[p]
  BY <1>1 DEF Alike
<1>3. \A p \in Ops : /\ dir'[p].state = "live" <=> dir[p].state = "live"
                     /\ dir'[p].state = "unused" <=> dir[p].state = "unused"
                     /\ dir'[p].prior = dir[p].prior /\ dir'[p].quar = dir[p].quar
                     /\ dir'[p].journal = <<>> <=> dir[p].journal = <<>>
  BY <1>2 DEF Alike
<1>4. DirsOK'
  <2>1. \A p \in Ops : dirOK(dir'[p])
    BY <1>1, <1>2 DEF DirsOK, Alike
  <2>2. \A p, q \in Ops : p < q /\ dir'[p].state = "unused" => dir'[q].state = "unused"
    BY <1>1, <1>3 DEF DirsOK
  <2>3. QED
    BY <2>1, <2>2 DEF DirsOK
<1>5. Live' = Live
  BY <1>3 DEF Live
<1>6. Live \subseteq Ops
  BY DEF Live
<1>7. OldOK'
  BY <1>1, <1>3, <1>5, <1>6 DEF OldOK, Present
<1>8. PriorFilesSurvive'
  BY <1>1, <1>3, <1>5, <1>6 DEF PriorFilesSurvive, Present
<1>9. QED
  BY <1>2, <1>3, <1>4, <1>5, <1>7, <1>8

\* A step that moves files between the database and the last directory in use.
LEMMA MoveStep ==
  ASSUME RestoreInv, NEW o \in Live, \A p \in Live : p <= o, NEW e \in RestoreDirs, dirOK(e),
         e.state = "live", e.prior = dir[o].prior, e.journal = dir[o].journal,
         dir' = [dir EXCEPT ![o] = e],
         owner' = owner, origin' = origin, pc' \notin {"running", "open", "boundary"},
         \A f \in Files : main[f] = "prior" \/ dir[o].quar[f] = "prior" =>
           main'[f] = "prior" \/ e.quar[f] = "prior"
  PROVE  /\ dir' \in [Ops -> RestoreDirs] /\ DirsOK' /\ OldOK' /\ PriorFilesSurvive' /\ Live' = Live
         /\ dir'[o] = e /\ \A p \in Ops : p # o => dir'[p] = dir[p]
         /\ \A p \in Ops : dir'[p].journal = <<>> <=> dir[p].journal = <<>>
<1>1. dir \in [Ops -> RestoreDirs] /\ DirsOK /\ OldOK /\ PriorFilesSurvive
  BY DEF RestoreInv, Typed
<1>2. o \in Ops /\ dir[o].state = "live" /\ Live \subseteq Ops /\ Ops \subseteq Nat
  BY DEF Live, Ops
<1>3. /\ dir' \in [Ops -> RestoreDirs] /\ dir'[o] = e /\ \A p \in Ops : p # o => dir'[p] = dir[p]
  BY <1>1, <1>2
<1>4. \A p \in Ops : /\ dir'[p].state = dir[p].state /\ dir'[p].prior = dir[p].prior
                     /\ dir'[p].journal = dir[p].journal
  BY <1>2, <1>3
<1>5. DirsOK'
  <2>1. \A p \in Ops : dirOK(dir'[p])
    BY <1>1, <1>3 DEF DirsOK
  <2>2. \A p, q \in Ops : p < q /\ dir'[p].state = "unused" => dir'[q].state = "unused"
    BY <1>1, <1>4 DEF DirsOK
  <2>3. QED
    BY <2>1, <2>2 DEF DirsOK
<1>6. Live' = Live
  BY <1>4 DEF Live
<1>7. ASSUME NEW q \in Live, NEW p \in Live, p < q PROVE dir'[p] = dir[p]
  BY <1>2, <1>3, <1>7
<1>8. OldOK'
  BY <1>1, <1>2, <1>4, <1>6, <1>7 DEF OldOK, Present
<1>9. PriorFilesSurvive'
  <2>1. ASSUME owner = "old", NEW f \in Present(origin)
        PROVE  main'[f] = "prior" \/ \E p \in Live : dir'[p].quar[f] = "prior"
    <3>1. f \in Files /\ (main[f] = "prior" \/ \E p \in Live : dir[p].quar[f] = "prior")
      BY <1>1, <2>1 DEF PriorFilesSurvive, Present
    <3>2. QED
      BY <1>2, <1>3, <3>1
  <2>2. QED
    BY <1>6, <2>1 DEF PriorFilesSurvive, Present
<1>10. QED
  BY <1>3, <1>4, <1>5, <1>6, <1>8, <1>9

\* A step by which a directory is given up: it has nothing of the old database, or it is the
\* last one and all it has is back.
LEMMA LeaveStep ==
  ASSUME RestoreInv, NEW o \in Ops, NEW e \in RestoreDirs, dirOK(e), dir' = [dir EXCEPT ![o] = e],
         e.state \in {"gone", "discard"}, dir[o].state # "unused",
         e.journal = <<>> => dir[o].journal = <<>>,
         main' = main, origin' = origin, owner' = "old" => owner = "old",
         pc' \notin {"running", "open", "boundary"},
         owner' = "old" =>
           \/ dir[o].quar = NoFiles
           \/ /\ \A p \in Live : p <= o
              /\ \A f \in Files : dir[o].quar[f] = "prior" => main[f] = "prior"
  PROVE  /\ dir' \in [Ops -> RestoreDirs] /\ DirsOK' /\ OldOK' /\ PriorFilesSurvive'
         /\ Live' = Live \ {o}
         /\ \A p \in Ops : dir'[p].journal = <<>> => dir[p].journal = <<>>
<1>1. dir \in [Ops -> RestoreDirs] /\ DirsOK /\ OldOK /\ PriorFilesSurvive
  BY DEF RestoreInv, Typed
<1>2. Live \subseteq Ops /\ Ops \subseteq Nat
  BY DEF Live, Ops
<1>3. /\ dir' \in [Ops -> RestoreDirs] /\ dir'[o] = e /\ \A p \in Ops : p # o => dir'[p] = dir[p]
  BY <1>1
<1>4. DirsOK'
  <2>1. \A p \in Ops : dirOK(dir'[p])
    BY <1>1, <1>3 DEF DirsOK
  <2>2. \A p, q \in Ops : p < q /\ dir'[p].state = "unused" => dir'[q].state = "unused"
    BY <1>1, <1>3 DEF DirsOK
  <2>3. QED
    BY <2>1, <2>2 DEF DirsOK
<1>5. Live' = Live \ {o}
  BY <1>3 DEF Live
<1>6. OldOK'
  <2>1. SUFFICES ASSUME owner' = "old" PROVE OldOK'
    BY DEF OldOK
  <2>2. ASSUME NEW q \in Live', NEW f \in Present(origin), dir'[q].journal # <<>>
        PROVE  dir'[q].prior[f] = "prior" \/ \E p \in Live' : p < q /\ dir'[p].quar[f] = "prior"
    <3>1. q \in Live /\ q # o /\ dir'[q] = dir[q] /\ f \in Files
      BY <1>2, <1>3, <1>5, <2>2 DEF Present
    <3>2. dir[q].prior[f] = "prior" \/ \E p \in Live : p < q /\ dir[p].quar[f] = "prior"
      BY <1>1, <2>1, <2>2, <3>1 DEF OldOK
    <3>3. ASSUME NEW p \in Live, p < q, dir[p].quar[f] = "prior" PROVE p # o
      <4>1. dir[o].quar = NoFiles => dir[o].quar[f] # "prior"
        BY <3>1 DEF NoFiles, Absent
      <4>2. (\A x \in Live : x <= o) => p # o
        BY <1>2, <3>1, <3>3
      <4>3. QED
        BY <2>1, <3>3, <4>1, <4>2
    <3>4. QED
      BY <1>2, <1>3, <1>5, <3>1, <3>2, <3>3
  <2>3. QED
    BY <1>1, <1>5, <2>1, <2>2 DEF OldOK, Present
<1>7. PriorFilesSurvive'
  <2>1. ASSUME owner' = "old", NEW f \in Present(origin)
        PROVE  main[f] = "prior" \/ \E p \in Live' : dir'[p].quar[f] = "prior"
    <3>1. f \in Files /\ (main[f] = "prior" \/ \E p \in Live : dir[p].quar[f] = "prior")
      BY <1>1, <2>1 DEF PriorFilesSurvive, Present
    <3>2. dir[o].quar = NoFiles => dir[o].quar[f] # "prior"
      BY <3>1 DEF NoFiles, Absent
    <3>3. dir[o].quar[f] = "prior" => main[f] = "prior"
      BY <2>1, <3>1, <3>2
    <3>4. QED
      BY <1>2, <1>3, <1>5, <3>1, <3>3
  <2>2. QED
    BY <2>1 DEF PriorFilesSurvive, Present
<1>8. QED
  BY <1>3, <1>4, <1>5, <1>6, <1>7

\* When the database is not the old one there is nothing to keep.
LEMMA OtherOwner ==
  ASSUME owner' # "old"
  PROVE  OldOK' /\ PriorFilesSurvive'
  BY DEF OldOK, PriorFilesSurvive

\* A step that changes neither the database nor a directory, nor whose the database is.
LEMMA DiskStep ==
  ASSUME RestoreInv, dir' = dir, main' = main, owner' = owner, origin' = origin,
         owner = "old" => pc' # "running",
         owner = "old" /\ (pc' = "open" \/ (pc' = "boundary" /\ proc'.reconciled)) => Live = {}
  PROVE  /\ dir' \in [Ops -> RestoreDirs] /\ DirsOK' /\ OldOK' /\ PriorFilesSurvive' /\ Live' = Live
<1>1. Live' = Live
  BY DEF Live
<1>2. QED
  BY <1>1 DEF RestoreInv, Typed, DirsOK, OldOK, PriorFilesSurvive, Present

\* At these points the program holds nothing in its hands.
Resting == {"off", "boundary", "scan", "open", "dialog", "create", "running"}

\* A step to such a point, of a process that remembers only parsed journals.
LEMMA RestingStep ==
  ASSUME pc' \in Resting, \A o \in proc'.scanned : dir'[o].journal # <<>>,
         pc' \in {"dialog", "create"} => ~proc'.candidateInstalled
  PROVE  PcOK'
  BY DEF PcOK, Resting, Restoring, Undoing

\* A start that ends.
LEMMA StartEnds ==
  ASSUME NEW how, EndStart(how)
  PROVE  /\ proc' \in Procs /\ pc' = "off" /\ outcome' = how /\ proc'.scanned = {}
  BY RestoreAssumption DEF EndStart, IdleProc, Procs, Views

\* The dialog is offered again, or the start ends.
LEMMA Offered ==
  ASSUME NEW p \in Procs, OfferRecovery(p),
         outcome \in {"none", "unavailable", "io-error", "quit", "opened", "crashed"}
  PROVE  /\ proc' \in Procs /\ pc' \in {"dialog", "off"} /\ proc'.scanned \subseteq p.scanned
         /\ pc' = "dialog" => proc'.attempt < MaxAttempts /\ ~proc'.candidateInstalled
         /\ outcome' \in {"none", "unavailable", "io-error", "quit", "opened", "crashed"}
<1>1. CASE p.attempt < MaxAttempts
  <2>1. /\ pc' = "dialog" /\ outcome' = outcome
        /\ proc' = [p EXCEPT !.op = 0, !.moved = {}, !.todo = {}, !.candidateInstalled = FALSE,
                             !.errors = FALSE]
    BY <1>1 DEF OfferRecovery
  <2>2. QED
    BY <1>1, <2>1 DEF Procs
<1>2. CASE ~(p.attempt < MaxAttempts)
  <2>1. EndStart("quit")
    BY <1>2 DEF OfferRecovery
  <2>2. QED
    BY <2>1, StartEnds
<1>3. QED
  BY <1>1, <1>2

\* A start that ends and leaves the disk as it is keeps the invariant.
LEMMA EndsInv ==
  ASSUME RestoreInv, NEW how \in {"none", "unavailable", "io-error", "quit", "opened", "crashed"},
         EndStart(how), UNCHANGED <<main, dir, faults, History>>
  PROVE  RestoreInv'
<1>1. /\ main' = main /\ dir' = dir /\ faults' = faults /\ marker' = marker
      /\ owner' = owner /\ origin' = origin /\ starts' = starts
  BY DEF History
<1>2. proc' \in Procs /\ pc' = "off" /\ outcome' = how /\ proc'.scanned = {}
  BY StartEnds
<1>3. Typed'
  BY <1>1, <1>2 DEF RestoreInv, Typed, Points
<1>4. PcOK'
  BY <1>2, RestingStep DEF Resting
<1>5. DirsOK' /\ OldOK' /\ PriorFilesSurvive'
  BY <1>1, <1>2, DiskStep
<1>6. QED
  BY <1>3, <1>4, <1>5 DEF RestoreInv

\* So does a dialog after a step that changes nothing that matters on the disk.
LEMMA OfferInv ==
  ASSUME RestoreInv, NEW p \in Procs, OfferRecovery(p), p.scanned \subseteq proc.scanned,
         dir' = dir \/ \E o \in Ops, e \in RestoreDirs : Alike(dir[o], e) /\ dir' = [dir EXCEPT ![o] = e],
         faults' \in 0..MaxFaults, UNCHANGED <<main, History>>
  PROVE  RestoreInv'
<1>1. /\ main' = main /\ marker' = marker /\ owner' = owner /\ origin' = origin /\ starts' = starts
  BY DEF History
<1>2. /\ proc' \in Procs /\ pc' \in {"dialog", "off"} /\ proc'.scanned \subseteq p.scanned
      /\ pc' = "dialog" => proc'.attempt < MaxAttempts /\ ~proc'.candidateInstalled
      /\ outcome' \in {"none", "unavailable", "io-error", "quit", "opened", "crashed"}
  BY Offered DEF RestoreInv, Typed
<1>3. /\ dir' \in [Ops -> RestoreDirs] /\ DirsOK' /\ OldOK' /\ PriorFilesSurvive'
      /\ \A o \in Ops : dir'[o].journal = <<>> <=> dir[o].journal = <<>>
  <2>1. CASE dir' = dir
    BY <1>1, <1>2, <2>1, DiskStep
  <2>2. ASSUME NEW o \in Ops, NEW e \in RestoreDirs, Alike(dir[o], e), dir' = [dir EXCEPT ![o] = e]
        PROVE  /\ dir' \in [Ops -> RestoreDirs] /\ DirsOK' /\ OldOK' /\ PriorFilesSurvive'
               /\ \A q \in Ops : dir'[q].journal = <<>> <=> dir[q].journal = <<>>
    BY <1>1, <1>2, <2>2, AlikeStep
  <2>3. QED
    BY <2>1, <2>2
<1>4. Typed'
  BY <1>1, <1>2, <1>3 DEF RestoreInv, Typed, Points
<1>5. PcOK'
  <2>1. proc.scanned \subseteq Ops /\ \A o \in proc.scanned : dir[o].journal # <<>>
    BY DEF RestoreInv, Typed, Procs, PcOK
  <2>2. QED
    BY <1>2, <1>3, <2>1, RestingStep DEF Resting
<1>6. QED
  BY <1>3, <1>4, <1>5 DEF RestoreInv

-----------------------------------------------------------------------------
(* A start: the boundary and the scan *)

\* The new process knows nothing.
LEMMA StartInv == RestoreInv /\ Start => RestoreInv'
<1> SUFFICES ASSUME RestoreInv, Start PROVE RestoreInv'
  OBVIOUS
<1>1. /\ pc' = "boundary" /\ proc' = IdleProc /\ outcome' = "none" /\ starts' = starts + 1
      /\ starts < MaxStarts /\ main' = main /\ dir' = dir /\ marker' = marker /\ owner' = owner
      /\ origin' = origin /\ faults' = faults
  BY DEF Start
<1>2. proc' \in Procs /\ ~proc'.reconciled /\ proc'.scanned = {}
  BY <1>1, RestoreAssumption DEF IdleProc, Procs, Views
<1>3. Typed'
  BY <1>1, <1>2, RestoreAssumption DEF RestoreInv, Typed, Points
<1>4. PcOK'
  BY <1>1, <1>2, RestingStep DEF Resting
<1>5. DirsOK' /\ OldOK' /\ PriorFilesSurvive'
  BY <1>1, <1>2, DiskStep
<1>6. QED
  BY <1>3, <1>4, <1>5 DEF RestoreInv

\* The boundary is passed, or the start ends.
LEMMA PrepareBoundaryInv == RestoreInv /\ PrepareBoundary => RestoreInv'
<1> SUFFICES ASSUME RestoreInv, PrepareBoundary PROVE RestoreInv'
  OBVIOUS
<1>1. /\ pc = "boundary" /\ main' = main /\ dir' = dir /\ faults' = faults /\ marker' = marker
      /\ owner' = owner /\ origin' = origin /\ starts' = starts
  BY DEF PrepareBoundary, History
<1>2. \/ EndStart("unavailable")
      \/ /\ pc' = (IF proc.reconciled THEN "open" ELSE "scan")
         /\ proc' = proc /\ outcome' = outcome
  BY DEF PrepareBoundary, Keep
<1>3. CASE EndStart("unavailable")
  BY <1>1, <1>3, EndsInv DEF History
<1>4. CASE /\ pc' = (IF proc.reconciled THEN "open" ELSE "scan")
           /\ proc' = proc /\ outcome' = outcome
  <2>1. Typed'
    BY <1>1, <1>4 DEF RestoreInv, Typed, Points
  <2>2. PcOK'
    BY <1>1, <1>4, RestingStep DEF Resting, RestoreInv, PcOK
  <2>3. DirsOK' /\ OldOK' /\ PriorFilesSurvive'
    BY <1>1, <1>4, DiskStep DEF RestoreInv, OldOK
  <2>4. QED
    BY <2>1, <2>2, <2>3 DEF RestoreInv
<1>5. QED
  BY <1>2, <1>3, <1>4

\* A discarded directory is removed for good.
LEMMA RemoveDiscardedInv ==
  ASSUME RestoreInv, NEW o \in Ops, RemoveDiscarded(o)
  PROVE  RestoreInv'
<1> DEFINE e == [dir[o] EXCEPT !.state = "gone"]
<1>1. /\ pc = "scan" /\ dir[o].state = "discard" /\ dir' = [dir EXCEPT ![o] = e]
      /\ main' = main /\ pc' = pc /\ proc' = proc /\ outcome' = outcome /\ faults' = faults
      /\ marker' = marker /\ owner' = owner /\ origin' = origin /\ starts' = starts
  BY DEF RemoveDiscarded, History
<1>2. dir[o] \in RestoreDirs /\ dirOK(dir[o])
  BY DEF RestoreInv, Typed, DirsOK
<1>3. Alike(dir[o], e)
  BY <1>1, <1>2 DEF Alike, RestoreDirs, dirOK
<1> HIDE DEF e
<1>4. /\ dir' \in [Ops -> RestoreDirs] /\ DirsOK' /\ OldOK' /\ PriorFilesSurvive'
      /\ \A p \in Ops : dir'[p].journal = <<>> <=> dir[p].journal = <<>>
  BY <1>1, <1>3, AlikeStep
<1>5. Typed'
  BY <1>1, <1>4 DEF RestoreInv, Typed
<1>6. PcOK'
  <2>1. proc.scanned \subseteq Ops /\ \A p \in proc.scanned : dir[p].journal # <<>>
    BY DEF RestoreInv, Typed, Procs, PcOK
  <2>2. QED
    BY <1>1, <1>4, <2>1, RestingStep DEF Resting
<1>7. QED
  BY <1>4, <1>5, <1>6 DEF RestoreInv

\* What is discarded by the scan: a directory without a journal, or one whose journal and
\* files agree that nothing is left to undo.
LEMMA Discardable ==
  ASSUME RestoreInv, NEW o \in Ops,
         dir[o].tail = "nofile" \/ (LastPhase(dir[o]) # "completed" /\ TerminalStateHolds(dir[o]))
  PROVE  dir[o].quar = NoFiles
<1>1. dir[o] \in RestoreDirs /\ dirOK(dir[o])
  BY DEF RestoreInv, Typed, DirsOK
<1>2. /\ dir[o].quar \in [Files -> Bytes] /\ dir[o].prior \in [Files -> Bytes]
  BY <1>1, DirFields
<1>3. CASE dir[o].tail = "nofile"
  BY <1>1, <1>3 DEF dirOK
<1>4. CASE LastPhase(dir[o]) # "completed" /\ TerminalStateHolds(dir[o])
  <2>1. ASSUME NEW f \in Files PROVE dir[o].quar[f] = Absent
    <3>1. dir[o].quar[f] # Absent => dir[o].quar[f] = dir[o].prior[f]
      BY <1>1 DEF dirOK
    <3>2. CASE dir[o].prior = NoFiles
      BY <3>1, <3>2 DEF NoFiles
    <3>3. CASE dir[o].prior # NoFiles
      <4>1. f \in Present(dir[o].prior) => dir[o].quar[f] = Absent
        BY <1>4, <3>3 DEF TerminalStateHolds
      <4>2. QED
        BY <3>1, <4>1 DEF Present
    <3>4. QED
      BY <3>2, <3>3
  <2>2. QED
    BY <1>2, <2>1 DEF NoFiles
<1>5. QED
  BY <1>3, <1>4

\* One directory of the scan.
LEMMA ScanDirectoryInv ==
  ASSUME RestoreInv, NEW o \in Ops, ScanDirectory(o)
  PROVE  RestoreInv'
<1> DEFINE d == dir[o]
           e == [d EXCEPT !.state = "discard"]
<1>1. /\ pc = "scan" /\ o \in Live /\ main' = main /\ marker' = marker /\ origin' = origin
      /\ starts' = starts /\ faults' = faults
  BY DEF ScanDirectory
<1>2. d \in RestoreDirs /\ dirOK(d) /\ d.state = "live" /\ proc \in Procs
  BY <1>1 DEF RestoreInv, Typed, DirsOK, Live
<1>3. owner' = IF /\ dir'[o].state = "discard" /\ d.tail # "nofile"
                  /\ LastPhase(d) = "completed" /\ owner \in {"old", "lost"}
               THEN "new" ELSE owner
  BY DEF ScanDirectory
<1>4. proc.scanned \subseteq Ops /\ \A p \in proc.scanned : dir[p].journal # <<>>
  BY DEF RestoreInv, Typed, Procs, PcOK
<1>5. CASE /\ Discard(o) /\ pc' = "scan" /\ proc' = proc /\ outcome' = outcome
           /\ d.tail = "nofile" \/ TerminalStateHolds(d)
  <2>1. e \in RestoreDirs /\ dirOK(e) /\ e.state = "discard" /\ e.journal = d.journal
    BY <1>2 DEF RestoreDirs, dirOK
  <2>2. dir' = [dir EXCEPT ![o] = e]
    BY <1>5 DEF Discard
  <2> HIDE DEF e
  <2>3. dir'[o].state = "discard"
    BY <2>1, <2>2 DEF RestoreInv, Typed
  <2>4. owner' = "old" => owner = "old" /\ (d.tail = "nofile" \/ LastPhase(d) # "completed")
    BY <1>3, <2>3
  <2>5. owner' = "old" => d.quar = NoFiles
    BY <1>5, <2>4, Discardable
  <2>6. /\ dir' \in [Ops -> RestoreDirs] /\ DirsOK' /\ OldOK' /\ PriorFilesSurvive'
        /\ \A p \in Ops : dir'[p].journal = <<>> => dir[p].journal = <<>>
    BY <1>1, <1>2, <1>5, <2>1, <2>2, <2>4, <2>5, LeaveStep
  <2>7. Typed'
    BY <1>1, <1>3, <1>5, <2>6 DEF RestoreInv, Typed
  <2>8. PcOK'
    BY <1>4, <1>5, <2>6, RestingStep DEF Resting
  <2>9. QED
    BY <2>6, <2>7, <2>8 DEF RestoreInv
<1>6. CASE EndStart("unavailable") /\ dir' = dir
  <2>1. owner' = owner
    BY <1>2, <1>3, <1>6
  <2>2. QED
    BY <1>1, <1>6, <2>1, EndsInv DEF History
<1>7. CASE /\ ParsesJournal(d) /\ proc' = [proc EXCEPT !.scanned = @ \cup {o}]
           /\ dir' = dir /\ pc' = pc /\ outcome' = outcome
  <2>1. owner' = owner
    BY <1>2, <1>3, <1>7
  <2>2. proc' \in Procs /\ proc'.scanned = proc.scanned \cup {o}
    BY <1>2, <1>7 DEF Procs
  <2>3. Typed'
    BY <1>1, <1>7, <2>1, <2>2 DEF RestoreInv, Typed
  <2>4. PcOK'
    <3>1. \A p \in proc'.scanned : dir'[p].journal # <<>>
      BY <1>4, <1>7, <2>2 DEF ParsesJournal
    <3>2. QED
      BY <1>1, <1>7, <3>1, RestingStep DEF Resting
  <2>5. DirsOK' /\ OldOK' /\ PriorFilesSurvive'
    BY <1>1, <1>7, <2>1, DiskStep
  <2>6. QED
    BY <2>3, <2>4, <2>5 DEF RestoreInv
<1>8. QED
  BY <1>1, <1>5, <1>6, <1>7 DEF ScanDirectory, Keep

\* The scan ends: nothing to do, one restore to undo, or a contradiction.
LEMMA ScanEndsInv == RestoreInv /\ ScanEnds => RestoreInv'
<1> SUFFICES ASSUME RestoreInv, ScanEnds PROVE RestoreInv'
  OBVIOUS
<1>1. /\ pc = "scan" /\ Live \subseteq proc.scanned /\ main' = main /\ dir' = dir /\ faults' = faults
      /\ marker' = marker /\ owner' = owner /\ origin' = origin /\ starts' = starts
  BY DEF ScanEnds, History
<1>2. /\ proc \in Procs /\ proc.scanned \subseteq Ops /\ dir \in [Ops -> RestoreDirs]
      /\ \A p \in proc.scanned : dir[p].journal # <<>>
  BY DEF RestoreInv, Typed, Procs, PcOK
<1>3. CASE EndStart("unavailable")
  BY <1>1, <1>3, EndsInv DEF History
<1>4. CASE /\ Live = {} /\ pc' = "boundary" /\ proc' = [proc EXCEPT !.reconciled = TRUE]
           /\ outcome' = outcome
  <2>1. proc' \in Procs /\ proc'.scanned = proc.scanned
    BY <1>2, <1>4 DEF Procs
  <2>2. Typed'
    BY <1>1, <1>4, <2>1 DEF RestoreInv, Typed, Points
  <2>3. PcOK'
    BY <1>1, <1>2, <1>4, <2>1, RestingStep DEF Resting
  <2>4. DirsOK' /\ OldOK' /\ PriorFilesSurvive'
    BY <1>1, <1>4, DiskStep
  <2>5. QED
    BY <2>2, <2>3, <2>4 DEF RestoreInv
<1>5. ASSUME NEW o \in Live, Live = {o}, pc' = "undo-record", outcome' = outcome,
             proc' = [proc EXCEPT !.op = o, !.phase = LastPhase(dir[o])]
      PROVE  RestoreInv'
  <2>1. o \in Ops /\ dir[o].journal # <<>> /\ dir[o].journal \in Seq(Phases \cup {"garbled"})
    BY <1>1, <1>2, DirFields DEF Live
  <2>2. LastPhase(dir[o]) \in Phases \cup {"garbled", "none"}
    BY <2>1 DEF LastPhase
  <2>3. proc' \in Procs /\ proc'.scanned = proc.scanned /\ proc'.op = o
    BY <1>2, <1>5, <2>1, <2>2 DEF Procs
  <2>4. Typed'
    BY <1>1, <1>5, <2>3 DEF RestoreInv, Typed, Points, Undoing
  <2>5. DirsOK' /\ OldOK' /\ PriorFilesSurvive' /\ Live' = Live
    BY <1>1, <1>5, DiskStep
  <2>6. PcOK'
    BY <1>1, <1>2, <1>5, <2>1, <2>3, <2>5 DEF PcOK, Restoring, Undoing
  <2>7. QED
    BY <2>4, <2>5, <2>6 DEF RestoreInv
<1>6. QED
  BY <1>3, <1>4, <1>5 DEF ScanEnds

-----------------------------------------------------------------------------
(* Undoing an interrupted restore *)

\* While a restore is undone it is the only one left.
LEMMA UndoingOp ==
  ASSUME RestoreInv, pc \in Undoing
  PROVE  /\ proc.op \in Ops /\ Live = {proc.op} /\ dir[proc.op] \in RestoreDirs
         /\ dirOK(dir[proc.op]) /\ dir[proc.op].state = "live" /\ dir[proc.op].journal # <<>>
         /\ proc \in Procs /\ proc.scanned \subseteq Ops /\ proc.todo \subseteq Files
         /\ \A o \in proc.scanned : dir[o].journal # <<>>
<1>1. Live = {proc.op} /\ dir[proc.op].journal # <<>> /\ \A o \in proc.scanned : dir[o].journal # <<>>
  BY DEF RestoreInv, PcOK
<1>2. proc.op \in Ops /\ dir[proc.op].state = "live"
  BY <1>1 DEF Live
<1>3. QED
  BY <1>1, <1>2 DEF RestoreInv, Typed, DirsOK, Procs

\* The point reached between two steps of an undo, given what the directories are then.
LEMMA UndoPc ==
  ASSUME pc' \in Undoing, Live' = {proc'.op}, \A o \in proc'.scanned : dir'[o].journal # <<>>,
         dir'[proc'.op].journal # <<>>,
         pc' = "undo-restore" =>
           \A f \in Present(dir'[proc'.op].prior) \ proc'.todo : dir'[proc'.op].quar[f] = Absent,
         pc' = "undo-discard" => dir'[proc'.op].quar = NoFiles
  PROVE  PcOK'
  BY DEF PcOK, Undoing, Restoring, Present

\* The undo is recorded before the first rename.
LEMMA UndoRecordInv == RestoreInv /\ UndoRecord => RestoreInv'
<1> SUFFICES ASSUME RestoreInv, UndoRecord PROVE RestoreInv'
  OBVIOUS
<1> DEFINE o == proc.op
           td == IF proc.phase = "quarantining" THEN {} ELSE Files
<1>1. /\ pc = "undo-record" /\ pc' = "undo-preserve" /\ proc' = [proc EXCEPT !.todo = td]
      /\ main' = main /\ outcome' = outcome /\ faults' = faults /\ marker' = marker
      /\ owner' = owner /\ origin' = origin /\ starts' = starts
  BY DEF UndoRecord, History
<1>2. dir' = dir \/ dir' = [dir EXCEPT ![o] = Appended(dir[o], "rolling-back")]
  BY DEF UndoRecord
<1>3. /\ o \in Ops /\ Live = {o} /\ dir[o] \in RestoreDirs /\ dirOK(dir[o]) /\ dir[o].state = "live"
      /\ dir[o].journal # <<>> /\ proc \in Procs /\ proc.scanned \subseteq Ops
      /\ \A p \in proc.scanned : dir[p].journal # <<>>
  BY <1>1, UndoingOp DEF Undoing
<1>4. td \subseteq Files
  OBVIOUS
<1> HIDE DEF td
<1>5. proc' \in Procs /\ proc'.scanned = proc.scanned /\ proc'.op = o
  BY <1>1, <1>3, <1>4 DEF Procs
<1> HIDE DEF o
<1>6. /\ dir' \in [Ops -> RestoreDirs] /\ DirsOK' /\ OldOK' /\ PriorFilesSurvive' /\ Live' = Live
      /\ \A p \in Ops : dir'[p].journal = <<>> <=> dir[p].journal = <<>>
  <2>1. CASE dir' = dir
    BY <1>1, <2>1, DiskStep
  <2>2. CASE dir' = [dir EXCEPT ![o] = Appended(dir[o], "rolling-back")]
    <3>1. Alike(dir[o], Appended(dir[o], "rolling-back"))
      BY <1>3, AppendsAlike DEF Phases
    <3>2. QED
      BY <1>1, <1>3, <2>2, <3>1, AlikeStep
  <2>3. QED
    BY <1>2, <2>1, <2>2
<1>7. Typed'
  BY <1>1, <1>5, <1>6 DEF RestoreInv, Typed, Points, Undoing
<1>8. PcOK'
  BY <1>1, <1>3, <1>5, <1>6, UndoPc DEF Undoing
<1>9. QED
  BY <1>6, <1>7, <1>8 DEF RestoreInv

\* The next file is taken off the list.
LEMMA NextOne ==
  ASSUME NEW p \in Procs, Next1(p)
  PROVE  /\ proc' \in Procs /\ proc'.op = p.op /\ proc'.scanned = p.scanned
         /\ proc'.todo = p.todo \ {PrimaryFirst(p.todo)} /\ proc'.attempt = p.attempt
         /\ proc'.candidateInstalled = p.candidateInstalled
  BY DEF Next1, Procs

\* An installed file is moved out of the way, but none of the old database: where the
\* undo finds old bytes under their name it has them in quarantine as well.
LEMMA UndoPreserveInv == RestoreInv /\ UndoPreserve => RestoreInv'
<1> SUFFICES ASSUME RestoreInv, UndoPreserve PROVE RestoreInv'
  OBVIOUS
<1> DEFINE o == proc.op
           f == PrimaryFirst(proc.todo)
           restored == dir[o].prior[f] # Absent /\ dir[o].quar[f] = Absent
<1>1. /\ pc = "undo-preserve" /\ proc.todo # {} /\ faults' = faults /\ marker' = marker
      /\ owner' = owner /\ origin' = origin /\ starts' = starts
  BY DEF UndoPreserve, History
<1>2. /\ o \in Ops /\ Live = {o} /\ dir[o] \in RestoreDirs /\ dirOK(dir[o]) /\ dir[o].state = "live"
      /\ dir[o].journal # <<>> /\ proc \in Procs /\ proc.scanned \subseteq Ops /\ proc.todo \subseteq Files
      /\ \A p \in proc.scanned : dir[p].journal # <<>>
  BY <1>1, UndoingOp DEF Undoing
<1>3. f \in Files
  BY <1>1, <1>2, NextFile
<1>4. \/ EndStart("unavailable") /\ main' = main /\ dir' = dir
      \/ Next1(proc) /\ main' = main /\ dir' = dir /\ pc' = pc /\ outcome' = outcome
      \/ /\ main[f] # Absent /\ ~restored /\ IntoDir(o, "failed", f)
         /\ Next1(proc) /\ pc' = pc /\ outcome' = outcome
  BY DEF UndoPreserve
<1>5. CASE EndStart("unavailable") /\ main' = main /\ dir' = dir
  BY <1>1, <1>5, EndsInv DEF History
<1>6. CASE Next1(proc) /\ main' = main /\ dir' = dir /\ pc' = pc /\ outcome' = outcome
  <2>1. proc' \in Procs /\ proc'.op = o /\ proc'.scanned = proc.scanned
    BY <1>2, <1>6, NextOne
  <2> HIDE DEF o, f, restored
  <2>2. Typed'
    BY <1>1, <1>6, <2>1 DEF RestoreInv, Typed
  <2>3. DirsOK' /\ OldOK' /\ PriorFilesSurvive' /\ Live' = Live
    BY <1>1, <1>6, DiskStep
  <2>4. PcOK'
    BY <1>1, <1>2, <1>6, <2>1, <2>3, UndoPc DEF Undoing
  <2>5. QED
    BY <2>2, <2>3, <2>4 DEF RestoreInv
<1>7. CASE /\ main[f] # Absent /\ ~restored /\ IntoDir(o, "failed", f)
           /\ Next1(proc) /\ pc' = pc /\ outcome' = outcome
  <2> DEFINE e == [dir[o] EXCEPT !["failed"] = [dir[o]["failed"] EXCEPT ![f] = main[f]]]
  <2>1. main' = [main EXCEPT ![f] = Absent] /\ dir' = [dir EXCEPT ![o] = e]
    BY <1>7 DEF IntoDir
  <2>2. proc' \in Procs /\ proc'.op = o /\ proc'.scanned = proc.scanned
    BY <1>2, <1>7, NextOne
  <2>3. ASSUME owner = "old", NEW g \in Present(origin), main[g] = "prior"
        PROVE  main'[g] = "prior" \/ dir[o].quar[g] = "prior"
    <3>1. g \in Files /\ main \in [Files -> Bytes]
      BY <2>3 DEF Present, RestoreInv, Typed
    <3>2. CASE g # f
      BY <2>1, <2>3, <3>1, <3>2
    <3>3. CASE g = f
      <4>1. dir[o].prior[f] = "prior" \/ \E p \in Live : p < o /\ dir[p].quar[f] = "prior"
        BY <1>2, <2>3, <3>3 DEF RestoreInv, OldOK
      <4>2. ~(o < o)
        BY <1>2 DEF Ops
      <4>3. dir[o].prior[f] = "prior"
        BY <1>2, <4>1, <4>2
      <4>4. dir[o].quar[f] # Absent
        BY <1>7, <4>3 DEF Absent
      <4>5. QED
        BY <1>2, <1>3, <3>3, <4>3, <4>4 DEF dirOK
    <3>4. QED
      BY <3>2, <3>3
  <2>4. main[f] \in Bytes /\ main \in [Files -> Bytes] /\ Absent \in Bytes
    BY <1>3 DEF RestoreInv, Typed, Bytes
  <2>5. Alike(dir[o], e)
    BY <1>2, <1>3, <2>4 DEF Alike, RestoreDirs, dirOK
  <2> HIDE DEF e, f, o, restored
  <2>6. /\ dir' \in [Ops -> RestoreDirs] /\ DirsOK' /\ OldOK' /\ PriorFilesSurvive' /\ Live' = Live
        /\ \A p \in Ops : dir'[p].journal = <<>> <=> dir[p].journal = <<>>
    <3>1. owner = "old" => \A g \in Present(origin) : main[g] = "prior" =>
            main'[g] = "prior" \/ \E p \in Live : dir[p].quar[g] = "prior"
      BY <1>2, <2>3
    <3>2. QED
      BY <1>1, <1>2, <1>7, <2>1, <2>5, <3>1, AlikeStep
  <2>7. Typed'
    <3>1. main' \in [Files -> Bytes]
      BY <2>1, <2>4
    <3>2. QED
      BY <1>1, <1>7, <2>2, <2>6, <3>1 DEF RestoreInv, Typed
  <2>8. PcOK'
    BY <1>1, <1>2, <1>7, <2>2, <2>6, UndoPc DEF Undoing
  <2>9. QED
    BY <2>6, <2>7, <2>8 DEF RestoreInv
<1>8. QED
  BY <1>4, <1>5, <1>6, <1>7

\* The old files are next.
LEMMA UndoPreservedInv == RestoreInv /\ UndoPreserved => RestoreInv'
<1> SUFFICES ASSUME RestoreInv, UndoPreserved PROVE RestoreInv'
  OBVIOUS
<1> DEFINE o == proc.op
<1>1. /\ pc = "undo-preserve" /\ pc' = "undo-restore" /\ faults' = faults /\ marker' = marker
      /\ proc' = [proc EXCEPT !.todo = Present(dir[o].prior)]
      /\ main' = main /\ dir' = dir /\ outcome' = outcome
      /\ owner' = owner /\ origin' = origin /\ starts' = starts
  BY DEF UndoPreserved, History
<1>2. /\ o \in Ops /\ Live = {o} /\ dir[o].journal # <<>> /\ proc \in Procs
      /\ \A p \in proc.scanned : dir[p].journal # <<>>
  BY <1>1, UndoingOp DEF Undoing
<1>3. Present(dir[o].prior) \subseteq Files
  BY DEF Present
<1>4. proc' \in Procs /\ proc'.scanned = proc.scanned /\ proc'.op = o
      /\ proc'.todo = Present(dir[o].prior)
  BY <1>1, <1>2, <1>3 DEF Procs
<1> HIDE DEF o
<1>5. DirsOK' /\ OldOK' /\ PriorFilesSurvive' /\ Live' = Live
  BY <1>1, DiskStep
<1>6. Typed'
  BY <1>1, <1>4 DEF RestoreInv, Typed, Points, Undoing
<1>7. PcOK'
  BY <1>1, <1>2, <1>4, <1>5, UndoPc DEF Undoing
<1>8. QED
  BY <1>5, <1>6, <1>7 DEF RestoreInv

\* A file goes back from quarantine to its name.
LEMMA BackDir ==
  ASSUME RestoreInv, NEW o \in Live, NEW f \in Files, BackToMain(o, f),
         dir[o].quar[f] = dir[o].prior[f], main[f] = Absent
  PROVE  \E e \in RestoreDirs :
           /\ dirOK(e) /\ e.state = "live" /\ e.prior = dir[o].prior /\ e.journal = dir[o].journal
           /\ e.quar = [dir[o].quar EXCEPT ![f] = Absent]
           /\ dir' = [dir EXCEPT ![o] = e]
           /\ main' \in [Files -> Bytes] /\ main' = [main EXCEPT ![f] = dir[o].quar[f]]
           /\ \A g \in Files : main[g] = "prior" \/ dir[o].quar[g] = "prior" =>
                main'[g] = "prior" \/ e.quar[g] = "prior"
<1> DEFINE e == [dir[o] EXCEPT !.quar = [dir[o].quar EXCEPT ![f] = Absent]]
<1>1. main' = [main EXCEPT ![f] = dir[o].quar[f]] /\ dir' = [dir EXCEPT ![o] = e]
  BY DEF BackToMain
<1>2. /\ o \in Ops /\ dir[o] \in RestoreDirs /\ dirOK(dir[o]) /\ dir[o].state = "live"
      /\ main \in [Files -> Bytes]
  BY DEF Live, RestoreInv, Typed, DirsOK
<1>3. dir[o].quar \in [Files -> Bytes] /\ Absent \in Bytes
  BY <1>2, DirFields DEF Bytes
<1>4. /\ e \in RestoreDirs /\ e.state = "live" /\ e.prior = dir[o].prior /\ e.journal = dir[o].journal
      /\ e.quar = [dir[o].quar EXCEPT ![f] = Absent] /\ e.tail = dir[o].tail
  BY <1>2, <1>3 DEF RestoreDirs
<1> HIDE DEF e
<1>5. dirOK(e)
  <2>1. \A g \in Files : e.quar[g] # Absent => e.quar[g] = e.prior[g]
    BY <1>2, <1>3, <1>4 DEF dirOK
  <2>2. e.journal = <<>> => e.quar = NoFiles
    BY <1>2, <1>3, <1>4 DEF dirOK, NoFiles
  <2>3. QED
    BY <1>2, <1>4, <2>1, <2>2 DEF dirOK
<1>6. main' \in [Files -> Bytes]
  BY <1>1, <1>2, <1>3
<1>7. \A g \in Files : main[g] = "prior" \/ dir[o].quar[g] = "prior" =>
        main'[g] = "prior" \/ e.quar[g] = "prior"
  BY <1>1, <1>2, <1>3, <1>4 DEF Absent
<1>8. QED
  BY <1>1, <1>4, <1>5, <1>6, <1>7

\* The next old file is put back, was there already, or contradicts the journal.
LEMMA UndoRestoreInv == RestoreInv /\ UndoRestore => RestoreInv'
<1> SUFFICES ASSUME RestoreInv, UndoRestore PROVE RestoreInv'
  OBVIOUS
<1> DEFINE o == proc.op
           f == PrimaryFirst(proc.todo)
<1>1. /\ pc = "undo-restore" /\ proc.todo # {} /\ faults' = faults /\ marker' = marker
      /\ owner' = owner /\ origin' = origin /\ starts' = starts
  BY DEF UndoRestore, History
<1>2. /\ o \in Ops /\ Live = {o} /\ dir[o] \in RestoreDirs /\ dirOK(dir[o]) /\ dir[o].state = "live"
      /\ dir[o].journal # <<>> /\ proc \in Procs /\ proc.scanned \subseteq Ops /\ proc.todo \subseteq Files
      /\ \A p \in proc.scanned : dir[p].journal # <<>>
  BY <1>1, UndoingOp DEF Undoing
<1>3. f \in Files /\ o \in Live /\ \A p \in Live : p <= o
  <2>1. f \in Files
    BY <1>1, <1>2, NextFile
  <2>2. o <= o
    BY <1>2 DEF Ops
  <2>3. QED
    BY <1>2, <2>1, <2>2
<1>4. \/ EndStart("unavailable") /\ main' = main /\ dir' = dir
      \/ /\ dir[o].quar[f] = dir[o].prior[f] /\ main[f] = Absent /\ BackToMain(o, f)
         /\ Next1(proc) /\ pc' = pc /\ outcome' = outcome
      \/ /\ dir[o].quar[f] = Absent /\ Next1(proc) /\ main' = main /\ dir' = dir
         /\ pc' = pc /\ outcome' = outcome
  BY DEF UndoRestore
<1>5. \A g \in Present(dir[o].prior) \ proc.todo : dir[o].quar[g] = Absent
  BY <1>1 DEF RestoreInv, PcOK
<1>6. CASE EndStart("unavailable") /\ main' = main /\ dir' = dir
  BY <1>1, <1>6, EndsInv DEF History
<1>7. CASE /\ dir[o].quar[f] = Absent /\ Next1(proc) /\ main' = main /\ dir' = dir
           /\ pc' = pc /\ outcome' = outcome
  <2>1. proc' \in Procs /\ proc'.op = o /\ proc'.scanned = proc.scanned /\ proc'.todo = proc.todo \ {f}
    BY <1>2, <1>7, NextOne
  <2> HIDE DEF o, f
  <2>2. Typed'
    BY <1>1, <1>7, <2>1 DEF RestoreInv, Typed
  <2>3. DirsOK' /\ OldOK' /\ PriorFilesSurvive' /\ Live' = Live
    BY <1>1, <1>7, DiskStep
  <2>4. \A g \in Present(dir[o].prior) \ proc'.todo : dir[o].quar[g] = Absent
    BY <1>5, <1>7, <2>1
  <2>5. PcOK'
    BY <1>1, <1>2, <1>7, <2>1, <2>3, <2>4, UndoPc DEF Undoing
  <2>6. QED
    BY <2>2, <2>3, <2>5 DEF RestoreInv
<1>8. CASE /\ dir[o].quar[f] = dir[o].prior[f] /\ main[f] = Absent /\ BackToMain(o, f)
           /\ Next1(proc) /\ pc' = pc /\ outcome' = outcome
  <2>1. proc' \in Procs /\ proc'.op = o /\ proc'.scanned = proc.scanned /\ proc'.todo = proc.todo \ {f}
    BY <1>2, <1>8, NextOne
  <2> HIDE DEF o, f
  <2>2. PICK e \in RestoreDirs :
           /\ dirOK(e) /\ e.state = "live" /\ e.prior = dir[o].prior /\ e.journal = dir[o].journal
           /\ e.quar = [dir[o].quar EXCEPT ![f] = Absent]
           /\ dir' = [dir EXCEPT ![o] = e]
           /\ main' \in [Files -> Bytes] /\ main' = [main EXCEPT ![f] = dir[o].quar[f]]
           /\ \A g \in Files : main[g] = "prior" \/ dir[o].quar[g] = "prior" =>
                main'[g] = "prior" \/ e.quar[g] = "prior"
    BY <1>3, <1>8, BackDir
  <2>3. /\ dir' \in [Ops -> RestoreDirs] /\ DirsOK' /\ OldOK' /\ PriorFilesSurvive' /\ Live' = Live
        /\ dir'[o] = e /\ \A p \in Ops : dir'[p].journal = <<>> <=> dir[p].journal = <<>>
    <3>1. pc' \notin {"running", "open", "boundary"}
      BY <1>1, <1>8
    <3>2. owner' = owner /\ origin' = origin
      BY <1>1
    <3>3. /\ dirOK(e) /\ e.state = "live" /\ e.prior = dir[o].prior /\ e.journal = dir[o].journal
          /\ dir' = [dir EXCEPT ![o] = e]
          /\ \A g \in Files : main[g] = "prior" \/ dir[o].quar[g] = "prior" =>
               main'[g] = "prior" \/ e.quar[g] = "prior"
      BY <2>2
    <3>4. /\ dir' \in [Ops -> RestoreDirs] /\ DirsOK' /\ OldOK' /\ PriorFilesSurvive' /\ Live' = Live
          /\ dir'[o] = e /\ \A p \in Ops : p # o => dir'[p] = dir[p]
          /\ \A p \in Ops : dir'[p].journal = <<>> <=> dir[p].journal = <<>>
      BY <1>3, <3>1, <3>2, <3>3, MoveStep
    <3>5. QED
      BY <3>4
  <2>4. Typed'
    BY <1>1, <1>8, <2>1, <2>2, <2>3 DEF RestoreInv, Typed
  <2>5. \A g \in Present(e.prior) \ proc'.todo : e.quar[g] = Absent
    <3>1. dir[o].quar \in [Files -> Bytes]
      BY <1>2, DirFields
    <3>2. QED
      BY <1>5, <2>1, <2>2, <3>1 DEF Present
  <2>6. PcOK'
    BY <1>1, <1>2, <1>8, <2>1, <2>3, <2>5, UndoPc DEF Undoing
  <2>7. QED
    BY <2>3, <2>4, <2>6 DEF RestoreInv
<1>9. QED
  BY <1>4, <1>6, <1>7, <1>8

\* All old files are back: the quarantine is empty.
LEMMA UndoFinishInv == RestoreInv /\ UndoFinish => RestoreInv'
<1> SUFFICES ASSUME RestoreInv, UndoFinish PROVE RestoreInv'
  OBVIOUS
<1> DEFINE o == proc.op
           e == Appended(dir[o], "rolled-back")
<1>1. /\ pc = "undo-restore" /\ proc.todo = {} /\ main' = main /\ faults' = faults /\ marker' = marker
      /\ owner' = owner /\ origin' = origin /\ starts' = starts
  BY DEF UndoFinish, History
<1>2. /\ o \in Ops /\ Live = {o} /\ dir[o] \in RestoreDirs /\ dirOK(dir[o]) /\ dir[o].state = "live"
      /\ dir[o].journal # <<>> /\ proc \in Procs /\ proc.scanned \subseteq Ops
      /\ \A p \in proc.scanned : dir[p].journal # <<>>
  BY <1>1, UndoingOp DEF Undoing
<1>3. dir[o].quar = NoFiles
  <2>1. \A g \in Present(dir[o].prior) : dir[o].quar[g] = Absent
    BY <1>1 DEF RestoreInv, PcOK
  <2>2. dir[o].quar \in [Files -> Bytes] /\ dir[o].prior \in [Files -> Bytes]
    BY <1>2, DirFields
  <2>3. \A g \in Files : dir[o].quar[g] = Absent
    BY <1>2, <2>1, <2>2 DEF Present, dirOK
  <2>4. QED
    BY <2>2, <2>3 DEF NoFiles
<1>4. \/ EndStart("unavailable") /\ dir' = dir
      \/ /\ dir' = [dir EXCEPT ![o] = e] /\ pc' = "undo-discard" /\ proc' = proc
         /\ outcome' = outcome
  BY DEF UndoFinish, Keep
<1>5. CASE EndStart("unavailable") /\ dir' = dir
  BY <1>1, <1>5, EndsInv DEF History
<1>6. CASE /\ dir' = [dir EXCEPT ![o] = e] /\ pc' = "undo-discard" /\ proc' = proc
           /\ outcome' = outcome
  <2>1. Alike(dir[o], e)
    BY <1>2, AppendsAlike DEF Phases
  <2> HIDE DEF e
  <2>2. /\ dir' \in [Ops -> RestoreDirs] /\ DirsOK' /\ OldOK' /\ PriorFilesSurvive' /\ Live' = Live
        /\ dir'[o] = e /\ \A p \in Ops : dir'[p].journal = <<>> <=> dir[p].journal = <<>>
    BY <1>1, <1>2, <1>6, <2>1, AlikeStep
  <2>3. dir'[o].quar = NoFiles
    BY <1>3, <2>1, <2>2 DEF Alike
  <2>4. Typed'
    BY <1>1, <1>6, <2>2 DEF RestoreInv, Typed, Points, Undoing
  <2>5. PcOK'
    BY <1>2, <1>6, <2>2, <2>3, UndoPc DEF Undoing
  <2>6. QED
    BY <2>2, <2>4, <2>5 DEF RestoreInv
<1>7. QED
  BY <1>4, <1>5, <1>6

\* A directory is renamed to its discard name.
LEMMA DiscardedDir ==
  ASSUME NEW d \in RestoreDirs, dirOK(d), d.state # "unused", NEW s \in {"gone", "discard", "live"}
  PROVE  LET e == [d EXCEPT !.state = s] IN
         /\ e \in RestoreDirs /\ dirOK(e) /\ e.state = s /\ e.journal = d.journal
         /\ d.state = "live" /\ s = "live" => Alike(d, e)
  BY DEF RestoreDirs, dirOK, Alike

\* The undone restore is discarded, and the scan begins again.
LEMMA UndoDiscardInv == RestoreInv /\ UndoDiscard => RestoreInv'
<1> SUFFICES ASSUME RestoreInv, UndoDiscard PROVE RestoreInv'
  OBVIOUS
<1> DEFINE o == proc.op
           e == [dir[o] EXCEPT !.state = "discard"]
<1>1. /\ pc = "undo-discard" /\ dir' = [dir EXCEPT ![o] = e] /\ pc' = "scan" /\ proc' = proc
      /\ outcome' = outcome /\ main' = main /\ faults' = faults /\ marker' = marker
      /\ owner' = owner /\ origin' = origin /\ starts' = starts
  BY DEF UndoDiscard, Discard, Keep, History
<1>2. /\ o \in Ops /\ Live = {o} /\ dir[o] \in RestoreDirs /\ dirOK(dir[o]) /\ dir[o].state = "live"
      /\ proc.scanned \subseteq Ops /\ \A p \in proc.scanned : dir[p].journal # <<>>
  BY <1>1, UndoingOp DEF Undoing
<1>3. dir[o].quar = NoFiles
  BY <1>1 DEF RestoreInv, PcOK
<1>4. e \in RestoreDirs /\ dirOK(e) /\ e.state = "discard" /\ e.journal = dir[o].journal
  BY <1>2, DiscardedDir
<1> HIDE DEF e
<1>5. /\ dir' \in [Ops -> RestoreDirs] /\ DirsOK' /\ OldOK' /\ PriorFilesSurvive'
      /\ \A p \in Ops : dir'[p].journal = <<>> => dir[p].journal = <<>>
  BY <1>1, <1>2, <1>3, <1>4, LeaveStep
<1>6. Typed'
  BY <1>1, <1>5 DEF RestoreInv, Typed, Points
<1>7. PcOK'
  BY <1>1, <1>2, <1>5, RestingStep DEF Resting
<1>8. QED
  BY <1>5, <1>6, <1>7 DEF RestoreInv

-----------------------------------------------------------------------------
(* Opening, using and closing the store *)

\* The old database is never opened: with nothing left to undo its files are all there, and
\* the primary is the one that could not be opened.
LEMMA OpenStoreInv == RestoreInv /\ OpenStore => RestoreInv'
<1> SUFFICES ASSUME RestoreInv, OpenStore PROVE RestoreInv'
  OBVIOUS
<1>1. pc = "open" /\ dir' = dir /\ origin' = origin /\ starts' = starts /\ proc \in Procs
  BY DEF OpenStore, RestoreInv, Typed
<1>2. owner = "old" => main["db"] = "prior"
  <2>1. SUFFICES ASSUME owner = "old" PROVE main["db"] = "prior"
    OBVIOUS
  <2>2. origin["db"] = "prior" /\ Live = {}
    BY <1>1, <2>1 DEF RestoreInv, OldOK
  <2>3. "db" \in Present(origin)
    BY <2>2 DEF Present, Files, Absent
  <2>4. QED
    BY <2>1, <2>2, <2>3 DEF RestoreInv, PriorFilesSurvive
<1>3. CASE OfferRecovery(proc) /\ UNCHANGED <<main, marker, owner, faults>>
  <2>1. faults' \in 0..MaxFaults
    BY <1>3 DEF RestoreInv, Typed
  <2>2. QED
    BY <1>1, <1>3, <2>1, OfferInv DEF History
<1>4. CASE IF main["db"] = Absent THEN ~marker ELSE main["db"] # "prior"
  <2> DEFINE bytes == IF main["db"] = Absent THEN "own" ELSE main["db"]
  <2>1. main \in [Files -> Bytes] /\ bytes \in Bytes /\ Absent \in Bytes /\ "sqlite" \in Bytes
    BY DEF RestoreInv, Typed, Files, Bytes
  <2>2. SUFFICES ASSUME
          \/ IF main["db"] = Absent THEN ~marker ELSE main["db"] # "prior",
          owner' = (IF main["db"] = Absent THEN "own" ELSE owner),
          \/ /\ main' = WithSqliteSidecars(bytes) /\ marker' = TRUE /\ pc' = "running"
             /\ proc' = [proc EXCEPT !.view = IF main["db"] = Absent THEN "own" ELSE ViewOf(main)]
             /\ outcome' = outcome /\ faults' = faults
          \/ /\ Fault /\ main' = [f \in Files |-> IF f = "db" THEN bytes ELSE Absent]
             /\ EndStart("io-error") /\ marker' = marker
        PROVE  RestoreInv'
    BY <1>4 DEF OpenStore, OfferRecovery
  <2>3. owner' # "old" /\ owner' \in {"none", "lost", "old", "new", "own"}
    <3>1. main["db"] # "prior"
      BY <1>4 DEF Absent
    <3>2. QED
      BY <1>2, <2>2, <3>1 DEF RestoreInv, Typed
  <2>4. OldOK' /\ PriorFilesSurvive'
    BY <2>3, OtherOwner
  <2>5. DirsOK'
    BY <1>1 DEF RestoreInv, DirsOK
  <2>6. proc.scanned \subseteq Ops /\ \A p \in proc.scanned : dir[p].journal # <<>>
    BY DEF RestoreInv, Typed, Procs, PcOK
  <2>7. CASE /\ main' = WithSqliteSidecars(bytes) /\ marker' = TRUE /\ pc' = "running"
             /\ proc' = [proc EXCEPT !.view = IF main["db"] = Absent THEN "own" ELSE ViewOf(main)]
             /\ outcome' = outcome /\ faults' = faults
    <3>1. ViewOf(main) \in Views
      BY DEF ViewOf, Views
    <3>2. proc' \in Procs /\ proc'.scanned = proc.scanned
      BY <1>1, <2>7, <3>1 DEF Procs, Views
    <3>3. main' \in [Files -> Bytes]
      BY <2>1, <2>7 DEF WithSqliteSidecars
    <3>4. Typed'
      BY <1>1, <2>3, <2>7, <3>2, <3>3 DEF RestoreInv, Typed, Points
    <3>5. PcOK'
      BY <1>1, <2>6, <2>7, <3>2, RestingStep DEF Resting
    <3>6. QED
      BY <2>4, <2>5, <3>4, <3>5 DEF RestoreInv
  <2>8. CASE /\ Fault /\ main' = [f \in Files |-> IF f = "db" THEN bytes ELSE Absent]
             /\ EndStart("io-error") /\ marker' = marker
    <3>1. proc' \in Procs /\ pc' = "off" /\ outcome' = "io-error" /\ proc'.scanned = {}
      BY <2>8, StartEnds
    <3>2. main' \in [Files -> Bytes] /\ faults' \in 0..MaxFaults
      BY <2>1, <2>8, RestoreAssumption DEF Fault, RestoreInv, Typed
    <3>3. Typed'
      BY <1>1, <2>3, <2>8, <3>1, <3>2 DEF RestoreInv, Typed, Points
    <3>4. PcOK'
      BY <3>1, RestingStep DEF Resting
    <3>5. QED
      BY <2>4, <2>5, <3>3, <3>4 DEF RestoreInv
  <2>9. QED
    BY <2>2, <2>7, <2>8
<1>5. QED
  BY <1>3, <1>4 DEF OpenStore

\* The application works in a database that is not the old one.
LEMMA WorkInv == RestoreInv /\ Work => RestoreInv'
<1> SUFFICES ASSUME RestoreInv, Work PROVE RestoreInv'
  OBVIOUS
<1>1. /\ pc = "running" /\ main' = [main EXCEPT !["db"] = "own"] /\ owner' = "own"
      /\ proc' = [proc EXCEPT !.view = "own"] /\ dir' = dir /\ marker' = marker /\ pc' = pc
      /\ outcome' = outcome /\ origin' = origin /\ starts' = starts /\ faults' = faults
  BY DEF Work
<1>2. main' \in [Files -> Bytes]
  BY <1>1 DEF RestoreInv, Typed, Bytes
<1>3. proc' \in Procs /\ proc'.scanned = proc.scanned
  BY <1>1 DEF RestoreInv, Typed, Procs, Views
<1>4. Typed'
  BY <1>1, <1>2, <1>3 DEF RestoreInv, Typed
<1>5. PcOK'
  BY <1>1, <1>3, RestingStep DEF Resting, RestoreInv, PcOK
<1>6. DirsOK' /\ OldOK' /\ PriorFilesSurvive'
  BY <1>1, OtherOwner DEF RestoreInv, DirsOK
<1>7. QED
  BY <1>4, <1>5, <1>6 DEF RestoreInv

\* The application quits.
LEMMA CloseStoreInv == RestoreInv /\ CloseStore => RestoreInv'
<1> SUFFICES ASSUME RestoreInv, CloseStore PROVE RestoreInv'
  OBVIOUS
<1>1. /\ pc = "running" /\ main' = WithoutSidecars(main) /\ owner' = owner /\ dir' = dir
      /\ marker' = marker /\ origin' = origin /\ starts' = starts /\ faults' = faults
  BY DEF CloseStore, History
<1>2. proc' \in Procs /\ pc' = "off" /\ outcome' = "opened" /\ proc'.scanned = {}
  BY StartEnds DEF CloseStore
<1>3. main' \in [Files -> Bytes]
  BY <1>1 DEF RestoreInv, Typed, Bytes, WithoutSidecars
<1>4. owner' # "old"
  BY <1>1 DEF RestoreInv, OldOK
<1>5. Typed'
  BY <1>1, <1>2, <1>3 DEF RestoreInv, Typed, Points
<1>6. PcOK'
  BY <1>2, RestingStep DEF Resting
<1>7. DirsOK' /\ OldOK' /\ PriorFilesSurvive'
  BY <1>1, <1>4, OtherOwner DEF RestoreInv, DirsOK
<1>8. QED
  BY <1>5, <1>6, <1>7 DEF RestoreInv

-----------------------------------------------------------------------------
(* A restore: what its steps keep *)

\* The points of PcOK at which a restore r runs, over main m and its directory d.
PointOK(p, m, r, d) ==
  /\ p \in {"stage", "prepare", "record-quarantining", "quarantine", "install"}
       => ~r.candidateInstalled
  /\ p = "record-quarantining" => m = d.prior
  /\ p = "quarantine" => /\ \A f \in Files : m[f] # Absent => f \in r.todo
                         /\ \A f \in r.todo : m[f] = d.prior[f]
  /\ p \in {"install", "record-installed", "validate", "validating", "complete"} => noPrior(m)
  /\ p = "rb-record" /\ r.candidateInstalled => noPrior(m)
  /\ p = "rb-preserve" => r.todo = {} \/ noPrior(m)
  /\ p = "rb-discard" => \A f \in Present(d.prior) : m[f] = d.prior[f]

\* While a restore runs its directory is in use and the last one.
LEMMA RestoringOp ==
  ASSUME RestoreInv, pc \in Restoring
  PROVE  /\ proc.op \in Ops /\ proc.op \in Live /\ dir[proc.op] \in RestoreDirs
         /\ dirOK(dir[proc.op]) /\ dir[proc.op].state = "live"
         /\ proc \in Procs /\ proc.scanned \subseteq Ops /\ proc.todo \subseteq Files
         /\ proc.moved \subseteq Files /\ main \in [Files -> Bytes]
         /\ \A o \in proc.scanned : dir[o].journal # <<>>
         /\ \A p \in Live : p <= proc.op
         /\ \A o \in Ops : o > proc.op => dir[o].state = "unused"
         /\ pc \in {"stage", "prepare"} <=> dir[proc.op].journal = <<>>
         /\ PointOK(pc, main, proc, dir[proc.op])
<1>1. /\ proc.op \in Live /\ \A o \in Ops : o > proc.op => dir[o].state = "unused"
      /\ \A o \in proc.scanned : dir[o].journal # <<>>
      /\ pc \in {"stage", "prepare"} <=> dir[proc.op].journal = <<>>
  BY DEF RestoreInv, PcOK
<1>2. proc.op \in Ops /\ dir[proc.op].state = "live"
  BY <1>1 DEF Live
<1>3. \A p \in Live : p <= proc.op
  <2>1. SUFFICES ASSUME NEW p \in Live, ~(p <= proc.op) PROVE FALSE
    OBVIOUS
  <2>2. p \in Ops /\ dir[p].state = "live" /\ p > proc.op
    BY <1>2, <2>1 DEF Live, Ops
  <2>3. QED
    BY <1>1, <2>2
<1>4. /\ dir[proc.op] \in RestoreDirs /\ dirOK(dir[proc.op]) /\ proc \in Procs
      /\ main \in [Files -> Bytes]
  BY <1>2 DEF RestoreInv, Typed, DirsOK
<1>5. proc.scanned \subseteq Ops /\ proc.todo \subseteq Files /\ proc.moved \subseteq Files
  BY <1>4 DEF Procs
<1>6. PointOK(pc, main, proc, dir[proc.op])
  BY DEF RestoreInv, PcOK, PointOK
<1>7. QED
  BY <1>1, <1>2, <1>3, <1>4, <1>5, <1>6

\* The point a running restore reaches, given what the directories are then.
LEMMA RestorePc ==
  ASSUME pc' \in Restoring, proc'.op \in Live', \A o \in proc'.scanned : dir'[o].journal # <<>>,
         \A o \in Ops : o > proc'.op => dir'[o].state = "unused",
         pc' \in {"stage", "prepare"} <=> dir'[proc'.op].journal = <<>>,
         PointOK(pc', main', proc', dir'[proc'.op])
  PROVE  PcOK'
  BY DEF PcOK, PointOK, Undoing, Restoring

\* A restore goes on and leaves its directory alike.
LEMMA GoesOn ==
  ASSUME RestoreInv, pc \in Restoring, pc' \in Restoring,
         pc \in {"stage", "prepare"} <=> pc' \in {"stage", "prepare"},
         NEW e, Alike(dir[proc.op], e), dir' = [dir EXCEPT ![proc.op] = e],
         proc' \in Procs, proc'.op = proc.op, proc'.scanned = proc.scanned, outcome' = outcome,
         faults' \in 0..MaxFaults, UNCHANGED History, main' \in [Files -> Bytes],
         main' = main \/ noPrior(main), PointOK(pc', main', proc', e)
  PROVE  RestoreInv'
<1> DEFINE o == proc.op
<1>1. /\ o \in Ops /\ o \in Live /\ dir[o].state = "live" /\ proc.scanned \subseteq Ops
      /\ \A p \in proc.scanned : dir[p].journal # <<>>
      /\ \A p \in Ops : p > o => dir[p].state = "unused"
      /\ pc \in {"stage", "prepare"} <=> dir[o].journal = <<>>
  BY RestoringOp
<1>2. marker' = marker /\ owner' = owner /\ origin' = origin /\ starts' = starts
  BY DEF History
<1>3. pc' \notin {"running", "open", "boundary", "dialog"} /\ pc' \in Points
  BY DEF Restoring, Points
<1>4. owner = "old" => \A f \in Present(origin) : main[f] = "prior" =>
        main'[f] = "prior" \/ \E p \in Live : dir[p].quar[f] = "prior"
  BY DEF noPrior, Present
<1> HIDE DEF o
<1>5. /\ dir' \in [Ops -> RestoreDirs] /\ DirsOK' /\ OldOK' /\ PriorFilesSurvive' /\ Live' = Live
      /\ dir'[o] = e /\ \A p \in Ops : p # o => dir'[p] = dir[p]
      /\ \A p \in Ops : dir'[p].journal = <<>> <=> dir[p].journal = <<>>
  <2>1. Alike(dir[o], e) /\ dir' = [dir EXCEPT ![o] = e]
    BY DEF o
  <2>2. QED
    BY <1>1, <1>2, <1>3, <1>4, <2>1, AlikeStep
<1>6. Typed'
  BY <1>2, <1>3, <1>5 DEF RestoreInv, Typed
<1>7. PcOK'
  <2>1. proc'.op = o /\ proc'.scanned = proc.scanned
    BY DEF o
  <2>2. \A p \in Ops : p > o => dir'[p].state = "unused"
    BY <1>1, <1>5 DEF Ops
  <2>3. QED
    BY <1>1, <1>5, <2>1, <2>2, RestorePc
<1>8. QED
  BY <1>5, <1>6, <1>7 DEF RestoreInv

\* A restore moves files between the database and its directory, and goes on.
LEMMA MovesOn ==
  ASSUME RestoreInv, pc \in Restoring \ {"stage", "prepare"},
         pc' \in Restoring \ {"stage", "prepare"},
         NEW e \in RestoreDirs, dirOK(e), e.state = "live", e.prior = dir[proc.op].prior,
         e.journal = dir[proc.op].journal, dir' = [dir EXCEPT ![proc.op] = e],
         proc' \in Procs, proc'.op = proc.op, proc'.scanned = proc.scanned, outcome' = outcome,
         faults' \in 0..MaxFaults, UNCHANGED History, main' \in [Files -> Bytes],
         \A f \in Files : main[f] = "prior" \/ dir[proc.op].quar[f] = "prior" =>
           main'[f] = "prior" \/ e.quar[f] = "prior",
         PointOK(pc', main', proc', e)
  PROVE  RestoreInv'
<1> DEFINE o == proc.op
<1>1. /\ o \in Ops /\ o \in Live /\ proc.scanned \subseteq Ops
      /\ \A p \in proc.scanned : dir[p].journal # <<>>
      /\ \A p \in Live : p <= o
      /\ \A p \in Ops : p > o => dir[p].state = "unused"
      /\ dir[o].journal # <<>>
  BY RestoringOp
<1>2. marker' = marker /\ owner' = owner /\ origin' = origin /\ starts' = starts
  BY DEF History
<1>3. pc' \notin {"running", "open", "boundary"} /\ pc' # "dialog" /\ pc' \in Points
  BY DEF Restoring, Points
<1>4. /\ e.prior = dir[o].prior /\ e.journal = dir[o].journal /\ dir' = [dir EXCEPT ![o] = e]
      /\ \A f \in Files : main[f] = "prior" \/ dir[o].quar[f] = "prior" =>
           main'[f] = "prior" \/ e.quar[f] = "prior"
      /\ proc'.op = o /\ proc'.scanned = proc.scanned
  OBVIOUS
<1> HIDE DEF o
<1>5. /\ dir' \in [Ops -> RestoreDirs] /\ DirsOK' /\ OldOK' /\ PriorFilesSurvive' /\ Live' = Live
      /\ dir'[o] = e /\ \A p \in Ops : p # o => dir'[p] = dir[p]
      /\ \A p \in Ops : dir'[p].journal = <<>> <=> dir[p].journal = <<>>
  BY <1>1, <1>2, <1>3, <1>4, MoveStep
<1>6. Typed'
  BY <1>2, <1>3, <1>5 DEF RestoreInv, Typed
<1>7. PcOK'
  <2>1. \A p \in Ops : p > o => dir'[p].state = "unused"
    BY <1>1, <1>5 DEF Ops
  <2>2. QED
    BY <1>1, <1>4, <1>5, <2>1, RestorePc
<1>8. QED
  BY <1>5, <1>6, <1>7 DEF RestoreInv

\* A restore ends, its directory is given up, and the dialog is offered again.
LEMMA GivenUp ==
  ASSUME RestoreInv, pc \in Restoring, NEW e \in RestoreDirs, dirOK(e),
         e.state \in {"gone", "discard"}, e.journal = <<>> => dir[proc.op].journal = <<>>,
         dir' = [dir EXCEPT ![proc.op] = e],
         \/ dir[proc.op].quar = NoFiles
         \/ \A f \in Files : dir[proc.op].quar[f] = "prior" => main[f] = "prior",
         OfferRecovery(proc), faults' \in 0..MaxFaults, UNCHANGED <<main, History>>
  PROVE  RestoreInv'
<1> DEFINE o == proc.op
<1>1. /\ o \in Ops /\ dir[o].state = "live" /\ proc \in Procs /\ proc.scanned \subseteq Ops
      /\ \A p \in proc.scanned : dir[p].journal # <<>> /\ \A q \in Live : q <= o
  BY RestoringOp
<1>2. /\ main' = main /\ marker' = marker /\ owner' = owner /\ origin' = origin /\ starts' = starts
  BY DEF History
<1>3. /\ proc' \in Procs /\ pc' \in {"dialog", "off"} /\ proc'.scanned \subseteq proc.scanned
      /\ pc' = "dialog" => proc'.attempt < MaxAttempts /\ ~proc'.candidateInstalled
      /\ outcome' \in {"none", "unavailable", "io-error", "quit", "opened", "crashed"}
  BY <1>1, Offered DEF RestoreInv, Typed
<1>4. \A p \in Live : p <= o
  BY RestoringOp
<1>5. /\ dir' \in [Ops -> RestoreDirs] /\ DirsOK' /\ OldOK' /\ PriorFilesSurvive'
      /\ \A p \in Ops : dir'[p].journal = <<>> => dir[p].journal = <<>>
  <2>1. /\ dir' = [dir EXCEPT ![o] = e]
        /\ e.journal = <<>> => dir[o].journal = <<>>
        /\ \/ dir[o].quar = NoFiles
           \/ \A f \in Files : dir[o].quar[f] = "prior" => main[f] = "prior"
    OBVIOUS
  <2> HIDE DEF o
  <2>2. pc' \notin {"running", "open", "boundary"} /\ dir[o].state # "unused"
    BY <1>1, <1>3
  <2>3. QED
    <3>1. owner' = "old" =>
            \/ dir[o].quar = NoFiles
            \/ /\ \A p \in Live : p <= o
               /\ \A f \in Files : dir[o].quar[f] = "prior" => main[f] = "prior"
      BY <1>4, <2>1
    <3>2. owner' = "old" => owner = "old"
      BY <1>2
    <3>3. main' = main /\ origin' = origin /\ o \in Ops
      BY <1>1, <1>2
    <3>4. /\ dir' \in [Ops -> RestoreDirs] /\ DirsOK' /\ OldOK' /\ PriorFilesSurvive'
          /\ Live' = Live \ {o}
          /\ \A p \in Ops : dir'[p].journal = <<>> => dir[p].journal = <<>>
      BY <2>1, <2>2, <3>1, <3>2, <3>3, LeaveStep
    <3>5. QED
      BY <3>4
<1>6. Typed'
  BY <1>2, <1>3, <1>5 DEF RestoreInv, Typed, Points
<1>7. PcOK'
  BY <1>1, <1>3, <1>5, RestingStep, RestoringOp DEF Resting
<1>8. QED
  BY <1>5, <1>6, <1>7 DEF RestoreInv

\* Fields of a directory that the invariant does not look at.
LEMMA OtherFields ==
  ASSUME NEW d \in RestoreDirs, dirOK(d), d.state # "unused", NEW m \in [Files -> Bytes],
         NEW b \in BOOLEAN
  PROVE  /\ Alike(d, [d EXCEPT !.cand = b]) /\ Alike(d, [d EXCEPT !.installed = m])
         /\ Alike(d, [d EXCEPT !.failed = m])
  BY DEF Alike, RestoreDirs, dirOK

\* A fault is counted.
LEMMA FaultCounted ==
  ASSUME RestoreInv, Fault
  PROVE  faults' \in 0..MaxFaults
  BY RestoreAssumption DEF Fault, RestoreInv, Typed

-----------------------------------------------------------------------------
(* A restore, forwards *)

\* The dialog: the user quits, choosing fails, or there is a backup.
LEMMA ChooseBackupInv == RestoreInv /\ ChooseBackup => RestoreInv'
<1> SUFFICES ASSUME RestoreInv, ChooseBackup PROVE RestoreInv'
  OBVIOUS
<1> DEFINE next == [proc EXCEPT !.attempt = proc.attempt + 1]
<1>1. /\ pc = "dialog" /\ main' = main /\ dir' = dir /\ marker' = marker /\ owner' = owner
      /\ origin' = origin /\ starts' = starts
  BY DEF ChooseBackup, History
<1>2. /\ proc \in Procs /\ proc.attempt < MaxAttempts /\ ~proc.candidateInstalled
      /\ proc.scanned \subseteq Ops /\ \A p \in proc.scanned : dir[p].journal # <<>>
  BY <1>1 DEF RestoreInv, Typed, Procs, PcOK
<1>3. /\ next \in Procs /\ next.scanned = proc.scanned
      /\ next.candidateInstalled = proc.candidateInstalled
  <2>1. proc.attempt \in 0..MaxAttempts
    BY <1>2 DEF Procs
  <2>2. proc.attempt + 1 \in 0..MaxAttempts
    BY <1>2, <2>1, RestoreAssumption
  <2>3. QED
    BY <1>2, <2>2 DEF Procs
<1>4. \/ EndStart("quit") /\ faults' = faults
      \/ Fault /\ OfferRecovery(next)
      \/ pc' = "create" /\ proc' = next /\ outcome' = outcome /\ faults' = faults
  BY DEF ChooseBackup
<1> HIDE DEF next
<1>5. CASE EndStart("quit") /\ faults' = faults
  BY <1>1, <1>5, EndsInv DEF History
<1>6. CASE Fault /\ OfferRecovery(next)
  BY <1>1, <1>3, <1>6, FaultCounted, OfferInv DEF History
<1>7. CASE pc' = "create" /\ proc' = next /\ outcome' = outcome /\ faults' = faults
  <2>1. Typed'
    BY <1>1, <1>3, <1>7 DEF RestoreInv, Typed, Points
  <2>2. PcOK'
    BY <1>1, <1>2, <1>3, <1>7, RestingStep DEF Resting
  <2>3. DirsOK' /\ OldOK' /\ PriorFilesSurvive'
    BY <1>1, <1>7, DiskStep
  <2>4. QED
    BY <2>1, <2>2, <2>3 DEF RestoreInv
<1>8. QED
  BY <1>4, <1>5, <1>6, <1>7

\* A new directory is the last one, and empty.
LEMMA CreateInv == RestoreInv /\ CreateRestoreDirectory => RestoreInv'
<1> SUFFICES ASSUME RestoreInv, CreateRestoreDirectory PROVE RestoreInv'
  OBVIOUS
<1>1. /\ pc = "create" /\ main' = main /\ marker' = marker /\ owner' = owner
      /\ origin' = origin /\ starts' = starts
  BY DEF CreateRestoreDirectory, History
<1>2. /\ proc \in Procs /\ ~proc.candidateInstalled /\ proc.scanned \subseteq Ops
      /\ \A p \in proc.scanned : dir[p].journal # <<>>
  BY <1>1 DEF RestoreInv, Typed, Procs, PcOK
<1>3. CASE Fault /\ OfferRecovery(proc) /\ UNCHANGED dir
  BY <1>1, <1>2, <1>3, FaultCounted, OfferInv DEF History
<1>4. ASSUME NEW o \in Ops, dir[o].state = "unused", \A p \in 1..(o - 1) : dir[p].state # "unused",
             dir' = [dir EXCEPT ![o].state = "live"], pc' = "stage",
             proc' = [proc EXCEPT !.op = o], outcome' = outcome, faults' = faults
      PROVE  RestoreInv'
  <2> DEFINE e == [dir[o] EXCEPT !.state = "live"]
  <2>1. /\ dir \in [Ops -> RestoreDirs] /\ DirsOK /\ OldOK /\ PriorFilesSurvive
        /\ Live \subseteq Ops /\ Ops \subseteq Nat
    BY DEF RestoreInv, Typed, Live, Ops
  <2>2. dir[o] = EmptyDir /\ dir[o] \in RestoreDirs
    BY <1>4, <2>1 DEF DirsOK, dirOK
  <2>3. /\ e \in RestoreDirs /\ e.state = "live" /\ e.journal = <<>> /\ e.quar = NoFiles
        /\ e.tail = "nofile"
    <3>1. dir[o].journal = <<>> /\ dir[o].quar = NoFiles /\ dir[o].tail = "nofile"
      BY <2>2 DEF EmptyDir
    <3>2. QED
      BY <2>2, <3>1 DEF RestoreDirs
  <2>4. dir' = [dir EXCEPT ![o] = e]
    BY <1>4
  <2> HIDE DEF e
  <2>5. dirOK(e)
    BY <2>3 DEF dirOK, NoFiles
  <2>6. /\ dir' \in [Ops -> RestoreDirs] /\ dir'[o] = e
        /\ \A p \in Ops : p # o => dir'[p] = dir[p]
    BY <2>1, <2>3, <2>4
  <2>7. Live' = Live \cup {o} /\ o \notin Live
    BY <1>4, <2>3, <2>6 DEF Live
  <2>8. \A p \in Ops : p > o => dir'[p].state = "unused"
    <3>1. SUFFICES ASSUME NEW p \in Ops, p > o PROVE dir'[p].state = "unused"
      OBVIOUS
    <3>2. o < p /\ p # o
      BY <2>1, <3>1
    <3>3. QED
      BY <1>4, <2>1, <2>6, <3>2 DEF DirsOK
  <2>9. DirsOK'
    <3>1. \A p \in Ops : dirOK(dir'[p])
      BY <2>1, <2>5, <2>6 DEF DirsOK
    <3>2. ASSUME NEW p \in Ops, NEW q \in Ops, p < q, dir'[p].state = "unused"
          PROVE  dir'[q].state = "unused"
      <4>1. p # o /\ dir[p].state = "unused"
        BY <2>3, <2>6, <3>2
      <4>2. p \notin 1..(o - 1)
        BY <1>4, <4>1
      <4>3. q # o /\ dir[q].state = "unused"
        BY <2>1, <3>2, <4>1, <4>2 DEF DirsOK, Ops
      <4>4. QED
        BY <2>6, <4>3
    <3>3. QED
      BY <3>1, <3>2 DEF DirsOK
  <2>10. OldOK'
    <3>1. ASSUME owner = "old", NEW q \in Live', NEW f \in Present(origin), dir'[q].journal # <<>>
          PROVE  dir'[q].prior[f] = "prior" \/ \E p \in Live' : p < q /\ dir'[p].quar[f] = "prior"
      <4>1. q \in Live /\ dir'[q] = dir[q]
        BY <2>1, <2>3, <2>6, <2>7, <3>1
      <4>2. dir[q].prior[f] = "prior" \/ \E p \in Live : p < q /\ dir[p].quar[f] = "prior"
        BY <2>1, <3>1, <4>1 DEF OldOK
      <4>3. \A p \in Live : dir'[p] = dir[p] /\ p \in Live'
        BY <2>1, <2>6, <2>7
      <4>4. QED
        BY <4>1, <4>2, <4>3
    <3>2. QED
      BY <1>1, <1>4, <2>1, <3>1 DEF OldOK, Present
  <2>11. PriorFilesSurvive'
    <3>1. \A p \in Live : dir'[p] = dir[p] /\ p \in Live'
      BY <2>1, <2>6, <2>7
    <3>2. QED
      BY <1>1, <2>1, <3>1 DEF PriorFilesSurvive, Present
  <2>12. /\ proc' \in Procs /\ proc'.op = o /\ proc'.scanned = proc.scanned
         /\ ~proc'.candidateInstalled
    BY <1>2, <1>4 DEF Procs
  <2>13. Typed'
    BY <1>1, <1>4, <2>6, <2>12 DEF RestoreInv, Typed, Points, Restoring
  <2>14. PcOK'
    <3>1. \A p \in proc'.scanned : dir'[p].journal # <<>>
      <4>1. \A p \in proc.scanned : p # o
        BY <1>2, <2>2 DEF EmptyDir
      <4>2. QED
        BY <1>2, <2>6, <2>12, <4>1
    <3>2. PointOK(pc', main', proc', dir'[proc'.op])
      BY <1>4, <2>12 DEF PointOK
    <3>3. /\ pc' \in Restoring
          /\ pc' \in {"stage", "prepare"} <=> dir'[proc'.op].journal = <<>>
      BY <1>4, <2>3, <2>6, <2>12 DEF Restoring
    <3>4. proc'.op \in Live' /\ \A p \in Ops : p > proc'.op => dir'[p].state = "unused"
      BY <2>7, <2>8, <2>12
    <3>5. QED
      BY <3>1, <3>2, <3>3, <3>4, RestorePc
  <2>15. QED
    BY <2>9, <2>10, <2>11, <2>13, <2>14 DEF RestoreInv
<1>5. QED
  BY <1>3, <1>4 DEF CreateRestoreDirectory

\* A restore that moved nothing is given up; its directory may stay behind.
LEMMA AbandonInv ==
  ASSUME RestoreInv, pc \in {"stage", "prepare"}, NEW n \in Nat, NEW d \in RestoreDirs,
         Alike(dir[proc.op], d), Abandon(d, n), UNCHANGED <<main, History>>
  PROVE  RestoreInv'
<1> DEFINE o == proc.op
           e == [d EXCEPT !.state = "gone"]
<1>1. /\ o \in Ops /\ dir[o] \in RestoreDirs /\ dirOK(dir[o]) /\ dir[o].state = "live"
      /\ dir[o].journal = <<>> /\ proc \in Procs
  BY RestoringOp DEF Restoring
<1>2. d.state = "live" /\ dirOK(d) /\ dir[o].quar = NoFiles
  BY <1>1 DEF Alike, dirOK
<1>3. faults' \in 0..MaxFaults
  BY RestoreAssumption DEF Abandon, RestoreInv, Typed
<1>4. OfferRecovery(proc) /\ (dir' = [dir EXCEPT ![o] = e] \/ dir' = [dir EXCEPT ![o] = d])
  BY DEF Abandon
<1>5. CASE dir' = [dir EXCEPT ![o] = e]
  <2>1. e \in RestoreDirs /\ dirOK(e) /\ e.state = "gone"
    BY <1>2, DiscardedDir
  <2> HIDE DEF e
  <2>2. QED
    BY <1>1, <1>2, <1>3, <1>4, <1>5, <2>1, GivenUp DEF Restoring
<1>6. CASE dir' = [dir EXCEPT ![o] = d]
  BY <1>1, <1>3, <1>4, <1>6, OfferInv
<1>7. QED
  BY <1>4, <1>5, <1>6

\* The candidate is staged, or the restore given up.
LEMMA StageCandidateInv == RestoreInv /\ StageCandidate => RestoreInv'
<1> SUFFICES ASSUME RestoreInv, StageCandidate PROVE RestoreInv'
  OBVIOUS
<1> DEFINE e == [dir[proc.op] EXCEPT !.cand = TRUE]
<1>1. pc = "stage" /\ UNCHANGED <<main, History>>
  BY DEF StageCandidate
<1>2. /\ dir[proc.op] \in RestoreDirs /\ dirOK(dir[proc.op]) /\ dir[proc.op].state = "live"
      /\ proc \in Procs /\ main \in [Files -> Bytes] /\ PointOK(pc, main, proc, dir[proc.op])
  BY <1>1, RestoringOp DEF Restoring
<1>3. \/ /\ dir' = [dir EXCEPT ![proc.op] = e] /\ pc' = "prepare" /\ proc' = proc
         /\ outcome' = outcome /\ faults' = faults
      \/ Abandon(dir[proc.op], 1)
  BY DEF StageCandidate, Keep, Here
<1>4. Alike(dir[proc.op], e)
  BY <1>2, OtherFields
<1> HIDE DEF e
<1>5. CASE /\ dir' = [dir EXCEPT ![proc.op] = e] /\ pc' = "prepare" /\ proc' = proc
           /\ outcome' = outcome /\ faults' = faults
  <2>1. PointOK(pc', main', proc', e)
    BY <1>1, <1>2, <1>5 DEF PointOK
  <2>2. /\ pc \in Restoring /\ pc' \in Restoring
        /\ pc \in {"stage", "prepare"} <=> pc' \in {"stage", "prepare"}
    BY <1>1, <1>5 DEF Restoring
  <2>3. main' = main /\ main' \in [Files -> Bytes] /\ faults' \in 0..MaxFaults
    BY <1>1, <1>2, <1>5 DEF RestoreInv, Typed
  <2>4. proc' \in Procs /\ proc'.op = proc.op /\ proc'.scanned = proc.scanned
    BY <1>2, <1>5
  <2>5. QED
    BY <1>1, <1>4, <1>5, <2>1, <2>2, <2>3, <2>4, GoesOn
<1>6. CASE Abandon(dir[proc.op], 1)
  <2>1. Alike(dir[proc.op], dir[proc.op])
    BY <1>2, AppendsAlike DEF Phases
  <2>2. QED
    BY <1>1, <1>2, <1>6, <2>1, AbandonInv
<1>7. QED
  BY <1>3, <1>5, <1>6

\* A directory binds the files it is going to displace.  A file of the old database that is
\* not there to be bound is in the quarantine of an earlier restore.
LEMMA BoundDir ==
  ASSUME RestoreInv, pc \in {"stage", "prepare"}, NEW e \in RestoreDirs,
         e.state = "live", e.prior = main, e.quar = NoFiles,
         e.tail = "nofile" => e.journal = <<>>,
         dir' = [dir EXCEPT ![proc.op] = e],
         UNCHANGED <<main, History>>, pc' \notin {"running", "open", "boundary"}
  PROVE  /\ dir' \in [Ops -> RestoreDirs] /\ DirsOK' /\ OldOK' /\ PriorFilesSurvive'
         /\ Live' = Live /\ dir'[proc.op] = e
         /\ \A p \in Ops : p # proc.op => dir'[p] = dir[p]
<1> DEFINE o == proc.op
<1>1. /\ o \in Ops /\ o \in Live /\ dirOK(dir[o]) /\ dir[o].state = "live"
      /\ dir[o].journal = <<>> /\ \A p \in Live : p <= o
  BY RestoringOp DEF Restoring
<1>2. /\ dir \in [Ops -> RestoreDirs] /\ DirsOK /\ OldOK /\ PriorFilesSurvive
      /\ Live \subseteq Ops /\ Ops \subseteq Nat /\ dir[o].quar = NoFiles
  BY <1>1 DEF RestoreInv, Typed, Live, Ops, dirOK
<1>3. main' = main /\ owner' = owner /\ origin' = origin
  BY DEF History
<1>4. dir' = [dir EXCEPT ![o] = e]
  OBVIOUS
<1> HIDE DEF o
<1>5. /\ dir' \in [Ops -> RestoreDirs] /\ dir'[o] = e /\ \A p \in Ops : p # o => dir'[p] = dir[p]
  BY <1>1, <1>2, <1>4
<1>6. \A p \in Ops : dir'[p].state = dir[p].state /\ dir'[p].quar = dir[p].quar
  BY <1>1, <1>2, <1>5
<1>7. Live' = Live
  BY <1>6 DEF Live
<1>8. DirsOK'
  <2>1. dirOK(e)
    BY DEF dirOK, NoFiles
  <2>2. \A p \in Ops : dirOK(dir'[p])
    BY <1>2, <1>5, <2>1 DEF DirsOK
  <2>3. \A p, q \in Ops : p < q /\ dir'[p].state = "unused" => dir'[q].state = "unused"
    BY <1>2, <1>6 DEF DirsOK
  <2>4. QED
    BY <2>2, <2>3 DEF DirsOK
<1>9. ASSUME owner = "old", NEW f \in Present(origin)
      PROVE  main[f] = "prior" \/ \E p \in Live : p < o /\ dir[p].quar[f] = "prior"
  <2>1. f \in Files /\ dir[o].quar[f] # "prior"
    BY <1>2, <1>9 DEF Present, NoFiles, Absent
  <2>2. main[f] = "prior" \/ \E p \in Live : dir[p].quar[f] = "prior"
    BY <1>2, <1>9 DEF PriorFilesSurvive
  <2>3. \A p \in Live : dir[p].quar[f] = "prior" => p < o
    BY <1>1, <1>2, <2>1
  <2>4. QED
    BY <2>2, <2>3
<1>10. OldOK'
  <2>1. ASSUME owner = "old", NEW q \in Live, NEW f \in Present(origin), dir'[q].journal # <<>>
        PROVE  dir'[q].prior[f] = "prior" \/ \E p \in Live : p < q /\ dir'[p].quar[f] = "prior"
    <3>1. CASE q = o
      BY <1>2, <1>5, <1>6, <1>9, <2>1, <3>1
    <3>2. CASE q # o
      <4>1. dir'[q] = dir[q]
        BY <1>2, <1>5, <3>2
      <4>2. dir[q].prior[f] = "prior" \/ \E p \in Live : p < q /\ dir[p].quar[f] = "prior"
        BY <1>2, <2>1, <4>1 DEF OldOK
      <4>3. QED
        BY <1>2, <1>6, <4>1, <4>2
    <3>3. QED
      BY <3>1, <3>2
  <2>2. QED
    BY <1>2, <1>3, <1>7, <2>1 DEF OldOK, Present
<1>11. PriorFilesSurvive'
  BY <1>2, <1>3, <1>6, <1>7 DEF PriorFilesSurvive, Present
<1>12. QED
  BY <1>5, <1>7, <1>8, <1>10, <1>11 DEF o

\* The existing files are bound in the first record.
LEMMA RecordPreparedInv == RestoreInv /\ RecordPrepared => RestoreInv'
<1> SUFFICES ASSUME RestoreInv, RecordPrepared PROVE RestoreInv'
  OBVIOUS
<1> DEFINE o == proc.op
           d == [dir[o] EXCEPT !.prior = main]
           a == Appended(d, "prepared")
<1>1. /\ pc = "prepare" /\ main' = main /\ UNCHANGED <<main, History>>
      /\ marker' = marker /\ owner' = owner /\ origin' = origin /\ starts' = starts
  BY DEF RecordPrepared, History
<1>2. /\ o \in Ops /\ o \in Live /\ dir[o] \in RestoreDirs /\ dirOK(dir[o])
      /\ dir[o].state = "live" /\ dir[o].journal = <<>> /\ proc \in Procs
      /\ proc.scanned \subseteq Ops /\ main \in [Files -> Bytes]
      /\ \A p \in proc.scanned : dir[p].journal # <<>>
      /\ \A p \in Ops : p > o => dir[p].state = "unused"
      /\ ~proc.candidateInstalled
  BY <1>1, RestoringOp DEF Restoring, PointOK
<1>3. /\ d \in RestoreDirs /\ d.state = "live" /\ d.prior = main /\ d.quar = NoFiles
      /\ d.journal = <<>> /\ d.tail = dir[o].tail
  <2>1. dir[o].quar = NoFiles
    BY <1>2 DEF dirOK
  <2>2. QED
    BY <1>2, <2>1 DEF RestoreDirs
<1>4. /\ a \in RestoreDirs /\ a.state = "live" /\ a.prior = main /\ a.quar = NoFiles
      /\ a.journal # <<>> /\ a.tail = "clean"
  BY <1>3, AppendedDir DEF Phases
<1>5. \/ Abandon(dir[o], 0)
      \/ /\ dir' = [dir EXCEPT ![o] = a] /\ pc' = "record-quarantining" /\ proc' = proc
         /\ outcome' = outcome /\ faults' = faults
      \/ \E e \in {d, Torn(d), a} : Abandon(e, 1)
  BY DEF RecordPrepared, Keep, Here, FailedAppends
<1>6. \A e \in {d, Torn(d), a} :
        /\ e \in RestoreDirs /\ e.state = "live" /\ e.prior = main /\ e.quar = NoFiles
        /\ e.tail = "nofile" => e.journal = <<>>
  BY <1>3, <1>4, TornDir
<1> HIDE DEF o, d, a
<1>7. CASE Abandon(dir[o], 0)
  <2>1. Alike(dir[o], dir[o])
    BY <1>2, AppendsAlike DEF Phases
  <2>2. QED
    BY <1>1, <1>2, <1>7, <2>1, AbandonInv DEF o
<1>8. CASE /\ dir' = [dir EXCEPT ![o] = a] /\ pc' = "record-quarantining" /\ proc' = proc
           /\ outcome' = outcome /\ faults' = faults
  <2>1. /\ dir' \in [Ops -> RestoreDirs] /\ DirsOK' /\ OldOK' /\ PriorFilesSurvive'
        /\ Live' = Live /\ dir'[o] = a /\ \A p \in Ops : p # o => dir'[p] = dir[p]
    BY <1>1, <1>4, <1>8, BoundDir DEF o
  <2>2. Typed'
    BY <1>1, <1>8, <2>1 DEF RestoreInv, Typed, Points, Restoring
  <2>3. PcOK'
    <3>1. PointOK(pc', main', proc', a)
      BY <1>1, <1>2, <1>4, <1>8 DEF PointOK
    <3>2. \A p \in Ops : p > o => dir'[p].state = "unused"
      BY <1>2, <2>1 DEF Ops
    <3>3. \A p \in proc.scanned : dir'[p].journal # <<>>
      BY <1>2, <1>4, <2>1
    <3>4. proc'.op = o
      BY <1>8 DEF o
    <3>5. QED
      BY <1>2, <1>4, <1>8, <2>1, <3>1, <3>2, <3>3, <3>4, RestorePc DEF Restoring
  <2>4. QED
    BY <2>1, <2>2, <2>3 DEF RestoreInv
<1>9. ASSUME NEW e \in {d, Torn(d), a}, Abandon(e, 1) PROVE RestoreInv'
  <2> DEFINE g == [e EXCEPT !.state = "gone"]
  <2>1. faults' \in 0..MaxFaults /\ OfferRecovery(proc)
    BY <1>9, RestoreAssumption DEF Abandon, RestoreInv, Typed
  <2>2. dir' = [dir EXCEPT ![o] = g] \/ dir' = [dir EXCEPT ![o] = e]
    BY <1>9 DEF Abandon, o
  <2>3. e \in RestoreDirs /\ dirOK(e) /\ e.state = "live"
    BY <1>6 DEF dirOK, NoFiles
  <2>4. CASE dir' = [dir EXCEPT ![o] = g]
    <3>1. g \in RestoreDirs /\ dirOK(g) /\ g.state = "gone"
      BY <2>3, DiscardedDir
    <3> HIDE DEF g
    <3>2. dir[o].quar = NoFiles
      BY <1>2 DEF dirOK
    <3>3. pc \in Restoring
      BY <1>1 DEF Restoring
    <3>4. QED
      BY <1>1, <1>2, <2>1, <2>4, <3>1, <3>2, <3>3, GivenUp DEF o
  <2>5. CASE dir' = [dir EXCEPT ![o] = e]
    <3>1. /\ proc' \in Procs /\ pc' \in {"dialog", "off"} /\ proc'.scanned \subseteq proc.scanned
          /\ pc' = "dialog" => proc'.attempt < MaxAttempts /\ ~proc'.candidateInstalled
          /\ outcome' \in {"none", "unavailable", "io-error", "quit", "opened", "crashed"}
      BY <1>2, <2>1, Offered DEF RestoreInv, Typed
    <3>2. /\ dir' \in [Ops -> RestoreDirs] /\ DirsOK' /\ OldOK' /\ PriorFilesSurvive'
          /\ Live' = Live /\ dir'[o] = e /\ \A p \in Ops : p # o => dir'[p] = dir[p]
      BY <1>1, <1>6, <2>5, <3>1, BoundDir DEF o
    <3>3. Typed'
      BY <1>1, <2>1, <3>1, <3>2 DEF RestoreInv, Typed, Points
    <3>4. PcOK'
      <4>1. o \notin proc.scanned
        BY <1>2
      <4>2. \A p \in proc'.scanned : dir'[p].journal # <<>>
        BY <1>2, <3>1, <3>2, <4>1
      <4>3. QED
        BY <3>1, <4>2, RestingStep DEF Resting
    <3>5. QED
      BY <3>2, <3>3, <3>4 DEF RestoreInv
  <2>6. QED
    BY <2>2, <2>4, <2>5
<1>10. QED
  BY <1>5, <1>7, <1>8, <1>9

\* A record that cannot be written turns the restore back.
LEMMA RecordFails ==
  ASSUME RestoreInv, pc \in Restoring \ {"stage", "prepare"}, NEW e, Alike(dir[proc.op], e),
         dir' = [dir EXCEPT ![proc.op] = e], Fault, Keep("rb-record"), main' = main,
         UNCHANGED History, proc.candidateInstalled => noPrior(main)
  PROVE  RestoreInv'
<1>1. pc' = "rb-record" /\ proc' = proc /\ outcome' = outcome
  BY DEF Keep
<1>2. proc \in Procs /\ main \in [Files -> Bytes]
  BY DEF RestoreInv, Typed
<1>3. PointOK(pc', main', proc', e)
  BY <1>1 DEF PointOK
<1>4. /\ pc' \in Restoring
      /\ main' = main \/ noPrior(main)
      /\ pc \in {"stage", "prepare"} <=> pc' \in {"stage", "prepare"}
  BY <1>1 DEF Restoring
<1>5. proc' \in Procs /\ proc'.op = proc.op /\ proc'.scanned = proc.scanned
      /\ main' \in [Files -> Bytes] /\ faults' \in 0..MaxFaults
  BY <1>1, <1>2, FaultCounted
<1>6. QED
  BY <1>1, <1>3, <1>4, <1>5, GoesOn

\* A record is appended and the restore goes on, or it turns back.
LEMMA RecordInv ==
  ASSUME RestoreInv, pc \in Restoring \ {"stage", "prepare"}, NEW ph \in Phases, NEW next,
         Record(ph, next, Here), main' = main, UNCHANGED History,
         proc.candidateInstalled => noPrior(main),
         next => /\ pc' \in Restoring \ {"stage", "prepare"} /\ outcome' = outcome
                 /\ proc' \in Procs /\ proc'.op = proc.op /\ proc'.scanned = proc.scanned
                 /\ \A e \in RestoreDirs :
                      Alike(dir[proc.op], e) => PointOK(pc', main', proc', e)
  PROVE  RestoreInv'
<1> DEFINE d == dir[proc.op]
<1>1. /\ d \in RestoreDirs /\ dirOK(d) /\ d.state = "live" /\ d.journal # <<>>
      /\ main \in [Files -> Bytes]
  BY RestoringOp
<1>2. Alike(d, Appended(d, ph)) /\ \A e \in FailedAppends(d, ph) : Alike(d, e)
  BY <1>1, AppendsAlike
<1>3. \/ dir' = [dir EXCEPT ![proc.op] = Appended(d, ph)] /\ next /\ faults' = faults
      \/ /\ Fault /\ Keep("rb-record")
         /\ \E e \in FailedAppends(d, ph) : dir' = [dir EXCEPT ![proc.op] = e]
  BY DEF Record, Here
<1>4. CASE dir' = [dir EXCEPT ![proc.op] = Appended(d, ph)] /\ next /\ faults' = faults
  <2> DEFINE e == Appended(d, ph)
  <2>1. Alike(d, e) /\ e \in RestoreDirs
    BY <1>2 DEF Alike
  <2>2. dir' = [dir EXCEPT ![proc.op] = e]
    BY <1>4
  <2> HIDE DEF e
  <2>3. PointOK(pc', main', proc', e)
    BY <1>4, <2>1
  <2>4. /\ pc' \in Restoring
        /\ main' = main \/ noPrior(main)
        /\ pc \in {"stage", "prepare"} <=> pc' \in {"stage", "prepare"}
    BY <1>4
  <2>5. /\ proc' \in Procs /\ proc'.op = proc.op /\ proc'.scanned = proc.scanned
        /\ outcome' = outcome /\ main' \in [Files -> Bytes] /\ faults' \in 0..MaxFaults
    BY <1>1, <1>4 DEF RestoreInv, Typed
  <2>6. QED
    BY <2>1, <2>2, <2>3, <2>4, <2>5, GoesOn
<1>5. CASE /\ Fault /\ Keep("rb-record")
           /\ \E e \in FailedAppends(d, ph) : dir' = [dir EXCEPT ![proc.op] = e]
  BY <1>2, <1>5, RecordFails
<1>6. QED
  BY <1>3, <1>4, <1>5

\* From here on a failure is rolled back.
LEMMA RecordQuarantiningInv == RestoreInv /\ RecordQuarantining => RestoreInv'
<1> SUFFICES ASSUME RestoreInv, RecordQuarantining PROVE RestoreInv'
  OBVIOUS
<1> DEFINE td == Present(dir[proc.op].prior)
           next == /\ pc' = "quarantine" /\ outcome' = outcome
                   /\ proc' = [proc EXCEPT !.todo = td]
<1>1. /\ pc = "record-quarantining" /\ main' = main /\ UNCHANGED History
      /\ Record("quarantining", next, Here)
  BY DEF RecordQuarantining, Here
<1>2. /\ proc \in Procs /\ ~proc.candidateInstalled /\ main = dir[proc.op].prior
  BY <1>1, RestoringOp DEF Restoring, PointOK
<1>3. td \subseteq Files /\ \A f \in Files : main[f] # Absent => f \in td
  BY <1>2 DEF Present
<1>4. ASSUME next
      PROVE  /\ pc' \in Restoring \ {"stage", "prepare"} /\ outcome' = outcome
             /\ proc' \in Procs /\ proc'.op = proc.op /\ proc'.scanned = proc.scanned
             /\ \A e \in RestoreDirs : Alike(dir[proc.op], e) => PointOK(pc', main', proc', e)
  <2>1. /\ pc' = "quarantine" /\ outcome' = outcome
        /\ proc' = [proc EXCEPT !.todo = td]
    BY <1>4
  <2> HIDE DEF td, next
  <2>2. /\ proc' \in Procs /\ proc'.op = proc.op /\ proc'.scanned = proc.scanned
        /\ proc'.todo = td /\ proc'.candidateInstalled = proc.candidateInstalled
    BY <1>2, <1>3, <2>1 DEF Procs
  <2>3. ASSUME NEW e \in RestoreDirs, Alike(dir[proc.op], e)
        PROVE  PointOK(pc', main', proc', e)
    BY <1>1, <1>2, <1>3, <2>1, <2>2, <2>3 DEF PointOK, Alike
  <2>4. QED
    BY <2>1, <2>2, <2>3 DEF Restoring
<1> HIDE DEF next
<1>5. QED
  BY <1>1, <1>2, <1>4, RecordInv DEF Restoring, Phases

\* A file that is moved aside is the one that was bound.
LEMMA QuarantineNextInv == RestoreInv /\ QuarantineNext => RestoreInv'
<1> SUFFICES ASSUME RestoreInv, QuarantineNext PROVE RestoreInv'
  OBVIOUS
<1> DEFINE o == proc.op
           d == dir[o]
           f == PrimaryLast(proc.todo)
           moved == [proc EXCEPT !.todo = proc.todo \ {f}, !.moved = proc.moved \cup {f}]
           e == [d EXCEPT !["quar"] = [d["quar"] EXCEPT ![f] = main[f]]]
<1>1. pc = "quarantine" /\ proc.todo # {} /\ UNCHANGED History
  BY DEF QuarantineNext
<1>2. /\ d \in RestoreDirs /\ dirOK(d) /\ d.state = "live" /\ d.journal # <<>> /\ proc \in Procs
      /\ proc.todo \subseteq Files /\ proc.moved \subseteq Files /\ main \in [Files -> Bytes]
      /\ ~proc.candidateInstalled
      /\ \A g \in Files : main[g] # Absent => g \in proc.todo
      /\ \A g \in proc.todo : main[g] = d.prior[g]
  BY <1>1, RestoringOp DEF Restoring, PointOK
<1>3. f \in proc.todo /\ f \in Files
  BY <1>1, <1>2, NextFile
<1>4. \/ /\ IntoDir(o, "quar", f) /\ proc' = moved /\ outcome' = outcome
         /\ (pc' = pc /\ faults' = faults) \/ (pc' = "rb-record" /\ Fault)
      \/ Fault /\ Keep("rb-record") /\ UNCHANGED <<main, dir>>
  BY DEF QuarantineNext
<1>5. CASE /\ IntoDir(o, "quar", f) /\ proc' = moved /\ outcome' = outcome
           /\ (pc' = pc /\ faults' = faults) \/ (pc' = "rb-record" /\ Fault)
  <2>1. main' = [main EXCEPT ![f] = Absent] /\ dir' = [dir EXCEPT ![o] = e]
    BY <1>5 DEF IntoDir
  <2>2. d.quar \in [Files -> Bytes] /\ d.prior \in [Files -> Bytes] /\ main[f] \in Bytes
        /\ Absent \in Bytes
    BY <1>2, <1>3, DirFields DEF Bytes
  <2>3. /\ e \in RestoreDirs /\ e.state = "live" /\ e.prior = d.prior /\ e.journal = d.journal
        /\ e.tail = d.tail /\ e.quar = [d.quar EXCEPT ![f] = main[f]]
    BY <1>2, <2>2 DEF RestoreDirs
  <2>4. /\ proc' \in Procs /\ proc'.op = o /\ proc'.scanned = proc.scanned
        /\ proc'.todo = proc.todo \ {f}
        /\ proc'.candidateInstalled = proc.candidateInstalled
    BY <1>2, <1>3, <1>5 DEF Procs
  <2> HIDE DEF e, f, moved, d
  <2>5. dirOK(e)
    BY <1>2, <1>3, <2>2, <2>3 DEF dirOK
  <2>6. main' \in [Files -> Bytes]
    BY <1>2, <2>1, <2>2
  <2>7. \A g \in Files : main[g] = "prior" \/ d.quar[g] = "prior" =>
          main'[g] = "prior" \/ e.quar[g] = "prior"
    <3>1. ASSUME NEW g \in Files, g # f PROVE main'[g] = main[g] /\ e.quar[g] = d.quar[g]
      BY <1>2, <2>1, <2>2, <2>3, <3>1
    <3>2. e.quar[f] = main[f] /\ main[f] = d.prior[f]
      BY <1>2, <1>3, <2>2, <2>3
    <3>3. d.quar[f] = "prior" => d.prior[f] = "prior"
      BY <1>2, <1>3 DEF dirOK, Absent
    <3>4. QED
      BY <3>1, <3>2, <3>3
  <2>8. PointOK(pc', main', proc', e)
    <3>1. \A g \in Files : main'[g] # Absent => g \in proc'.todo
      BY <1>2, <1>3, <2>1, <2>4
    <3>2. \A g \in proc'.todo : main'[g] = e.prior[g]
      BY <1>2, <1>3, <2>1, <2>3, <2>4
    <3>3. pc' \in {"quarantine", "rb-record"}
      BY <1>1, <1>5
    <3>4. QED
      BY <1>2, <2>4, <3>1, <3>2, <3>3 DEF PointOK
  <2>9. /\ faults' \in 0..MaxFaults /\ outcome' = outcome
        /\ pc' \in Restoring \ {"stage", "prepare"} /\ pc \in Restoring \ {"stage", "prepare"}
    BY <1>1, <1>5, FaultCounted DEF Restoring, RestoreInv, Typed
  <2>10. /\ e.prior = dir[proc.op].prior /\ e.journal = dir[proc.op].journal
         /\ dir' = [dir EXCEPT ![proc.op] = e]
         /\ \A g \in Files : main[g] = "prior" \/ dir[proc.op].quar[g] = "prior" =>
              main'[g] = "prior" \/ e.quar[g] = "prior"
    BY <2>1, <2>3, <2>7 DEF d
  <2>11. QED
    BY <1>1, <2>3, <2>4, <2>5, <2>6, <2>8, <2>9, <2>10, MovesOn
<1>6. CASE Fault /\ Keep("rb-record") /\ UNCHANGED <<main, dir>>
  <2>1. Alike(d, d) /\ dir' = [dir EXCEPT ![o] = d]
    BY <1>2, <1>6, AppendsAlike DEF Phases, RestoreInv, Typed
  <2>2. QED
    BY <1>1, <1>2, <1>6, <2>1, RecordFails DEF Restoring
<1>7. QED
  BY <1>4, <1>5, <1>6

\* A step of a restore that changes no directory.
LEMMA StaysOn ==
  ASSUME RestoreInv, pc \in Restoring \ {"stage", "prepare"},
         pc' \in Restoring \ {"stage", "prepare"}, dir' = dir,
         proc' \in Procs, proc'.op = proc.op, proc'.scanned = proc.scanned, outcome' = outcome,
         faults' \in 0..MaxFaults, UNCHANGED History, main' \in [Files -> Bytes],
         main' = main \/ noPrior(main), PointOK(pc', main', proc', dir[proc.op])
  PROVE  RestoreInv'
<1> DEFINE d == dir[proc.op]
<1>1. d \in RestoreDirs /\ dirOK(d) /\ d.state = "live"
  BY RestoringOp
<1>2. Alike(d, d) /\ dir' = [dir EXCEPT ![proc.op] = d]
  BY <1>1, AppendsAlike DEF Phases, RestoreInv, Typed
<1>3. /\ pc \in Restoring /\ pc' \in Restoring
      /\ pc \in {"stage", "prepare"} <=> pc' \in {"stage", "prepare"}
  OBVIOUS
<1>4. QED
  BY <1>2, <1>3, GoesOn

\* Every file has been moved.
LEMMA RecordQuarantinedInv == RestoreInv /\ RecordQuarantined => RestoreInv'
<1> SUFFICES ASSUME RestoreInv, RecordQuarantined PROVE RestoreInv'
  OBVIOUS
<1>1. /\ pc = "quarantine" /\ proc.todo = {} /\ main' = main /\ UNCHANGED History
      /\ Record("quarantined", Keep("install"), Here)
  BY DEF RecordQuarantined
<1>2. /\ proc \in Procs /\ ~proc.candidateInstalled
      /\ \A g \in Files : main[g] # Absent => g \in proc.todo
  BY <1>1, RestoringOp DEF Restoring, PointOK
<1>3. noPrior(main)
  BY <1>1, <1>2 DEF noPrior, Absent
<1>4. ASSUME Keep("install")
      PROVE  /\ pc' \in Restoring \ {"stage", "prepare"} /\ outcome' = outcome
             /\ proc' \in Procs /\ proc'.op = proc.op /\ proc'.scanned = proc.scanned
             /\ \A e \in RestoreDirs : Alike(dir[proc.op], e) => PointOK(pc', main', proc', e)
  BY <1>1, <1>2, <1>3, <1>4 DEF Keep, Restoring, PointOK
<1>5. QED
  BY <1>1, <1>2, <1>4, RecordInv DEF Restoring, Phases

\* The candidate takes the place of nothing that is not in quarantine.
LEMMA InstallCandidateInv == RestoreInv /\ InstallCandidate => RestoreInv'
<1> SUFFICES ASSUME RestoreInv, InstallCandidate PROVE RestoreInv'
  OBVIOUS
<1> DEFINE d == dir[proc.op]
           e == [d EXCEPT !.cand = FALSE]
<1>1. pc = "install" /\ UNCHANGED History
  BY DEF InstallCandidate
<1>2. /\ d \in RestoreDirs /\ dirOK(d) /\ d.state = "live" /\ proc \in Procs
      /\ main \in [Files -> Bytes] /\ ~proc.candidateInstalled /\ noPrior(main)
  BY <1>1, RestoringOp DEF Restoring, PointOK
<1>3. \/ /\ main' = [main EXCEPT !["db"] = "candidate"] /\ dir' = [dir EXCEPT ![proc.op] = e]
         /\ proc' = [proc EXCEPT !.candidateInstalled = TRUE] /\ outcome' = outcome
         /\ (pc' = "record-installed" /\ faults' = faults) \/ (pc' = "rb-record" /\ Fault)
      \/ Fault /\ Keep("rb-record") /\ UNCHANGED <<main, dir>>
  BY DEF InstallCandidate
<1>4. CASE /\ main' = [main EXCEPT !["db"] = "candidate"] /\ dir' = [dir EXCEPT ![proc.op] = e]
           /\ proc' = [proc EXCEPT !.candidateInstalled = TRUE] /\ outcome' = outcome
           /\ (pc' = "record-installed" /\ faults' = faults) \/ (pc' = "rb-record" /\ Fault)
  <2>1. Alike(d, e) /\ dir' = [dir EXCEPT ![proc.op] = e]
    BY <1>2, <1>4, OtherFields
  <2> HIDE DEF e
  <2>2. main' \in [Files -> Bytes] /\ noPrior(main')
    BY <1>2, <1>4 DEF Bytes, noPrior
  <2>3. proc' \in Procs /\ proc'.op = proc.op /\ proc'.scanned = proc.scanned
    BY <1>2, <1>4 DEF Procs
  <2>4. faults' \in 0..MaxFaults /\ outcome' = outcome
    BY <1>4, FaultCounted DEF RestoreInv, Typed
  <2>5. PointOK(pc', main', proc', e)
    BY <1>4, <2>2 DEF PointOK
  <2>6. /\ pc \in Restoring /\ pc' \in Restoring
        /\ pc \in {"stage", "prepare"} <=> pc' \in {"stage", "prepare"}
    BY <1>1, <1>4 DEF Restoring
  <2>7. QED
    BY <1>1, <1>2, <2>1, <2>2, <2>3, <2>4, <2>5, <2>6, GoesOn
<1>5. CASE Fault /\ Keep("rb-record") /\ UNCHANGED <<main, dir>>
  <2>1. PointOK(pc', main', proc', d)
    BY <1>2, <1>5 DEF Keep, PointOK
  <2>2. pc' \in Restoring \ {"stage", "prepare"} /\ pc \in Restoring \ {"stage", "prepare"}
    BY <1>1, <1>5 DEF Keep, Restoring
  <2>3. /\ proc' \in Procs /\ proc'.op = proc.op /\ proc'.scanned = proc.scanned
        /\ outcome' = outcome /\ faults' \in 0..MaxFaults /\ main' \in [Files -> Bytes]
        /\ main' = main /\ dir' = dir
    BY <1>2, <1>5, FaultCounted DEF Keep
  <2>4. QED
    BY <1>1, <2>1, <2>2, <2>3, StaysOn
<1>6. QED
  BY <1>3, <1>4, <1>5

\* The installation is recorded.
LEMMA RecordInstalledInv == RestoreInv /\ RecordInstalled => RestoreInv'
<1> SUFFICES ASSUME RestoreInv, RecordInstalled PROVE RestoreInv'
  OBVIOUS
<1>1. /\ pc = "record-installed" /\ main' = main /\ UNCHANGED History
      /\ Record("installed", Keep("validate"), Here)
  BY DEF RecordInstalled
<1>2. proc \in Procs /\ noPrior(main)
  BY <1>1, RestoringOp DEF Restoring, PointOK
<1>3. ASSUME Keep("validate")
      PROVE  /\ pc' \in Restoring \ {"stage", "prepare"} /\ outcome' = outcome
             /\ proc' \in Procs /\ proc'.op = proc.op /\ proc'.scanned = proc.scanned
             /\ \A e \in RestoreDirs : Alike(dir[proc.op], e) => PointOK(pc', main', proc', e)
  BY <1>1, <1>2, <1>3 DEF Keep, Restoring, PointOK
<1>4. QED
  BY <1>1, <1>2, <1>3, RecordInv DEF Restoring, Phases

\* The installed database is opened and closed again.
LEMMA ValidateInv == RestoreInv /\ (OpenInstalled \/ CloseInstalled) => RestoreInv'
<1> SUFFICES ASSUME RestoreInv, OpenInstalled \/ CloseInstalled PROVE RestoreInv'
  OBVIOUS
<1>1. /\ pc \in {"validate", "validating"} /\ dir' = dir /\ UNCHANGED History
      /\ main' \in {main, WithSqliteSidecars("audited"), WithoutSidecars(main)}
      /\ \/ Keep("validating") /\ faults' = faults
         \/ Keep("complete") /\ faults' = faults
         \/ Keep("rb-record") /\ Fault
  BY DEF OpenInstalled, CloseInstalled
<1>2. proc \in Procs /\ main \in [Files -> Bytes] /\ noPrior(main)
  BY <1>1, RestoringOp DEF Restoring, PointOK
<1>3. main' \in [Files -> Bytes] /\ noPrior(main')
  <2>1. CASE main' = main
    BY <1>2, <2>1
  <2>2. CASE main' = WithSqliteSidecars("audited")
    BY <2>2 DEF WithSqliteSidecars, Bytes, noPrior
  <2>3. CASE main' = WithoutSidecars(main)
    BY <1>2, <2>3 DEF WithoutSidecars, Bytes, Absent, noPrior
  <2>4. QED
    BY <1>1, <2>1, <2>2, <2>3
<1>4. PointOK(pc', main', proc', dir[proc.op])
  BY <1>1, <1>3 DEF Keep, PointOK
<1>5. pc' \in Restoring \ {"stage", "prepare"} /\ pc \in Restoring \ {"stage", "prepare"}
  BY <1>1 DEF Keep, Restoring
<1>6. /\ proc' \in Procs /\ proc'.op = proc.op /\ proc'.scanned = proc.scanned
      /\ outcome' = outcome /\ faults' \in 0..MaxFaults
  BY <1>1, <1>2, FaultCounted DEF Keep, RestoreInv, Typed
<1>7. QED
  BY <1>1, <1>2, <1>3, <1>4, <1>5, <1>6, StaysOn

\* When the completion is recorded the database is the new one.
LEMMA RecordCompletedInv == RestoreInv /\ RecordCompleted => RestoreInv'
<1> SUFFICES ASSUME RestoreInv, RecordCompleted PROVE RestoreInv'
  OBVIOUS
<1> DEFINE o == proc.op
           d == dir[o]
           c == [d EXCEPT !.installed = main]
           a == Appended(c, "completed")
<1>1. /\ pc = "complete" /\ main' = main /\ marker' = marker /\ origin' = origin
      /\ starts' = starts /\ owner' = (IF pc' = "boundary" THEN "new" ELSE owner)
      /\ \/ dir' = [dir EXCEPT ![o] = a] /\ Keep("boundary") /\ faults' = faults
         \/ /\ Fault /\ Keep("rb-record")
            /\ \E e \in FailedAppends(c, "completed") : dir' = [dir EXCEPT ![o] = e]
  BY DEF RecordCompleted, Record, Here
<1>2. /\ o \in Ops /\ d \in RestoreDirs /\ dirOK(d) /\ d.state = "live" /\ d.journal # <<>>
      /\ proc \in Procs /\ proc.scanned \subseteq Ops /\ main \in [Files -> Bytes]
      /\ noPrior(main) /\ \A p \in proc.scanned : dir[p].journal # <<>>
  BY <1>1, RestoringOp DEF Restoring, PointOK
<1>3. /\ c \in RestoreDirs /\ dirOK(c) /\ c.state = "live" /\ c.prior = d.prior
      /\ c.quar = d.quar /\ c.journal = d.journal
  BY <1>2 DEF RestoreDirs, dirOK
<1> HIDE DEF c, d
<1>4. Alike(d, a) /\ \A e \in FailedAppends(c, "completed") : Alike(d, e)
  <2>1. Alike(c, a) /\ \A e \in FailedAppends(c, "completed") : Alike(c, e)
    BY <1>2, <1>3, AppendsAlike DEF Phases
  <2>2. QED
    BY <1>2, <1>3, <2>1 DEF Alike
<1> HIDE DEF a
<1>5. CASE dir' = [dir EXCEPT ![o] = a] /\ Keep("boundary") /\ faults' = faults
  <2>1. pc' = "boundary" /\ proc' = proc /\ outcome' = outcome /\ owner' = "new"
    BY <1>1, <1>5 DEF Keep
  <2>2. OldOK' /\ PriorFilesSurvive'
    BY <2>1, OtherOwner
  <2>3. /\ dir' \in [Ops -> RestoreDirs] /\ dir'[o] = a
        /\ \A p \in Ops : p # o => dir'[p] = dir[p]
    BY <1>2, <1>4, <1>5 DEF RestoreInv, Typed, Alike
  <2>4. /\ a.state = "live" /\ dirOK(a) /\ a.journal # <<>>
    BY <1>2, <1>4 DEF Alike
  <2>5. DirsOK'
    <3>1. \A p \in Ops : dirOK(dir'[p])
      BY <2>3, <2>4 DEF RestoreInv, DirsOK
    <3>2. \A p, q \in Ops : p < q /\ dir'[p].state = "unused" => dir'[q].state = "unused"
      <4>1. \A p \in Ops : dir'[p].state = dir[p].state
        BY <1>2, <2>3, <2>4 DEF d
      <4>2. QED
        BY <4>1 DEF RestoreInv, DirsOK
    <3>3. QED
      BY <3>1, <3>2 DEF DirsOK
  <2>6. Typed'
    BY <1>1, <1>5, <2>1, <2>3 DEF RestoreInv, Typed, Points
  <2>7. \A p \in proc.scanned : dir'[p].journal # <<>>
    BY <1>2, <2>3, <2>4
  <2>8. PcOK'
    BY <2>1, <2>7, RestingStep DEF Resting
  <2>9. QED
    BY <2>2, <2>5, <2>6, <2>8 DEF RestoreInv
<1>6. ASSUME NEW e \in FailedAppends(c, "completed"), dir' = [dir EXCEPT ![o] = e],
             Fault, Keep("rb-record")
      PROVE  RestoreInv'
  <2>1. UNCHANGED History /\ pc \in Restoring \ {"stage", "prepare"}
    BY <1>1, <1>6 DEF Keep, History, Restoring
  <2>2. QED
    BY <1>1, <1>2, <1>4, <1>6, <2>1, RecordFails DEF d
<1>7. QED
  BY <1>1, <1>5, <1>6

-----------------------------------------------------------------------------
(* A restore, backwards *)

\* The process with an error noted.
LEMMA ErrorNoted ==
  ASSUME proc \in Procs
  PROVE  /\ WithError \in Procs /\ WithError.op = proc.op /\ WithError.scanned = proc.scanned
         /\ WithError.todo = proc.todo
  BY DEF WithError, Procs

\* The rollback is recorded before the first rename, or it is not begun.
LEMMA RollbackRecordInv == RestoreInv /\ RollbackRecord => RestoreInv'
<1> SUFFICES ASSUME RestoreInv, RollbackRecord PROVE RestoreInv'
  OBVIOUS
<1> DEFINE d == dir[proc.op]
           a == Appended(d, "rolling-back")
           td == IF proc.candidateInstalled THEN Files ELSE {}
<1>1. pc = "rb-record" /\ main' = main /\ UNCHANGED History
  BY DEF RollbackRecord
<1>2. /\ d \in RestoreDirs /\ dirOK(d) /\ d.state = "live" /\ d.journal # <<>> /\ proc \in Procs
      /\ proc.op \in Ops /\ main \in [Files -> Bytes]
      /\ proc.candidateInstalled => noPrior(main)
  BY <1>1, RestoringOp DEF Restoring, PointOK
<1>3. Alike(d, a) /\ \A e \in FailedAppends(d, "rolling-back") : Alike(d, e)
  BY <1>2, AppendsAlike DEF Phases
<1>4. \/ /\ dir' = [dir EXCEPT ![proc.op] = a] /\ pc' = "rb-preserve"
         /\ proc' = [proc EXCEPT !.todo = td] /\ outcome' = outcome /\ faults' = faults
      \/ /\ Fault /\ OfferRecovery(proc)
         /\ \E e \in FailedAppends(d, "rolling-back") : dir' = [dir EXCEPT ![proc.op] = e]
  BY DEF RollbackRecord, Here
<1>5. td \subseteq Files /\ (td = {} \/ noPrior(main))
  BY <1>2
<1> HIDE DEF a, td
<1>6. CASE /\ dir' = [dir EXCEPT ![proc.op] = a] /\ pc' = "rb-preserve"
           /\ proc' = [proc EXCEPT !.todo = td] /\ outcome' = outcome /\ faults' = faults
  <2>1. /\ proc' \in Procs /\ proc'.op = proc.op /\ proc'.scanned = proc.scanned
        /\ proc'.todo = td
    BY <1>2, <1>5, <1>6 DEF Procs
  <2>2. PointOK(pc', main', proc', a)
    BY <1>1, <1>5, <1>6, <2>1 DEF PointOK
  <2>3. /\ pc \in Restoring /\ pc' \in Restoring
        /\ pc \in {"stage", "prepare"} <=> pc' \in {"stage", "prepare"}
    BY <1>1, <1>6 DEF Restoring
  <2>4. faults' \in 0..MaxFaults /\ main' \in [Files -> Bytes] /\ main' = main
    BY <1>1, <1>2, <1>6 DEF RestoreInv, Typed
  <2>5. QED
    BY <1>1, <1>3, <1>6, <2>1, <2>2, <2>3, <2>4, GoesOn
<1>7. ASSUME Fault, OfferRecovery(proc), NEW e \in FailedAppends(d, "rolling-back"),
             dir' = [dir EXCEPT ![proc.op] = e]
      PROVE  RestoreInv'
  <2>1. e \in RestoreDirs /\ Alike(dir[proc.op], e)
    BY <1>3 DEF Alike
  <2>2. faults' \in 0..MaxFaults
    BY <1>7, FaultCounted
  <2>3. QED
    BY <1>1, <1>2, <1>7, <2>1, <2>2, OfferInv
<1>8. QED
  BY <1>4, <1>6, <1>7

\* What the rollback takes out of the way is not the old database.
LEMMA RollbackPreserveInv == RestoreInv /\ RollbackPreserve => RestoreInv'
<1> SUFFICES ASSUME RestoreInv, RollbackPreserve PROVE RestoreInv'
  OBVIOUS
<1> DEFINE o == proc.op
           d == dir[o]
           f == PrimaryFirst(proc.todo)
           e == [d EXCEPT !["failed"] = [d["failed"] EXCEPT ![f] = main[f]]]
<1>1. pc = "rb-preserve" /\ proc.todo # {} /\ UNCHANGED History /\ pc' = pc /\ outcome' = outcome
  BY DEF RollbackPreserve
<1>2. /\ d \in RestoreDirs /\ dirOK(d) /\ d.state = "live" /\ proc \in Procs
      /\ proc.todo \subseteq Files /\ main \in [Files -> Bytes] /\ noPrior(main)
  BY <1>1, RestoringOp DEF Restoring, PointOK
<1>3. f \in Files
  BY <1>1, <1>2, NextFile
<1>4. /\ \/ main' = main /\ dir' = dir
         \/ main' = [main EXCEPT ![f] = Absent] /\ dir' = [dir EXCEPT ![o] = e]
      /\ Next1(proc) \/ Next1(WithError)
      /\ faults' = faults \/ Fault
  BY DEF RollbackPreserve, IntoDir
<1>5. proc' \in Procs /\ proc'.op = o /\ proc'.scanned = proc.scanned
  BY <1>2, <1>4, ErrorNoted, NextOne
<1>6. main[f] \in Bytes /\ Absent \in Bytes /\ d.failed \in [Files -> Bytes]
  BY <1>2, <1>3, DirFields DEF Bytes
<1>7. main' \in [Files -> Bytes] /\ noPrior(main')
  <2>1. CASE main' = main
    BY <1>2, <2>1
  <2>2. CASE main' = [main EXCEPT ![f] = Absent]
    BY <1>2, <1>6, <2>2 DEF noPrior, Absent
  <2>3. QED
    BY <1>4, <2>1, <2>2
<1>8. faults' \in 0..MaxFaults /\ pc \in Restoring \ {"stage", "prepare"}
      /\ pc' \in Restoring \ {"stage", "prepare"}
  BY <1>1, <1>4, FaultCounted DEF Restoring, RestoreInv, Typed
<1>9. CASE main' = main /\ dir' = dir
  <2>1. PointOK(pc', main', proc', d)
    BY <1>1, <1>7 DEF PointOK
  <2>2. QED
    BY <1>1, <1>5, <1>7, <1>8, <1>9, <2>1, StaysOn
<1>10. CASE main' = [main EXCEPT ![f] = Absent] /\ dir' = [dir EXCEPT ![o] = e]
  <2>1. Alike(d, e)
    <3>1. /\ e \in RestoreDirs /\ e.state = d.state /\ e.prior = d.prior /\ e.quar = d.quar
          /\ e.journal = d.journal /\ e.tail = d.tail
      BY <1>2, <1>6 DEF RestoreDirs
    <3> HIDE DEF e
    <3>2. QED
      BY <1>2, <3>1 DEF Alike, dirOK
  <2> HIDE DEF e, f
  <2>2. PointOK(pc', main', proc', e)
    BY <1>1, <1>7 DEF PointOK
  <2>3. /\ pc \in {"stage", "prepare"} <=> pc' \in {"stage", "prepare"}
        /\ pc \in Restoring /\ pc' \in Restoring
    BY <1>8
  <2>4. QED
    BY <1>1, <1>2, <1>5, <1>7, <1>8, <1>10, <2>1, <2>2, <2>3, GoesOn
<1>11. QED
  BY <1>4, <1>9, <1>10

\* The moved files are next.
LEMMA RollbackPreservedInv == RestoreInv /\ RollbackPreserved => RestoreInv'
<1> SUFFICES ASSUME RestoreInv, RollbackPreserved PROVE RestoreInv'
  OBVIOUS
<1>1. /\ pc = "rb-preserve" /\ pc' = "rb-restore" /\ proc' = [proc EXCEPT !.todo = proc.moved]
      /\ main' = main /\ dir' = dir /\ outcome' = outcome /\ faults' = faults /\ UNCHANGED History
  BY DEF RollbackPreserved
<1>2. proc \in Procs /\ proc.moved \subseteq Files /\ main \in [Files -> Bytes]
  BY <1>1, RestoringOp DEF Restoring
<1>3. proc' \in Procs /\ proc'.op = proc.op /\ proc'.scanned = proc.scanned
  BY <1>1, <1>2 DEF Procs
<1>4. PointOK(pc', main', proc', dir[proc.op])
  BY <1>1 DEF PointOK
<1>5. faults' \in 0..MaxFaults /\ pc \in Restoring \ {"stage", "prepare"}
      /\ pc' \in Restoring \ {"stage", "prepare"}
  BY <1>1 DEF Restoring, RestoreInv, Typed
<1>6. QED
  BY <1>1, <1>2, <1>3, <1>4, <1>5, StaysOn

\* A moved file goes back where it was, or stays in quarantine.
LEMMA RollbackRestoreInv == RestoreInv /\ RollbackRestore => RestoreInv'
<1> SUFFICES ASSUME RestoreInv, RollbackRestore PROVE RestoreInv'
  OBVIOUS
<1> DEFINE o == proc.op
           d == dir[o]
           f == PrimaryFirst(proc.todo)
<1>1. pc = "rb-restore" /\ proc.todo # {} /\ UNCHANGED History /\ pc' = pc /\ outcome' = outcome
  BY DEF RollbackRestore
<1>2. /\ o \in Live /\ proc \in Procs /\ proc.todo \subseteq Files /\ main \in [Files -> Bytes]
  BY <1>1, RestoringOp DEF Restoring
<1>3. f \in Files
  BY <1>1, <1>2, NextFile
<1>4. /\ \/ main' = main /\ dir' = dir
         \/ d.quar[f] = d.prior[f] /\ main[f] = Absent /\ BackToMain(o, f)
      /\ Next1(proc) \/ Next1(WithError)
      /\ faults' = faults \/ Fault
  BY DEF RollbackRestore, Here
<1>5. proc' \in Procs /\ proc'.op = o /\ proc'.scanned = proc.scanned
  BY <1>2, <1>4, ErrorNoted, NextOne
<1>6. faults' \in 0..MaxFaults /\ pc \in Restoring \ {"stage", "prepare"}
      /\ pc' \in Restoring \ {"stage", "prepare"}
  BY <1>1, <1>4, FaultCounted DEF Restoring, RestoreInv, Typed
<1>7. ASSUME NEW e PROVE PointOK(pc', main', proc', e)
  BY <1>1 DEF PointOK
<1>8. CASE main' = main /\ dir' = dir
  BY <1>1, <1>2, <1>5, <1>6, <1>7, <1>8, StaysOn
<1>9. CASE d.quar[f] = d.prior[f] /\ main[f] = Absent /\ BackToMain(o, f)
  <2> HIDE DEF f
  <2>1. PICK e \in RestoreDirs :
           /\ dirOK(e) /\ e.state = "live" /\ e.prior = dir[o].prior /\ e.journal = dir[o].journal
           /\ e.quar = [dir[o].quar EXCEPT ![f] = Absent]
           /\ dir' = [dir EXCEPT ![o] = e]
           /\ main' \in [Files -> Bytes] /\ main' = [main EXCEPT ![f] = dir[o].quar[f]]
           /\ \A g \in Files : main[g] = "prior" \/ dir[o].quar[g] = "prior" =>
                main'[g] = "prior" \/ e.quar[g] = "prior"
    BY <1>2, <1>3, <1>9, BackDir
  <2>2. /\ dirOK(e) /\ e.state = "live" /\ e.prior = dir[proc.op].prior
        /\ e.journal = dir[proc.op].journal /\ dir' = [dir EXCEPT ![proc.op] = e]
        /\ main' \in [Files -> Bytes]
        /\ \A g \in Files : main[g] = "prior" \/ dir[proc.op].quar[g] = "prior" =>
             main'[g] = "prior" \/ e.quar[g] = "prior"
    BY <2>1
  <2>3. QED
    BY <1>1, <1>5, <1>6, <1>7, <2>2, MovesOn
<1>10. QED
  BY <1>4, <1>8, <1>9

\* The rollback is over, verified or not.
LEMMA RollbackFinishInv == RestoreInv /\ RollbackFinish => RestoreInv'
<1> SUFFICES ASSUME RestoreInv, RollbackFinish PROVE RestoreInv'
  OBVIOUS
<1> DEFINE d == dir[proc.op]
           a == Appended(d, "rolled-back")
<1>1. pc = "rb-restore" /\ main' = main /\ UNCHANGED History
  BY DEF RollbackFinish
<1>2. /\ d \in RestoreDirs /\ dirOK(d) /\ d.state = "live" /\ d.journal # <<>> /\ proc \in Procs
      /\ proc.op \in Ops /\ main \in [Files -> Bytes]
  BY <1>1, RestoringOp DEF Restoring
<1>3. Alike(d, a) /\ \A e \in FailedAppends(d, "rolled-back") : Alike(d, e)
  BY <1>2, AppendsAlike DEF Phases
<1>4. \/ OfferRecovery(proc) /\ dir' = dir /\ faults' = faults
      \/ /\ \A f \in Present(d.prior) : main[f] = d.prior[f]
         /\ dir' = [dir EXCEPT ![proc.op] = a] /\ Keep("rb-discard") /\ faults' = faults
      \/ /\ Fault /\ OfferRecovery(proc)
         /\ \E e \in FailedAppends(d, "rolled-back") : dir' = [dir EXCEPT ![proc.op] = e]
  BY DEF RollbackFinish, RollbackVerified, Here
<1> HIDE DEF a
<1>5. CASE OfferRecovery(proc) /\ dir' = dir /\ faults' = faults
  <2>1. faults' \in 0..MaxFaults
    BY <1>5 DEF RestoreInv, Typed
  <2>2. QED
    BY <1>1, <1>2, <1>5, <2>1, OfferInv
<1>6. CASE /\ \A f \in Present(d.prior) : main[f] = d.prior[f]
           /\ dir' = [dir EXCEPT ![proc.op] = a] /\ Keep("rb-discard") /\ faults' = faults
  <2>1. /\ pc' = "rb-discard" /\ proc' = proc /\ outcome' = outcome
        /\ proc' \in Procs /\ proc'.op = proc.op /\ proc'.scanned = proc.scanned
    BY <1>2, <1>6 DEF Keep
  <2>2. PointOK(pc', main', proc', a)
    BY <1>1, <1>3, <1>6, <2>1 DEF PointOK, Alike
  <2>3. /\ pc \in Restoring /\ pc' \in Restoring
        /\ pc \in {"stage", "prepare"} <=> pc' \in {"stage", "prepare"}
    BY <1>1, <2>1 DEF Restoring
  <2>4. faults' \in 0..MaxFaults /\ main' \in [Files -> Bytes] /\ main' = main
    BY <1>1, <1>2, <1>6 DEF RestoreInv, Typed
  <2>5. QED
    BY <1>1, <1>3, <1>6, <2>1, <2>2, <2>3, <2>4, GoesOn
<1>7. ASSUME Fault, OfferRecovery(proc), NEW e \in FailedAppends(d, "rolled-back"),
             dir' = [dir EXCEPT ![proc.op] = e]
      PROVE  RestoreInv'
  <2>1. e \in RestoreDirs /\ Alike(dir[proc.op], e)
    BY <1>3 DEF Alike
  <2>2. faults' \in 0..MaxFaults
    BY <1>7, FaultCounted
  <2>3. QED
    BY <1>1, <1>2, <1>7, <2>1, <2>2, OfferInv
<1>8. QED
  BY <1>4, <1>5, <1>6, <1>7

\* A restore that is rolled back has nothing that is not under its own name again.
LEMMA RollbackDiscardInv == RestoreInv /\ RollbackDiscard => RestoreInv'
<1> SUFFICES ASSUME RestoreInv, RollbackDiscard PROVE RestoreInv'
  OBVIOUS
<1> DEFINE d == dir[proc.op]
           e(s) == [d EXCEPT !.state = s]
<1>1. /\ pc = "rb-discard" /\ main' = main /\ UNCHANGED <<main, History>> /\ OfferRecovery(proc)
      /\ faults' = faults \/ Fault
  BY DEF RollbackDiscard
<1>2. /\ d \in RestoreDirs /\ dirOK(d) /\ d.state = "live" /\ proc \in Procs /\ proc.op \in Ops
      /\ main \in [Files -> Bytes] /\ pc \in Restoring
      /\ \A f \in Present(d.prior) : main[f] = d.prior[f]
  BY <1>1, RestoringOp DEF Restoring, PointOK
<1>3. faults' \in 0..MaxFaults
  BY <1>1, FaultCounted DEF RestoreInv, Typed
<1>4. PICK s \in {"gone", "discard", "live"} : dir' = [dir EXCEPT ![proc.op] = e(s)]
  BY DEF RollbackDiscard
<1>5. /\ e(s) \in RestoreDirs /\ dirOK(e(s)) /\ e(s).state = s /\ e(s).journal = d.journal
      /\ s = "live" => Alike(d, e(s))
  BY <1>2, DiscardedDir
<1> HIDE DEF e
<1>6. CASE s = "live"
  BY <1>1, <1>2, <1>3, <1>4, <1>5, <1>6, OfferInv
<1>7. CASE s # "live"
  <2>1. ASSUME NEW f \in Files, d.quar[f] = "prior" PROVE main[f] = "prior"
    <3>1. d.prior[f] = "prior"
      BY <1>2, <2>1 DEF dirOK, Absent
    <3>2. QED
      BY <1>2, <3>1 DEF Present, Absent
  <2>2. QED
    BY <1>1, <1>2, <1>3, <1>4, <1>5, <1>7, <2>1, GivenUp
<1>8. QED
  BY <1>6, <1>7

-----------------------------------------------------------------------------
(* Crashes, and every behaviour *)

\* A crash, or a file operation that fails while the store is opened, loses what the
\* process remembers and tears at most one append.
LEMMA InterruptedInv ==
  ASSUME RestoreInv, NEW how \in {"crashed", "io-error"}, Interrupted(how)
  PROVE  RestoreInv'
<1> DEFINE o == proc.op
           e == Torn(dir[o])
<1>1. EndStart(how) /\ UNCHANGED <<main, faults, History>>
  BY DEF Interrupted
<1>2. CASE dir' = dir
  BY <1>1, <1>2, EndsInv
<1>3. CASE Appending /\ dir' = [dir EXCEPT ![o] = e]
  <2>1. /\ o \in Ops /\ dir[o] \in RestoreDirs /\ dirOK(dir[o]) /\ dir[o].state = "live"
    <3>1. pc \in Restoring \/ pc \in Undoing
      BY <1>3 DEF Appending, AppendPoints, Restoring, Undoing
    <3>2. QED
      BY <3>1, RestoringOp, UndoingOp
  <2>2. Alike(dir[o], e)
    BY <2>1, AppendsAlike DEF Phases
  <2> HIDE DEF o, e
  <2>3. proc' \in Procs /\ pc' = "off" /\ outcome' = how /\ proc'.scanned = {}
    BY <1>1, StartEnds
  <2>4. /\ main' = main /\ faults' = faults /\ marker' = marker /\ owner' = owner
        /\ origin' = origin /\ starts' = starts
    BY <1>1 DEF History
  <2>5. dir' \in [Ops -> RestoreDirs] /\ DirsOK' /\ OldOK' /\ PriorFilesSurvive'
    BY <1>3, <2>1, <2>2, <2>3, <2>4, AlikeStep
  <2>6. Typed'
    BY <2>3, <2>4, <2>5 DEF RestoreInv, Typed, Points
  <2>7. PcOK'
    BY <2>3, RestingStep DEF Resting
  <2>8. QED
    BY <2>5, <2>6, <2>7 DEF RestoreInv
<1>4. QED
  BY <1>2, <1>3 DEF Interrupted

\* The two of them as steps of the program.
LEMMA CrashInv == RestoreInv /\ (Crash \/ OpeningFails) => RestoreInv'
  BY InterruptedInv DEF Crash, OpeningFails

\* A step in which nothing happens.
LEMMA RestoreStutters == RestoreInv /\ UNCHANGED restoreVars => RestoreInv'
<1> SUFFICES ASSUME RestoreInv, UNCHANGED restoreVars PROVE RestoreInv'
  OBVIOUS
<1>1. /\ main' = main /\ dir' = dir /\ marker' = marker /\ pc' = pc /\ proc' = proc
      /\ outcome' = outcome /\ owner' = owner /\ origin' = origin /\ starts' = starts
      /\ faults' = faults
  BY DEF restoreVars
<1>2. Live' = Live
  BY <1>1 DEF Live
<1>3. Typed'
  BY <1>1 DEF RestoreInv, Typed
<1>4. DirsOK'
  BY <1>1 DEF RestoreInv, DirsOK
<1>5. PcOK'
  BY <1>1, <1>2 DEF RestoreInv, PcOK
<1>6. OldOK' /\ PriorFilesSurvive'
  BY <1>1, <1>2 DEF RestoreInv, OldOK, PriorFilesSurvive, Present
<1>7. QED
  BY <1>3, <1>4, <1>5, <1>6 DEF RestoreInv

\* Before the first start there is no restore.
LEMMA RestoreInitially == RestoreInit => RestoreInv
<1> SUFFICES ASSUME RestoreInit PROVE RestoreInv
  OBVIOUS
<1>1. /\ main \in [Files -> {Absent, "prior"}]
      /\ main["db"] = Absent => main = NoFiles
      /\ marker \in BOOLEAN /\ dir = [o \in Ops |-> EmptyDir] /\ pc = "off"
      /\ proc = IdleProc /\ outcome = "none" /\ origin = main /\ starts = 0 /\ faults = 0
      /\ owner = IF main["db"] = "prior" THEN "old" ELSE IF marker THEN "lost" ELSE "none"
  BY DEF RestoreInit
<1>2. main \in [Files -> Bytes]
  BY <1>1 DEF Bytes
<1>3. NoFiles \in [Files -> Bytes] /\ <<>> \in Seq(Phases \cup {"garbled"})
  BY DEF NoFiles, Bytes
<1>4. EmptyDir \in RestoreDirs
  BY <1>3 DEF EmptyDir, RestoreDirs, Tails
<1>5. dirOK(EmptyDir)
  BY DEF dirOK, EmptyDir, NoFiles
<1>6. IdleProc \in Procs /\ IdleProc.scanned = {}
  BY RestoreAssumption DEF IdleProc, Procs, Views
<1>7. Typed
  BY <1>1, <1>2, <1>4, <1>6, RestoreAssumption DEF Typed, Points
<1>8. DirsOK
  BY <1>1, <1>5 DEF DirsOK, EmptyDir
<1>9. Live = {}
  BY <1>1 DEF Live, EmptyDir
<1>10. PcOK
  BY <1>1, <1>6 DEF PcOK, Restoring, Undoing
<1>11. OldOK
  BY <1>1, <1>9 DEF OldOK
<1>12. PriorFilesSurvive
  BY <1>1 DEF PriorFilesSurvive, Present
<1>13. QED
  BY <1>7, <1>8, <1>10, <1>11, <1>12 DEF RestoreInv

\* Every step of the program, and every crash, keeps the invariant.
LEMMA RestoreStep == RestoreInv /\ [RestoreNext]_restoreVars => RestoreInv'
  BY StartInv, PrepareBoundaryInv, RemoveDiscardedInv, ScanDirectoryInv, ScanEndsInv,
     UndoRecordInv, UndoPreserveInv, UndoPreservedInv, UndoRestoreInv, UndoFinishInv,
     UndoDiscardInv, OpenStoreInv, WorkInv, CloseStoreInv, ChooseBackupInv, CreateInv,
     StageCandidateInv, RecordPreparedInv, RecordQuarantiningInv, QuarantineNextInv,
     RecordQuarantinedInv, InstallCandidateInv, RecordInstalledInv, ValidateInv,
     RecordCompletedInv, RollbackRecordInv, RollbackPreserveInv, RollbackPreservedInv,
     RollbackRestoreInv, RollbackFinishInv, RollbackDiscardInv, CrashInv, RestoreStutters
     DEF RestoreNext, ProcessStep

\* The inductive invariant, for any number of sidecars, restores, starts and faults.
THEOREM RestoreInvariance == RestoreSpec => []RestoreInv
  BY RestoreInitially, RestoreStep, PTL DEF RestoreSpec

\* Types of the files, the journals and the process.
THEOREM RestoreTypesHold == RestoreSpec => []RestoreTypeOK
<1>1. RestoreInv => RestoreTypeOK
  BY DEF RestoreInv, Typed, RestoreTypeOK, Procs
<1>2. QED
  BY <1>1, RestoreInvariance, PTL

\* Until a restore is complete every file of the old database is intact, under its own
\* name or in the quarantine of a directory that is in use, whatever crashed or failed.
THEOREM PriorFilesAlwaysSurvive == RestoreSpec => []PriorFilesSurvive
<1>1. RestoreInv => PriorFilesSurvive
  BY DEF RestoreInv
<1>2. QED
  BY <1>1, RestoreInvariance, PTL
=============================================================================
