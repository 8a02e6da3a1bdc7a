------------------------ MODULE RestoreAtomicProofs ------------------------
(***************************************************************************)
(* The restore implements AtomicReplace, for any number of sidecars,       *)
(* restores, attempts, starts and failed file operations.                  *)
(*                                                                         *)
(* What DatabaseRestoreProofs says of the old database is said here of any *)
(* database that a start may find: it is one that can be offered or opened *)
(* (Sound), or a restore in use is stuck, and as long as one is, no start  *)
(* gets to open the store.                                                 *)
(***************************************************************************)
EXTENDS DatabaseRestoreProofs

-----------------------------------------------------------------------------
(* The inductive invariant *)

\* A restore whose directory no start discards: it is undone, or blocks every start.
Stuck(d) ==
  d.journal # <<>> /\ (~ParsesJournal(d) \/ LastPhase(d) \notin TerminalPhases)

\* A restore that holds what was there before it.
Holds(d) == Stuck(d) \/ (d.journal # <<>> /\ LastPhase(d) = "completed")

\* A directory that agrees with no database in which the application has worked.
Sealed(d) ==
  /\ d.tail # "nofile" /\ d.journal # <<>>
  /\ ~ParsesJournal(d) \/ (LastPhase(d) = "completed" /\ d.installed["db"] = "audited")

\* The old database, none at all where one is known to be missing, or a whole backup.
Sound(m, known) ==
  \/ m["db"] = "prior"
  \/ m["db"] = Absent /\ known
  \/ m["db"] = "audited" /\ noPrior(m)

Opening == pc \in {"open", "running"} \/ (pc = "boundary" /\ proc.reconciled)

\* Before the first database there is nothing.
NoneOK ==
  owner = "none" =>
    /\ main = NoFiles /\ ~marker /\ pc \in {"off", "boundary", "scan", "open"}
    /\ \A o \in Ops : dir[o].state = "unused"

\* A database in which the application has worked is never restored again.
OwnOK ==
  owner = "own" =>
    /\ main["db"] = "own" /\ pc \in {"off", "boundary", "scan", "open", "running"}
    /\ \/ Live = {}
       \/ \E o \in Live : Sealed(dir[o]) /\ (pc = "scan" => o \notin proc.scanned)

\* A missing database is missing until a restore is complete.
LostOK ==
  owner = "lost" =>
    /\ marker /\ pc # "running" /\ (Opening => Live = {})
    /\ main = NoFiles \/ \E p \in Live : Holds(dir[p])
    /\ \A o \in Live : dir[o].journal # <<>> =>
         dir[o].prior = NoFiles \/ \E p \in Live : p < o /\ Holds(dir[p])

\* The files of the database, and those each restore bound.
SoundOK ==
  owner \in {"old", "lost", "new"} =>
    /\ Opening => Sound(main, marker) /\ (Live = {} \/ \E o \in Live : Sealed(dir[o]))
    /\ Sound(main, marker) \/ \E p \in Live : Stuck(dir[p])
    /\ \A o \in Live : dir[o].journal # <<>> =>
         /\ Sound(dir[o].prior, marker) \/ \E p \in Live : p < o /\ Stuck(dir[p])
         /\ dir[o].prior["db"] = Absent => dir[o].prior = NoFiles
         /\ \A f \in Files : dir[o].prior[f] # "prior" =>
              main[f] # "prior" /\ \A q \in Live : q >= o => dir[q].quar[f] # "prior"

\* The points at which a restore in use is stuck.
StuckPoints == {"undo-record", "undo-preserve", "undo-restore", "quarantine", "install",
                "record-installed", "validate", "validating", "complete", "rb-preserve",
                "rb-restore"}

\* What the point p adds, of a process r over the files m and the directory d it works on.
MorePointOK(p, m, r, d) ==
  /\ p \in StuckPoints => Stuck(d)
  /\ p = "undo-restore" => \A f \in Present(d.prior) \ r.todo : m[f] = d.prior[f]
  /\ p = "undo-discard" => \A f \in Present(d.prior) : m[f] = d.prior[f]
  /\ p \in {"undo-discard", "rb-discard"} /\ d.prior = NoFiles => m = NoFiles
  /\ p \in {"validating", "complete"} => m["db"] = "audited"

\* Once the directories are reconciled the process stays out of the scan.
MorePcOK ==
  /\ pc = "running" <=> proc.view # "closed"
  /\ pc = "boundary" => proc.reconciled \/ proc.scanned = {}
  /\ pc \in Restoring \cup {"open", "running", "dialog", "create"} => proc.reconciled
  /\ pc = "scan" => \A o \in Live \cap proc.scanned : Stuck(dir[o])
  /\ pc \in Restoring \cup Undoing => MorePointOK(pc, main, proc, dir[proc.op])

AtomicInv == NoneOK /\ OwnOK /\ LostOK /\ SoundOK /\ MorePcOK


-----------------------------------------------------------------------------
(* Journals *)

\* What is said of a journal depends on its records only.
LEMMA SameJournal ==
  ASSUME NEW d, NEW e, e.journal = d.journal
  PROVE  (Stuck(e) <=> Stuck(d)) /\ (Holds(e) <=> Holds(d))
  BY DEF Stuck, Holds, ParsesJournal, LastPhase

\* A record that is appended is the last one, or the journal does not parse any more.
LEMMA AppendedLast ==
  ASSUME NEW d \in RestoreDirs, NEW ph \in Phases, d.journal # <<>>
  PROVE  LET e == Appended(d, ph) IN
         /\ e.journal # <<>> /\ LastPhase(e) \in {ph, "garbled"}
         /\ LastPhase(e) = "garbled" => ~ParsesJournal(e)
<1> DEFINE x == IF d.tail = "torn" THEN "garbled" ELSE ph
           j == Append(d.journal, x)
           e == Appended(d, ph)
<1>1. d.journal \in Seq(Phases \cup {"garbled"}) /\ x \in Phases \cup {"garbled"}
  BY DirFields
<1>2. /\ j \in Seq(Phases \cup {"garbled"}) /\ Len(j) = Len(d.journal) + 1 /\ j[Len(j)] = x
      /\ Len(d.journal) \in Nat \ {0} /\ j # <<>>
  <2>1. Len(d.journal) \in Nat /\ Len(d.journal) # 0
    BY <1>1
  <2>2. j \in Seq(Phases \cup {"garbled"}) /\ Len(j) = Len(d.journal) + 1
    BY <1>1
  <2>3. j[Len(d.journal) + 1] = x
    BY <1>1
  <2>4. j # <<>>
    BY <2>1, <2>2
  <2>5. QED
    BY <2>1, <2>2, <2>3, <2>4
<1>3. e.journal = j
  BY DEF Appended, RestoreDirs
<1> HIDE DEF j
<1>4. LastPhase(e) = x
  BY <1>2, <1>3 DEF LastPhase
<1>5. x = "garbled" => ~ParsesJournal(e)
  <2>1. Len(j) \in 2..Len(j)
    BY <1>2
  <2>2. \A y : <<y, "garbled">> \notin AllowedTransitions
    BY DEF AllowedTransitions
  <2>3. QED
    BY <1>2, <1>3, <2>1, <2>2 DEF ParsesJournal
<1>6. QED
  BY <1>2, <1>3, <1>4, <1>5

\* Only the end of a restore lets go of it.
LEMMA AppendedStuck ==
  ASSUME NEW d \in RestoreDirs, NEW ph \in Phases, d.journal # <<>>
  PROVE  /\ ph \notin TerminalPhases => Stuck(Appended(d, ph))
         /\ ph = "completed" => Holds(Appended(d, ph))
<1>1. /\ Appended(d, ph).journal # <<>> /\ LastPhase(Appended(d, ph)) \in {ph, "garbled"}
      /\ LastPhase(Appended(d, ph)) = "garbled" => ~ParsesJournal(Appended(d, ph))
  BY AppendedLast
<1>2. QED
  BY <1>1 DEF Stuck, Holds

\* So an append that fails keeps a restore stuck, too.
LEMMA FailedStuck ==
  ASSUME NEW d \in RestoreDirs, NEW ph \in Phases \ TerminalPhases, d.journal # <<>>,
         NEW e \in FailedAppends(d, ph)
  PROVE  (Stuck(d) => Stuck(e)) /\ (Holds(d) => Holds(e))
<1>1. CASE e = Appended(d, ph)
  BY <1>1, AppendedStuck DEF Holds
<1>2. CASE e = d \/ e = Torn(d)
  <2>1. e.journal = d.journal
    BY <1>2, TornDir
  <2>2. QED
    BY <2>1, SameJournal
<1>3. QED
  BY <1>1, <1>2 DEF FailedAppends

\* A restore without a record is not in the way.
LEMMA EmptyFree ==
  ASSUME NEW d, d.journal = <<>>
  PROVE  ~Stuck(d) /\ ~Holds(d)
  BY DEF Stuck, Holds

-----------------------------------------------------------------------------
(* Kinds of steps *)

Acting == owner \in {"old", "lost", "new"}

\* A restore, its rollback and an undo are about a database that is known to have been there.
LEMMA ActingOwner ==
  ASSUME RestoreInv, AtomicInv,
         pc \in Restoring \cup Undoing \cup {"dialog", "create"}
  PROVE  Acting
<1>1. owner \in {"none", "lost", "old", "new", "own"}
  BY DEF RestoreInv, Typed
<1>2. pc \notin {"off", "boundary", "scan", "open", "running"}
  BY DEF Restoring, Undoing
<1>3. QED
  BY <1>1, <1>2 DEF AtomicInv, NoneOK, OwnOK, Acting

\* The directory of a restore that is running or being undone.
LEMMA WorkingOp ==
  ASSUME RestoreInv, AtomicInv, pc \in Restoring \cup Undoing
  PROVE  /\ Acting /\ proc.op \in Ops /\ proc.op \in Live /\ dir[proc.op] \in RestoreDirs
         /\ dirOK(dir[proc.op]) /\ dir[proc.op].state = "live" /\ \A p \in Live : p <= proc.op
         /\ proc \in Procs /\ proc.todo \subseteq Files /\ proc.view = "closed"
         /\ main \in [Files -> Bytes]
         /\ dir[proc.op].prior \in [Files -> Bytes] /\ dir[proc.op].quar \in [Files -> Bytes]
<1>1. Acting
  BY ActingOwner
<1>2. pc # "running" /\ proc.view = "closed"
  BY DEF AtomicInv, MorePcOK, Restoring, Undoing
<1>3. /\ proc.op \in Ops /\ proc.op \in Live /\ dir[proc.op] \in RestoreDirs
      /\ dirOK(dir[proc.op]) /\ dir[proc.op].state = "live" /\ \A p \in Live : p <= proc.op
      /\ proc \in Procs /\ proc.todo \subseteq Files /\ main \in [Files -> Bytes]
  <2>1. CASE pc \in Restoring
    BY <2>1, RestoringOp
  <2>2. CASE pc \in Undoing
    <3>1. /\ proc.op \in Ops /\ Live = {proc.op} /\ dir[proc.op] \in RestoreDirs
          /\ dirOK(dir[proc.op]) /\ dir[proc.op].state = "live"
          /\ proc \in Procs /\ proc.todo \subseteq Files
      BY <2>2, UndoingOp
    <3>2. proc.op <= proc.op
      BY <3>1 DEF Ops
    <3>3. QED
      BY <3>1, <3>2 DEF RestoreInv, Typed
  <2>3. QED
    BY <2>1, <2>2
<1>4. QED
  BY <1>1, <1>2, <1>3, DirFields

\* A step that leaves the database and the directories in use as they are.
LEMMA Quiet ==
  ASSUME RestoreInv, AtomicInv, main' = main, marker' = marker, owner' = owner, Live' = Live,
         \A p \in Live : dir'[p] = dir[p], owner = "none" => dir' = dir,
         owner = "none" => pc' \in {"off", "boundary", "scan", "open"},
         owner = "own" => pc' \in {"off", "boundary", "scan", "open", "running"},
         owner = "own" /\ pc' = "scan" => \A w \in Live :
           Sealed(dir[w]) /\ w \in proc'.scanned => pc = "scan" /\ w \in proc.scanned,
         owner = "lost" => pc' # "running", Opening' => Opening \/ Live = {}
  PROVE  NoneOK' /\ OwnOK' /\ LostOK' /\ SoundOK'
<1>1. NoneOK'
  BY DEF AtomicInv, NoneOK
<1>2. OwnOK'
  BY DEF AtomicInv, OwnOK
<1>3. LostOK'
  BY DEF AtomicInv, LostOK
<1>4. SoundOK'
  BY DEF AtomicInv, SoundOK
<1>5. QED
  BY <1>1, <1>2, <1>3, <1>4

\* A step that changes the last directory in use, or the database under its control.
LEMMA Works ==
  ASSUME RestoreInv, AtomicInv, Acting, owner' = owner \/ owner' = "new", marker' = marker,
         NEW o \in Live, \A p \in Live : p <= o, NEW e, dir' = [dir EXCEPT ![o] = e],
         e.state = "live", e.prior = dir[o].prior, e.journal = <<>> <=> dir[o].journal = <<>>,
         \A f \in Files : main'[f] = "prior" \/ e.quar[f] = "prior" =>
           main[f] = "prior" \/ dir[o].quar[f] = "prior",
         \/ Sound(main', marker)
         \/ Stuck(e)
         \/ \E p \in Live : p < o /\ Stuck(dir[p])
         \/ main' = main /\ (Stuck(dir[o]) => Stuck(e)),
         owner' = "lost" => \/ main' = NoFiles
                            \/ Holds(e)
                            \/ \E p \in Live : p < o /\ Holds(dir[p])
                            \/ main' = main /\ (Holds(dir[o]) => Holds(e)),
         Opening' => owner' = "new" /\ Sound(main', marker) /\ Sealed(e),
         pc' # "running"
  PROVE  NoneOK' /\ OwnOK' /\ LostOK' /\ SoundOK' /\ Live' = Live /\ dir'[o] = e
<1>1. NoneOK' /\ OwnOK' /\ owner' \in {"old", "lost", "new"}
  BY DEF NoneOK, OwnOK, Acting
<1>2. Live \subseteq Ops /\ Ops \subseteq Nat /\ dir \in [Ops -> RestoreDirs] /\ dir[o].state = "live"
  BY DEF Live, Ops, RestoreInv, Typed
<1>3. dir'[o] = e /\ \A p \in Ops : p # o => dir'[p] = dir[p]
  BY <1>2
<1>4. Live' = Live
  BY <1>2, <1>3 DEF Live
<1>5. ASSUME NEW p \in Live, p < o PROVE p # o /\ dir'[p] = dir[p]
  <2>1. p \in Ops /\ p \in Nat
    BY <1>2
  <2>2. p # o
    BY <1>5, <2>1
  <2>3. QED
    BY <1>3, <2>1, <2>2
<1>6. \A q \in Live, p \in Live : p < q => p < o
  BY <1>2
<1>7. LostOK'
  <2>1. SUFFICES ASSUME owner' = "lost" PROVE LostOK'
    BY DEF LostOK
  <2>2. /\ owner = "lost" /\ marker
        /\ main = NoFiles \/ \E p \in Live : Holds(dir[p])
        /\ \A q \in Live : dir[q].journal # <<>> =>
             dir[q].prior = NoFiles \/ \E p \in Live : p < q /\ Holds(dir[p])
    BY <2>1 DEF AtomicInv, LostOK
  <2>3. main' = NoFiles \/ \E p \in Live : Holds(dir'[p])
    BY <1>2, <1>3, <1>5, <2>1, <2>2
  <2>4. ASSUME NEW q \in Live, dir'[q].journal # <<>>
        PROVE  dir'[q].prior = NoFiles \/ \E p \in Live : p < q /\ Holds(dir'[p])
    <3>1. dir[q].journal # <<>> /\ dir'[q].prior = dir[q].prior
      BY <1>2, <1>3, <2>4
    <3>2. QED
      BY <1>5, <1>6, <2>2, <3>1
  <2>5. marker' /\ pc' # "running" /\ (Opening' => Live' = {})
    BY <2>1, <2>2
  <2>6. QED
    BY <1>4, <2>3, <2>4, <2>5 DEF LostOK
<1>8. SoundOK'
  <2>1. /\ Sound(main, marker) \/ \E p \in Live : Stuck(dir[p])
        /\ \A q \in Live : dir[q].journal # <<>> =>
             /\ Sound(dir[q].prior, marker) \/ \E p \in Live : p < q /\ Stuck(dir[p])
             /\ dir[q].prior["db"] = Absent => dir[q].prior = NoFiles
             /\ \A f \in Files : dir[q].prior[f] # "prior" =>
                  main[f] # "prior" /\ \A p \in Live : p >= q => dir[p].quar[f] # "prior"
    BY DEF AtomicInv, SoundOK, Acting
  <2>2. Sound(main', marker) \/ \E p \in Live : Stuck(dir'[p])
    BY <1>2, <1>3, <1>5, <2>1
  <2>3. ASSUME NEW q \in Live, dir'[q].journal # <<>>
        PROVE  /\ Sound(dir'[q].prior, marker) \/ \E p \in Live : p < q /\ Stuck(dir'[p])
               /\ dir'[q].prior["db"] = Absent => dir'[q].prior = NoFiles
               /\ \A f \in Files : dir'[q].prior[f] # "prior" =>
                    main'[f] # "prior" /\ \A p \in Live : p >= q => dir'[p].quar[f] # "prior"
    <3>1. dir[q].journal # <<>> /\ dir'[q].prior = dir[q].prior
      BY <1>2, <1>3, <2>3
    <3>2. Sound(dir'[q].prior, marker) \/ \E p \in Live : p < q /\ Stuck(dir'[p])
      BY <1>5, <1>6, <2>1, <3>1
    <3>3. ASSUME NEW f \in Files, dir'[q].prior[f] # "prior"
          PROVE  main'[f] # "prior" /\ \A p \in Live : p >= q => dir'[p].quar[f] # "prior"
      <4>1. main[f] # "prior" /\ \A p \in Live : p >= q => dir[p].quar[f] # "prior"
        BY <2>1, <3>1, <3>3
      <4>2. o >= q
        BY <1>2
      <4>3. main'[f] # "prior" /\ e.quar[f] # "prior"
        BY <4>1, <4>2
      <4>4. QED
        BY <1>2, <1>3, <4>1, <4>3
    <3>4. QED
      BY <2>1, <3>1, <3>2, <3>3
  <2>4. Opening' => Sound(main', marker') /\ \E q \in Live' : Sealed(dir'[q])
    BY <1>3, <1>4, <1>2
  <2>5. QED
    BY <1>1, <1>4, <2>2, <2>3, <2>4 DEF SoundOK
<1>9. QED
  BY <1>1, <1>3, <1>4, <1>7, <1>8

\* What the restore o had to put back is back.
Back(o) ==
  /\ \A f \in Present(dir[o].prior) : main[f] = dir[o].prior[f]
  /\ dir[o].prior = NoFiles => main = NoFiles

\* Then the database is sound, or an earlier restore is stuck.
LEMMA BackIsSound ==
  ASSUME RestoreInv, AtomicInv, Acting, NEW o \in Live, dir[o].journal # <<>>, Back(o)
  PROVE  /\ Sound(main, marker) \/ \E p \in Live : p < o /\ Stuck(dir[p])
         /\ owner = "lost" => main = NoFiles \/ \E p \in Live : p < o /\ Holds(dir[p])
<1>1. /\ Sound(dir[o].prior, marker) \/ \E p \in Live : p < o /\ Stuck(dir[p])
      /\ dir[o].prior["db"] = Absent => dir[o].prior = NoFiles
      /\ \A f \in Files : dir[o].prior[f] # "prior" => main[f] # "prior"
  BY DEF AtomicInv, SoundOK, Acting
<1>2. owner = "lost" => dir[o].prior = NoFiles \/ \E p \in Live : p < o /\ Holds(dir[p])
  BY DEF AtomicInv, LostOK
<1>3. ASSUME Sound(dir[o].prior, marker) PROVE Sound(main, marker)
  <2>1. "db" \in Files
    BY DEF Files
  <2>2. CASE dir[o].prior["db"] = Absent
    <3>1. main = NoFiles
      BY <1>1, <2>2 DEF Back
    <3>2. main["db"] = Absent
      BY <2>1, <3>1 DEF NoFiles
    <3>3. marker
      BY <1>3, <2>2 DEF Sound, Absent
    <3>4. QED
      BY <3>2, <3>3 DEF Sound
  <2>3. CASE dir[o].prior["db"] # Absent
    <3>1. main["db"] = dir[o].prior["db"]
      BY <2>1, <2>3 DEF Back, Present
    <3>2. noPrior(dir[o].prior) => noPrior(main)
      BY <1>1 DEF noPrior
    <3>3. QED
      BY <1>3, <2>3, <3>1, <3>2 DEF Sound
  <2>4. QED
    BY <2>2, <2>3
<1>4. QED
  BY <1>1, <1>2, <1>3 DEF Back

\* A step by which a directory is given up that is not in the way.
LEMMA Leaves ==
  ASSUME RestoreInv, AtomicInv, Acting, NEW o \in Live, NEW e, dir' = [dir EXCEPT ![o] = e],
         e.state \in {"gone", "discard"}, main' = main, marker' = marker,
         owner' = owner \/ owner' = "new",
         \/ ~Stuck(dir[o]) /\ (~Holds(dir[o]) \/ owner' = "new")
         \/ (\A p \in Live : p <= o) /\ dir[o].journal # <<>> /\ Back(o),
         pc' \notin {"open", "running", "boundary"}
  PROVE  /\ NoneOK' /\ OwnOK' /\ LostOK' /\ SoundOK' /\ Live' = Live \ {o}
         /\ \A p \in Live' : dir'[p] = dir[p]
<1>1. NoneOK' /\ OwnOK' /\ ~Opening' /\ owner' \in {"old", "lost", "new"}
  BY DEF NoneOK, OwnOK, Acting, Opening
<1>2. Live \subseteq Ops /\ Ops \subseteq Nat /\ dir \in [Ops -> RestoreDirs]
  BY DEF Live, Ops, RestoreInv, Typed
<1>3. dir'[o] = e /\ \A p \in Ops : p # o => dir'[p] = dir[p]
  BY <1>2
<1>4. Live' = Live \ {o} /\ \A p \in Live' : dir'[p] = dir[p]
  BY <1>2, <1>3 DEF Live
<1>5. \A q \in Live', p \in Live : p < q /\ Stuck(dir[p]) => p \in Live'
  <2>1. SUFFICES ASSUME NEW q \in Live', NEW p \in Live, p < q, Stuck(dir[p]) PROVE p # o
    BY <1>4
  <2>2. CASE ~Stuck(dir[o])
    BY <2>1, <2>2
  <2>3. CASE \A x \in Live : x <= o
    <3>1. q \in Live /\ q # o /\ q <= o
      BY <1>4, <2>3
    <3>2. QED
      BY <1>2, <2>1, <3>1
  <2>4. QED
    BY <2>2, <2>3
<1>6. owner' = "lost" => \A q \in Live', p \in Live : p < q /\ Holds(dir[p]) => p \in Live'
  <2>1. SUFFICES ASSUME owner' = "lost", NEW q \in Live', NEW p \in Live, p < q, Holds(dir[p])
                 PROVE p # o
    BY <1>4
  <2>2. CASE ~Holds(dir[o])
    BY <2>1, <2>2
  <2>3. CASE \A x \in Live : x <= o
    <3>1. q \in Live /\ q # o /\ q <= o
      BY <1>4, <2>3
    <3>2. QED
      BY <1>2, <2>1, <3>1
  <2>4. QED
    BY <2>1, <2>2, <2>3
<1>7. LostOK'
  <2>1. SUFFICES ASSUME owner' = "lost" PROVE LostOK'
    BY DEF LostOK
  <2>2. owner = "lost"
    BY <2>1
  <2>3. /\ marker
        /\ main = NoFiles \/ \E p \in Live : Holds(dir[p])
        /\ \A q \in Live : dir[q].journal # <<>> =>
             dir[q].prior = NoFiles \/ \E p \in Live : p < q /\ Holds(dir[p])
    BY <2>2 DEF AtomicInv, LostOK
  <2>4. main = NoFiles \/ \E p \in Live' : Holds(dir'[p])
    <3>1. CASE ~Holds(dir[o])
      BY <1>4, <2>3, <3>1
    <3>2. CASE dir[o].journal # <<>> /\ Back(o)
      <4>1. main = NoFiles \/ \E p \in Live : p < o /\ Holds(dir[p])
        BY <2>2, <3>2, BackIsSound
      <4>2. \A p \in Live : p < o => p \in Live'
        BY <1>2, <1>4
      <4>3. QED
        BY <1>4, <4>1, <4>2
    <3>3. QED
      BY <2>1, <3>1, <3>2
  <2>5. \A q \in Live' : dir'[q].journal # <<>> =>
          dir'[q].prior = NoFiles \/ \E p \in Live' : p < q /\ Holds(dir'[p])
    BY <1>4, <1>6, <2>1, <2>3
  <2>6. marker' /\ pc' # "running"
    BY <2>3
  <2>7. QED
    BY <1>1, <2>4, <2>5, <2>6 DEF LostOK
<1>8. SoundOK'
  <2>1. /\ Sound(main, marker) \/ \E p \in Live : Stuck(dir[p])
        /\ \A q \in Live : dir[q].journal # <<>> =>
             /\ Sound(dir[q].prior, marker) \/ \E p \in Live : p < q /\ Stuck(dir[p])
             /\ dir[q].prior["db"] = Absent => dir[q].prior = NoFiles
             /\ \A f \in Files : dir[q].prior[f] # "prior" =>
                  main[f] # "prior" /\ \A p \in Live : p >= q => dir[p].quar[f] # "prior"
    BY DEF AtomicInv, SoundOK, Acting
  <2>2. Sound(main, marker) \/ \E p \in Live' : Stuck(dir'[p])
    <3>1. CASE ~Stuck(dir[o])
      BY <1>4, <2>1, <3>1
    <3>2. CASE dir[o].journal # <<>> /\ Back(o)
      <4>1. Sound(main, marker) \/ \E p \in Live : p < o /\ Stuck(dir[p])
        BY <3>2, BackIsSound
      <4>2. \A p \in Live : p < o => p \in Live'
        BY <1>2, <1>4
      <4>3. QED
        BY <1>4, <4>1, <4>2
    <3>3. QED
      BY <3>1, <3>2
  <2>3. \A q \in Live' : dir'[q].journal # <<>> =>
          /\ Sound(dir'[q].prior, marker) \/ \E p \in Live' : p < q /\ Stuck(dir'[p])
          /\ dir'[q].prior["db"] = Absent => dir'[q].prior = NoFiles
          /\ \A f \in Files : dir'[q].prior[f] # "prior" =>
               main[f] # "prior" /\ \A p \in Live' : p >= q => dir'[p].quar[f] # "prior"
    BY <1>4, <1>5, <2>1
  <2>4. QED
    BY <1>1, <2>2, <2>3 DEF SoundOK
<1>9. QED
  BY <1>1, <1>4, <1>7, <1>8

-----------------------------------------------------------------------------
(* Points of the program *)

\* A step to a point at which no restore is in hand.
LEMMA MoreResting ==
  ASSUME pc' \in Resting, pc' = "running" <=> proc'.view # "closed",
         pc' = "boundary" => proc'.reconciled \/ proc'.scanned = {},
         pc' \in {"open", "running", "dialog", "create"} => proc'.reconciled,
         pc' = "scan" => \A o \in Live' \cap proc'.scanned : Stuck(dir'[o])
  PROVE  MorePcOK'
  BY DEF MorePcOK, Resting, Restoring, Undoing

\* A step to a point of a restore or an undo.
LEMMA MoreWorking ==
  ASSUME pc' \in Restoring \cup Undoing, proc'.view = "closed",
         pc' \in Restoring => proc'.reconciled,
         MorePointOK(pc', main', proc', dir'[proc'.op])
  PROVE  MorePcOK'
  BY DEF MorePcOK, Restoring, Undoing

\* A start that ends.
LEMMA MoreEnds ==
  ASSUME NEW how, EndStart(how)
  PROVE  MorePcOK' /\ pc' = "off" /\ proc'.view = "closed" /\ ~Opening'
<1>1. pc' = "off" /\ proc'.view = "closed"
  BY DEF EndStart, IdleProc
<1>2. QED
  BY <1>1, MoreResting DEF Resting, Opening

\* The dialog is offered, or the start ends.
LEMMA MoreOffered ==
  ASSUME NEW p \in Procs, OfferRecovery(p), p.view = "closed", p.reconciled
  PROVE  MorePcOK' /\ pc' \in {"dialog", "off"} /\ proc'.view = "closed" /\ ~Opening'
<1>1. CASE p.attempt < MaxAttempts
  <2>1. pc' = "dialog" /\ proc'.view = "closed" /\ proc'.reconciled
    BY <1>1 DEF OfferRecovery, Procs
  <2>2. QED
    BY <2>1, MoreResting DEF Resting, Opening
<1>2. CASE ~(p.attempt < MaxAttempts)
  <2>1. EndStart("quit")
    BY <1>2 DEF OfferRecovery
  <2>2. QED
    BY <2>1, MoreEnds
<1>3. QED
  BY <1>1, <1>2

\* A start that ends and leaves the disk as it is.
LEMMA EndsAtomic ==
  ASSUME RestoreInv, AtomicInv, NEW how, EndStart(how),
         main' = main, dir' = dir, marker' = marker, owner' = owner
  PROVE  AtomicInv'
<1>1. MorePcOK' /\ pc' = "off" /\ ~Opening'
  BY MoreEnds
<1>2. Live' = Live
  BY DEF Live
<1>3. QED
  BY <1>1, <1>2, Quiet DEF AtomicInv

-----------------------------------------------------------------------------
(* A start *)

\* A start begins at the boundary and has scanned nothing.
LEMMA StartAtomic == RestoreInv /\ AtomicInv /\ Start => AtomicInv'
<1> SUFFICES ASSUME RestoreInv, AtomicInv, Start PROVE AtomicInv'
  OBVIOUS
<1>1. /\ pc' = "boundary" /\ proc' = IdleProc /\ main' = main /\ dir' = dir
      /\ marker' = marker /\ owner' = owner
  BY DEF Start
<1>2. ~proc'.reconciled /\ proc'.scanned = {} /\ proc'.view = "closed"
  BY <1>1 DEF IdleProc
<1>3. Live' = Live /\ ~Opening'
  BY <1>1, <1>2 DEF Live, Opening
<1>4. NoneOK' /\ OwnOK' /\ LostOK' /\ SoundOK'
  BY <1>1, <1>3, Quiet
<1>5. MorePcOK'
  BY <1>1, <1>2, MoreResting DEF Resting
<1>6. QED
  BY <1>4, <1>5 DEF AtomicInv

\* The boundary is passed once before the reconciliation and once after it.
LEMMA PrepareBoundaryAtomic == RestoreInv /\ AtomicInv /\ PrepareBoundary => AtomicInv'
<1> SUFFICES ASSUME RestoreInv, AtomicInv, PrepareBoundary PROVE AtomicInv'
  OBVIOUS
<1>1. /\ pc = "boundary" /\ main' = main /\ dir' = dir /\ marker' = marker /\ owner' = owner
      /\ EndStart("unavailable") \/ Keep(IF proc.reconciled THEN "open" ELSE "scan")
  BY DEF PrepareBoundary, History
<1>2. CASE EndStart("unavailable")
  BY <1>1, <1>2, EndsAtomic
<1>3. CASE Keep(IF proc.reconciled THEN "open" ELSE "scan")
  <2>1. /\ proc' = proc /\ proc.view = "closed" /\ Live' = Live
        /\ pc' = IF proc.reconciled THEN "open" ELSE "scan"
    BY <1>1, <1>3 DEF Keep, Live, AtomicInv, MorePcOK
  <2>2. pc' = "scan" => proc'.scanned = {}
    BY <1>1, <2>1 DEF AtomicInv, MorePcOK
  <2>3. Opening' => Opening
    BY <1>1, <2>1 DEF Opening
  <2>4. NoneOK' /\ OwnOK' /\ LostOK' /\ SoundOK'
    BY <1>1, <2>1, <2>2, <2>3, Quiet
  <2>5. MorePcOK'
    BY <2>1, <2>2, MoreResting DEF Resting
  <2>6. QED
    BY <2>4, <2>5 DEF AtomicInv
<1>4. QED
  BY <1>1, <1>2, <1>3

\* What was discarded is removed.
LEMMA RemoveDiscardedAtomic ==
  ASSUME RestoreInv, AtomicInv, NEW o \in Ops, RemoveDiscarded(o)
  PROVE  AtomicInv'
<1>1. /\ pc = "scan" /\ pc' = "scan" /\ proc' = proc /\ dir[o].state = "discard"
      /\ dir' = [dir EXCEPT ![o].state = "gone"] /\ main' = main /\ marker' = marker
      /\ owner' = owner
  BY DEF RemoveDiscarded, History
<1>2. dir \in [Ops -> RestoreDirs]
  BY DEF RestoreInv, Typed
<1>3. dir'[o].state = "gone" /\ \A p \in Ops : p # o => dir'[p] = dir[p]
  BY <1>1, <1>2 DEF RestoreDirs
<1>4. o \notin Live /\ Live \subseteq Ops
  BY <1>1 DEF Live
<1>5. Live' = Live /\ \A p \in Live : dir'[p] = dir[p]
  BY <1>1, <1>3, <1>4 DEF Live
<1>6. owner # "none"
  BY <1>1 DEF AtomicInv, NoneOK
<1>7. ~Opening' /\ proc.view = "closed" /\ \A p \in Live \cap proc.scanned : Stuck(dir[p])
  BY <1>1 DEF Opening, AtomicInv, MorePcOK
<1>8. NoneOK' /\ OwnOK' /\ LostOK' /\ SoundOK'
  BY <1>1, <1>5, <1>6, <1>7, Quiet
<1>9. MorePcOK'
  BY <1>1, <1>5, <1>7, MoreResting DEF Resting
<1>10. QED
  BY <1>8, <1>9 DEF AtomicInv

\* A directory of the scan is discarded when it is not in the way of anything.
LEMMA DiscardsAtomic ==
  ASSUME RestoreInv, AtomicInv, NEW o \in Live, pc = "scan", pc' = "scan", proc' = proc,
         Discard(o), main' = main, marker' = marker,
         owner' = owner \/ (owner \in {"old", "lost"} /\ owner' = "new"),
         Acting => ~Stuck(dir[o]) /\ (~Holds(dir[o]) \/ owner' = "new"),
         owner = "own" => ~Sealed(dir[o])
  PROVE  AtomicInv'
<1> DEFINE e == [dir[o] EXCEPT !.state = "discard"]
<1>1. o \in Ops /\ Live \subseteq Ops /\ dir \in [Ops -> RestoreDirs]
  BY DEF Live, RestoreInv, Typed
<1>2. dir' = [dir EXCEPT ![o] = e] /\ e.state = "discard"
  BY <1>1 DEF Discard, RestoreDirs
<1>3. Live' = Live \ {o} /\ \A p \in Live' : dir'[p] = dir[p]
  BY <1>1, <1>2 DEF Live
<1> HIDE DEF e
<1>4. owner # "none"
  BY DEF Live, AtomicInv, NoneOK
<1>5. NoneOK' /\ OwnOK' /\ LostOK' /\ SoundOK'
  <2>1. CASE Acting
    BY <1>2, <2>1, Leaves
  <2>2. CASE owner = "own"
    <3>1. PICK w \in Live : Sealed(dir[w]) /\ w \notin proc.scanned
      BY <2>2 DEF AtomicInv, OwnOK
    <3>2. w \in Live' /\ dir'[w] = dir[w]
      BY <1>3, <2>2, <3>1
    <3>3. owner' = "own" /\ main'["db"] = "own"
      BY <2>2 DEF AtomicInv, OwnOK
    <3>4. OwnOK'
      BY <3>1, <3>2, <3>3 DEF OwnOK
    <3>5. QED
      BY <3>3, <3>4 DEF NoneOK, LostOK, SoundOK
  <2>3. owner \in {"none", "lost", "old", "new", "own"}
    BY DEF RestoreInv, Typed
  <2>4. QED
    BY <1>4, <2>1, <2>2, <2>3 DEF Acting
<1>6. MorePcOK'
  <2>1. proc.view = "closed" /\ \A p \in Live \cap proc.scanned : Stuck(dir[p])
    BY DEF AtomicInv, MorePcOK
  <2>2. QED
    BY <1>3, <2>1, MoreResting DEF Resting
<1>7. QED
  BY <1>5, <1>6 DEF AtomicInv

\* The scan discards a directory, notes it as pending, or refuses.
LEMMA ScanDirectoryAtomic ==
  ASSUME RestoreInv, AtomicInv, NEW o \in Ops, ScanDirectory(o)
  PROVE  AtomicInv'
<1> DEFINE d == dir[o]
           terminal == LastPhase(d) \in TerminalPhases
<1>1. /\ pc = "scan" /\ o \in Live /\ o \notin proc.scanned
      /\ main' = main /\ marker' = marker
      /\ owner' = IF /\ dir'[o].state = "discard" /\ d.tail # "nofile"
                     /\ LastPhase(d) = "completed" /\ owner \in {"old", "lost"}
                  THEN "new" ELSE owner
  BY DEF ScanDirectory
<1>2. /\ d \in RestoreDirs /\ dirOK(d) /\ d.state = "live" /\ proc \in Procs
      /\ dir \in [Ops -> RestoreDirs]
  BY <1>1 DEF RestoreInv, Typed, DirsOK, Live
<1>3. owner # "none"
  BY <1>1 DEF Live, AtomicInv, NoneOK
<1>4. CASE d.tail = "nofile"
  <2>1. Discard(o) /\ pc' = "scan" /\ proc' = proc
    BY <1>4 DEF ScanDirectory, Keep
  <2>2. d.journal = <<>>
    BY <1>2, <1>4 DEF dirOK
  <2>3. ~Stuck(d) /\ ~Holds(d)
    BY <2>2, EmptyFree
  <2>4. ~Sealed(d)
    BY <1>4 DEF Sealed
  <2>5. owner' = owner
    BY <1>1, <1>4
  <2>6. QED
    BY <1>1, <2>1, <2>3, <2>4, <2>5, DiscardsAtomic
<1>5. CASE d.tail # "nofile" /\ (~ParsesJournal(d) \/ (terminal /\ ~TerminalStateHolds(d)))
  <2>1. EndStart("unavailable") /\ dir' = dir
    BY <1>5 DEF ScanDirectory
  <2>2. owner' = owner
    BY <1>1, <1>2, <2>1
  <2>3. QED
    BY <1>1, <2>1, <2>2, EndsAtomic
<1>6. CASE d.tail # "nofile" /\ ParsesJournal(d) /\ terminal /\ TerminalStateHolds(d)
  <2>1. Discard(o) /\ pc' = "scan" /\ proc' = proc
    BY <1>6 DEF ScanDirectory, Keep
  <2>2. ~Stuck(d)
    BY <1>6 DEF Stuck
  <2>3. dir'[o].state = "discard"
    BY <1>2, <2>1 DEF Discard, RestoreDirs
  <2>4. Acting => ~Holds(d) \/ owner' = "new"
    BY <1>1, <1>6, <2>2, <2>3 DEF Acting, Holds
  <2>5. owner = "own" => ~Sealed(d)
    <3>1. SUFFICES ASSUME owner = "own", Sealed(d) PROVE FALSE
      OBVIOUS
    <3>2. LastPhase(d) = "completed" /\ d.installed["db"] = "audited"
      BY <1>6, <3>1 DEF Sealed
    <3>3. main = d.installed /\ main["db"] = "own"
      BY <1>6, <3>1, <3>2 DEF TerminalStateHolds, AtomicInv, OwnOK
    <3>4. QED
      BY <3>2, <3>3
  <2>6. owner' = owner \/ (owner \in {"old", "lost"} /\ owner' = "new")
    BY <1>1
  <2>7. QED
    BY <1>1, <2>1, <2>2, <2>4, <2>5, <2>6, DiscardsAtomic
<1>7. CASE d.tail # "nofile" /\ ParsesJournal(d) /\ ~terminal
  <2>1. /\ proc' = [proc EXCEPT !.scanned = @ \cup {o}] /\ dir' = dir /\ pc' = "scan"
    BY <1>1, <1>7 DEF ScanDirectory
  <2>2. /\ proc'.scanned = proc.scanned \cup {o} /\ proc'.view = proc.view
    BY <1>2, <2>1 DEF Procs
  <2>3. Stuck(d) /\ ~Sealed(d)
    BY <1>7 DEF Stuck, Sealed, ParsesJournal, TerminalPhases
  <2>4. /\ owner' = owner /\ Live' = Live /\ ~Opening'
    BY <1>1, <1>2, <2>1 DEF Live, Opening
  <2>5. \A w \in Live : Sealed(dir[w]) /\ w \in proc'.scanned => w \in proc.scanned
    BY <2>2, <2>3
  <2>6. NoneOK' /\ OwnOK' /\ LostOK' /\ SoundOK'
    BY <1>1, <1>3, <2>1, <2>4, <2>5, Quiet
  <2>7. proc.view = "closed" /\ \A p \in Live \cap proc.scanned : Stuck(dir[p])
    BY <1>1 DEF AtomicInv, MorePcOK
  <2>8. MorePcOK'
    BY <2>1, <2>2, <2>3, <2>4, <2>7, MoreResting DEF Resting
  <2>9. QED
    BY <2>6, <2>8 DEF AtomicInv
<1>8. QED
  BY <1>4, <1>5, <1>6, <1>7

\* The scan ends with one restore to undo, with none, or with too many.
LEMMA ScanEndsAtomic == RestoreInv /\ AtomicInv /\ ScanEnds => AtomicInv'
<1> SUFFICES ASSUME RestoreInv, AtomicInv, ScanEnds PROVE AtomicInv'
  OBVIOUS
<1>1. /\ pc = "scan" /\ Live \subseteq proc.scanned /\ main' = main /\ dir' = dir
      /\ marker' = marker /\ owner' = owner
  BY DEF ScanEnds, History
<1>2. proc \in Procs /\ proc.view = "closed" /\ \A p \in Live \cap proc.scanned : Stuck(dir[p])
  BY <1>1 DEF RestoreInv, Typed, AtomicInv, MorePcOK
<1>3. Live' = Live
  BY <1>1 DEF Live
<1>4. CASE EndStart("unavailable")
  BY <1>1, <1>4, EndsAtomic
<1>5. CASE /\ Live = {} /\ pc' = "boundary" /\ proc' = [proc EXCEPT !.reconciled = TRUE]
  <2>1. proc'.reconciled /\ proc'.view = "closed"
    BY <1>2, <1>5 DEF Procs
  <2>2. NoneOK' /\ OwnOK' /\ LostOK' /\ SoundOK'
    BY <1>1, <1>3, <1>5, Quiet
  <2>3. MorePcOK'
    BY <1>5, <2>1, MoreResting DEF Resting
  <2>4. QED
    BY <2>2, <2>3 DEF AtomicInv
<1>6. ASSUME NEW o \in Live, Live = {o}, pc' = "undo-record",
             proc' = [proc EXCEPT !.op = o, !.phase = LastPhase(dir[o])]
      PROVE  AtomicInv'
  <2>1. proc'.op = o /\ proc'.view = "closed"
    BY <1>2, <1>6 DEF Procs
  <2>2. Stuck(dir[o])
    BY <1>1, <1>2
  <2>3. owner # "none" /\ owner # "own"
    BY <1>1, <1>6 DEF AtomicInv, NoneOK, OwnOK, Live
  <2>4. ~Opening'
    BY <1>6 DEF Opening
  <2>5. NoneOK' /\ OwnOK' /\ LostOK' /\ SoundOK'
    BY <1>1, <1>3, <1>6, <2>3, <2>4, Quiet
  <2>6. MorePointOK(pc', main', proc', dir'[o])
    BY <1>1, <1>6, <2>2 DEF MorePointOK
  <2>7. MorePcOK'
    BY <1>6, <2>1, <2>6, MoreWorking DEF Restoring, Undoing
  <2>8. QED
    BY <2>5, <2>7 DEF AtomicInv
<1>7. QED
  BY <1>4, <1>5, <1>6 DEF ScanEnds

\* The user chooses a backup, or not.
LEMMA ChooseBackupAtomic == RestoreInv /\ AtomicInv /\ ChooseBackup => AtomicInv'
<1> SUFFICES ASSUME RestoreInv, AtomicInv, ChooseBackup PROVE AtomicInv'
  OBVIOUS
<1>1. /\ pc = "dialog" /\ main' = main /\ dir' = dir /\ marker' = marker /\ owner' = owner
  BY DEF ChooseBackup, History
<1>2. /\ proc \in Procs /\ proc.view = "closed" /\ proc.reconciled /\ Acting
      /\ proc.attempt < MaxAttempts
  BY <1>1, ActingOwner DEF RestoreInv, Typed, AtomicInv, MorePcOK
<1>3. Live' = Live
  BY <1>1 DEF Live
<1> DEFINE p == [proc EXCEPT !.attempt = @ + 1]
<1>4. p \in Procs /\ p.view = "closed" /\ p.reconciled
  BY <1>2, RestoreAssumption DEF Procs
<1>5. CASE EndStart("quit")
  BY <1>1, <1>5, EndsAtomic
<1>6. CASE OfferRecovery(p) \/ (pc' = "create" /\ proc' = p)
  <2>1. MorePcOK' /\ pc' \in {"dialog", "off", "create"} /\ ~Opening'
    <3>1. CASE OfferRecovery(p)
      BY <1>4, <3>1, MoreOffered
    <3>2. CASE pc' = "create" /\ proc' = p
      BY <1>4, <3>2, MoreResting DEF Resting, Opening
    <3>3. QED
      BY <1>6, <3>1, <3>2
  <2>2. NoneOK' /\ OwnOK' /\ LostOK' /\ SoundOK'
    BY <1>1, <1>2, <1>3, <2>1, Quiet DEF Acting
  <2>3. QED
    BY <2>1, <2>2 DEF AtomicInv
<1>7. QED
  BY <1>5, <1>6 DEF ChooseBackup

-----------------------------------------------------------------------------
(* Steps of a restore and of its undo *)

\* A step of a restore keeps the invariant when the restore is stuck afterwards, or moves
\* nothing and is as stuck as before, or has put everything back.
LEMMA Worked ==
  ASSUME RestoreInv, AtomicInv, pc \in Restoring \cup Undoing, owner' = owner, marker' = marker,
         NEW e, dir' = [dir EXCEPT ![proc.op] = e], e.state = "live",
         e.prior = dir[proc.op].prior, e.journal = <<>> <=> dir[proc.op].journal = <<>>,
         \A f \in Files : main'[f] = "prior" \/ e.quar[f] = "prior" =>
           main[f] = "prior" \/ dir[proc.op].quar[f] = "prior",
         \/ Stuck(e)
         \/ main' = main /\ (Stuck(dir[proc.op]) => Stuck(e)) /\ (Holds(dir[proc.op]) => Holds(e))
         \/ main' = main /\ dir[proc.op].journal # <<>> /\ Back(proc.op),
         pc' \notin {"open", "running", "boundary"}, MorePcOK'
  PROVE  AtomicInv'
<1> DEFINE o == proc.op
<1>1. Acting /\ o \in Live /\ \A p \in Live : p <= o
  BY WorkingOp
<1>2. ~Opening'
  BY DEF Opening
<1>3. \/ Sound(main', marker)
      \/ Stuck(e)
      \/ \E p \in Live : p < o /\ Stuck(dir[p])
      \/ main' = main /\ (Stuck(dir[o]) => Stuck(e))
  BY <1>1, BackIsSound
<1>4. owner' = "lost" => \/ main' = NoFiles
                         \/ Holds(e)
                         \/ \E p \in Live : p < o /\ Holds(dir[p])
                         \/ main' = main /\ (Holds(dir[o]) => Holds(e))
  <2>1. Stuck(e) => Holds(e)
    BY DEF Holds
  <2>2. QED
    BY <1>1, <2>1, BackIsSound
<1>5. /\ dir' = [dir EXCEPT ![o] = e] /\ e.prior = dir[o].prior
      /\ e.journal = <<>> <=> dir[o].journal = <<>>
      /\ \A f \in Files : main'[f] = "prior" \/ e.quar[f] = "prior" =>
           main[f] = "prior" \/ dir[o].quar[f] = "prior"
  OBVIOUS
<1>6. /\ owner' = owner \/ owner' = "new"
      /\ Opening' => owner' = "new" /\ Sound(main', marker) /\ Sealed(e)
      /\ pc' # "running"
  BY <1>2
<1> HIDE DEF o
<1>7. NoneOK' /\ OwnOK' /\ LostOK' /\ SoundOK' /\ Live' = Live /\ dir'[o] = e
  BY <1>1, <1>3, <1>4, <1>5, <1>6, Works, Zenon
<1>8. QED
  BY <1>7 DEF AtomicInv

\* The same for a step to another point of the restore.
LEMMA WorksOn ==
  ASSUME RestoreInv, AtomicInv, pc \in Restoring \cup Undoing, owner' = owner, marker' = marker,
         pc' \in Restoring \cup Undoing, pc' \in Restoring => pc \in Restoring,
         proc'.op = proc.op, proc'.view = proc.view, proc'.reconciled = proc.reconciled,
         NEW e, dir' = [dir EXCEPT ![proc.op] = e], e.state = "live",
         e.prior = dir[proc.op].prior, e.journal = <<>> <=> dir[proc.op].journal = <<>>,
         \A f \in Files : main'[f] = "prior" \/ e.quar[f] = "prior" =>
           main[f] = "prior" \/ dir[proc.op].quar[f] = "prior",
         \/ Stuck(e)
         \/ main' = main /\ (Stuck(dir[proc.op]) => Stuck(e)) /\ (Holds(dir[proc.op]) => Holds(e))
         \/ main' = main /\ dir[proc.op].journal # <<>> /\ Back(proc.op),
         MorePointOK(pc', main', proc', e)
  PROVE  AtomicInv'
<1>1. proc.view = "closed" /\ proc.op \in Ops
  BY WorkingOp
<1>2. pc' \in Restoring => proc'.reconciled
  BY DEF AtomicInv, MorePcOK
<1>3. dir'[proc'.op] = e
  BY <1>1 DEF RestoreInv, Typed
<1>4. MorePcOK'
  BY <1>1, <1>2, <1>3, MoreWorking
<1>5. pc' \notin {"open", "running", "boundary"}
  BY DEF Restoring, Undoing
<1>6. QED
  BY <1>4, <1>5, Worked

\* A step of a restore that leaves the disk as it is.
LEMMA Waits ==
  ASSUME RestoreInv, AtomicInv, pc \in Restoring \cup Undoing, owner' = owner, marker' = marker,
         pc' \in Restoring \cup Undoing, pc' \in Restoring => pc \in Restoring,
         proc'.op = proc.op, proc'.view = proc.view, proc'.reconciled = proc.reconciled,
         main' = main, dir' = dir, MorePointOK(pc', main', proc', dir[proc.op])
  PROVE  AtomicInv'
<1> DEFINE e == dir[proc.op]
<1>1. e.state = "live" /\ dir' = [dir EXCEPT ![proc.op] = e]
  BY WorkingOp DEF RestoreInv, Typed
<1>2. QED
  BY <1>1, WorksOn

\* Appends change nothing but the journal and its end.
LEMMA AppendsSame ==
  ASSUME NEW d \in RestoreDirs, NEW ph \in Phases, d.journal # <<>>, NEW e \in FailedAppends(d, ph)
  PROVE  e.state = d.state /\ e.prior = d.prior /\ e.quar = d.quar /\ e.journal # <<>>
  BY AppendedDir, TornDir DEF FailedAppends

\* A record that lets go of nothing is appended, or the append fails.
LEMMA RecordAtomic ==
  ASSUME RestoreInv, AtomicInv, pc \in Restoring, dir[proc.op].journal # <<>>,
         NEW ph \in Phases \ TerminalPhases, NEW next, Record(ph, next, Here),
         main' = main, marker' = marker, owner' = owner,
         next => /\ pc' \in Restoring \ {"validating", "complete", "rb-discard"}
                 /\ proc'.op = proc.op /\ proc'.view = proc.view
                 /\ proc'.reconciled = proc.reconciled
  PROVE  AtomicInv'
<1> DEFINE d == dir[proc.op]
           a == Appended(d, ph)
<1>1. d \in RestoreDirs /\ d.state = "live" /\ pc \in Restoring \cup Undoing
  BY WorkingOp
<1>2. \A e \in FailedAppends(d, ph) : /\ e.state = "live" /\ e.prior = d.prior
                                      /\ e.quar = d.quar /\ e.journal # <<>>
  BY <1>1, AppendsSame
<1>3. CASE dir' = [dir EXCEPT ![proc.op] = a] /\ next
  <2>1. a \in FailedAppends(d, ph) /\ Stuck(a)
    BY <1>1, AppendedStuck DEF FailedAppends
  <2>2. pc' \in Restoring \cup Undoing
    BY <1>3
  <2>3. MorePointOK(pc', main', proc', a)
    BY <1>3, <2>1 DEF MorePointOK, Restoring
  <2> HIDE DEF a
  <2>4. QED
    BY <1>1, <1>2, <1>3, <2>1, <2>2, <2>3, WorksOn
<1>4. ASSUME Keep("rb-record"), NEW e \in FailedAppends(d, ph), dir' = [dir EXCEPT ![proc.op] = e]
      PROVE  AtomicInv'
  <2>1. (Stuck(d) => Stuck(e)) /\ (Holds(d) => Holds(e))
    BY <1>1, FailedStuck
  <2>2. pc' = "rb-record" /\ proc' = proc
    BY <1>4 DEF Keep
  <2>3. MorePointOK(pc', main', proc', e) /\ pc' \in Restoring \cup Undoing
    BY <2>2 DEF MorePointOK, StuckPoints, Restoring
  <2>4. QED
    BY <1>1, <1>2, <1>4, <2>1, <2>2, <2>3, WorksOn
<1>5. QED
  BY <1>3, <1>4 DEF Record, Here

-----------------------------------------------------------------------------
(* The undo of an interrupted restore *)

\* A stuck restore is undone.
LEMMA StuckNow ==
  ASSUME AtomicInv, pc \in StuckPoints
  PROVE  Stuck(dir[proc.op])
  BY DEF AtomicInv, MorePcOK, MorePointOK, StuckPoints, Restoring, Undoing

\* The undo is on record before it begins.
LEMMA UndoRecordAtomic == RestoreInv /\ AtomicInv /\ UndoRecord => AtomicInv'
<1> SUFFICES ASSUME RestoreInv, AtomicInv, UndoRecord PROVE AtomicInv'
  OBVIOUS
<1> DEFINE d == dir[proc.op]
           a == Appended(d, "rolling-back")
           td == IF proc.phase = "quarantining" THEN {} ELSE Files
<1>1. /\ pc = "undo-record" /\ pc' = "undo-preserve" /\ main' = main /\ marker' = marker
      /\ owner' = owner /\ proc' = [proc EXCEPT !.todo = td]
      /\ dir' = dir \/ dir' = [dir EXCEPT ![proc.op] = a]
  BY DEF UndoRecord, History
<1>2. /\ pc \in Undoing /\ pc' \in Undoing /\ pc' \notin Restoring /\ Stuck(d)
  BY <1>1, StuckNow DEF Undoing, Restoring, StuckPoints
<1>3. d \in RestoreDirs /\ d.state = "live" /\ proc \in Procs /\ d.journal # <<>>
  BY <1>2, UndoingOp
<1>4. proc'.op = proc.op /\ proc'.view = proc.view /\ proc'.reconciled = proc.reconciled
  BY <1>1, <1>3 DEF Procs
<1>5. ASSUME NEW e, Stuck(e) PROVE MorePointOK(pc', main', proc', e)
  BY <1>1, <1>5 DEF MorePointOK
<1>6. CASE dir' = dir
  BY <1>1, <1>2, <1>4, <1>5, <1>6, Waits
<1>7. CASE dir' = [dir EXCEPT ![proc.op] = a]
  <2>1. /\ Stuck(a) /\ a.state = "live" /\ a.prior = d.prior /\ a.quar = d.quar
        /\ a.journal # <<>>
    BY <1>3, AppendedStuck, AppendedDir DEF Phases, TerminalPhases
  <2> HIDE DEF a
  <2>2. QED
    BY <1>1, <1>2, <1>3, <1>4, <1>5, <1>7, <2>1, WorksOn
<1>8. QED
  BY <1>1, <1>6, <1>7

\* What is taken out of the way becomes part of the directory.
LEMMA IntoFailed ==
  ASSUME RestoreInv, NEW o \in Ops, NEW f \in Files, IntoDir(o, "failed", f)
  PROVE  /\ main' = [main EXCEPT ![f] = Absent]
         /\ \E e : /\ dir' = [dir EXCEPT ![o] = e] /\ e.state = dir[o].state
                   /\ e.prior = dir[o].prior /\ e.quar = dir[o].quar /\ e.journal = dir[o].journal
<1> DEFINE d == dir[o]
           e == [d EXCEPT !["failed"] = [d["failed"] EXCEPT ![f] = main[f]]]
<1>1. d \in RestoreDirs
  BY DEF RestoreInv, Typed
<1>2. main' = [main EXCEPT ![f] = Absent] /\ dir' = [dir EXCEPT ![o] = e]
  BY DEF IntoDir
<1>3. e.state = d.state /\ e.prior = d.prior /\ e.quar = d.quar /\ e.journal = d.journal
  BY <1>1 DEF RestoreDirs
<1>4. QED
  BY <1>2, <1>3

\* What is moved aside becomes part of the quarantine.
LEMMA IntoQuarantine ==
  ASSUME RestoreInv, NEW o \in Ops, NEW f \in Files, IntoDir(o, "quar", f)
  PROVE  /\ main' = [main EXCEPT ![f] = Absent]
         /\ \E e : /\ dir' = [dir EXCEPT ![o] = e] /\ e.state = dir[o].state
                   /\ e.prior = dir[o].prior /\ e.journal = dir[o].journal
                   /\ e.quar = [dir[o].quar EXCEPT ![f] = main[f]]
<1> DEFINE d == dir[o]
           e == [d EXCEPT !["quar"] = [d["quar"] EXCEPT ![f] = main[f]]]
<1>1. d \in RestoreDirs
  BY DEF RestoreInv, Typed
<1>2. main' = [main EXCEPT ![f] = Absent] /\ dir' = [dir EXCEPT ![o] = e]
  BY DEF IntoDir
<1>3. /\ e.state = d.state /\ e.prior = d.prior /\ e.quar = [d.quar EXCEPT ![f] = main[f]]
      /\ e.journal = d.journal
  BY <1>1 DEF RestoreDirs
<1>4. QED
  BY <1>2, <1>3

\* A file that is away is not the old one.
LEMMA MovedAway ==
  ASSUME NEW m \in [Files -> Bytes], NEW f \in Files, NEW g \in Files,
         [m EXCEPT ![f] = Absent][g] = "prior"
  PROVE  m[g] = "prior"
  BY DEF Absent

\* The undo takes what the restore had installed out of the way, or is refused.
LEMMA UndoPreserveAtomic == RestoreInv /\ AtomicInv /\ UndoPreserve => AtomicInv'
<1> SUFFICES ASSUME RestoreInv, AtomicInv, UndoPreserve PROVE AtomicInv'
  OBVIOUS
<1> DEFINE o == proc.op
           d == dir[o]
           f == PrimaryFirst(proc.todo)
<1>1. pc = "undo-preserve" /\ proc.todo # {} /\ marker' = marker /\ owner' = owner
  BY DEF UndoPreserve, History
<1>2. pc \in Undoing /\ pc \in Restoring \cup Undoing /\ pc \notin Restoring /\ Stuck(d)
  BY <1>1, StuckNow DEF Undoing, Restoring, StuckPoints
<1>3. /\ o \in Ops /\ d.state = "live" /\ proc \in Procs /\ proc.todo \subseteq Files
      /\ d.journal # <<>> /\ main \in [Files -> Bytes]
  BY <1>2, UndoingOp DEF RestoreInv, Typed
<1>4. f \in Files
  BY <1>1, <1>3, NextFile
<1>5. \/ EndStart("unavailable") /\ main' = main /\ dir' = dir
      \/ Next1(proc) /\ main' = main /\ dir' = dir /\ pc' = pc
      \/ IntoDir(o, "failed", f) /\ Next1(proc) /\ pc' = pc
  BY DEF UndoPreserve
<1>6. CASE EndStart("unavailable") /\ main' = main /\ dir' = dir
  BY <1>1, <1>6, EndsAtomic
<1>7. ASSUME Next1(proc), pc' = pc, NEW e, Stuck(e)
      PROVE  /\ MorePointOK(pc', main', proc', e)
             /\ proc'.op = proc.op /\ proc'.view = proc.view
             /\ proc'.reconciled = proc.reconciled
  BY <1>1, <1>3, <1>7 DEF MorePointOK, Next1, Procs
<1>8. CASE Next1(proc) /\ main' = main /\ dir' = dir /\ pc' = pc
  BY <1>1, <1>2, <1>7, <1>8, Waits
<1>9. CASE IntoDir(o, "failed", f) /\ Next1(proc) /\ pc' = pc
  <2> HIDE DEF f
  <2>1. PICK e : /\ dir' = [dir EXCEPT ![o] = e] /\ e.state = d.state
                 /\ e.prior = d.prior /\ e.quar = d.quar /\ e.journal = d.journal
    BY <1>3, <1>4, <1>9, IntoFailed
  <2>2. main' = [main EXCEPT ![f] = Absent]
    BY <1>3, <1>4, <1>9, IntoFailed
  <2>3. Stuck(e)
    BY <1>2, <2>1, SameJournal
  <2>4. \A g \in Files : main'[g] = "prior" => main[g] = "prior"
    BY <1>3, <1>4, <2>2, MovedAway
  <2>5. QED
    BY <1>1, <1>2, <1>3, <1>7, <1>9, <2>1, <2>3, <2>4, WorksOn
<1>10. QED
  BY <1>5, <1>6, <1>8, <1>9

\* The prior files are next.
LEMMA UndoPreservedAtomic == RestoreInv /\ AtomicInv /\ UndoPreserved => AtomicInv'
<1> SUFFICES ASSUME RestoreInv, AtomicInv, UndoPreserved PROVE AtomicInv'
  OBVIOUS
<1> DEFINE d == dir[proc.op]
<1>1. /\ pc = "undo-preserve" /\ pc' = "undo-restore" /\ main' = main /\ dir' = dir
      /\ marker' = marker /\ owner' = owner /\ proc' = [proc EXCEPT !.todo = Present(d.prior)]
  BY DEF UndoPreserved, History
<1>2. /\ pc \in Restoring \cup Undoing /\ pc' \in Restoring \cup Undoing /\ pc' \notin Restoring
      /\ Stuck(d)
  BY <1>1, StuckNow DEF Undoing, Restoring, StuckPoints
<1>3. proc \in Procs
  BY <1>2, WorkingOp
<1>4. /\ proc'.op = proc.op /\ proc'.view = proc.view /\ proc'.reconciled = proc.reconciled
      /\ proc'.todo = Present(d.prior)
  BY <1>1, <1>3 DEF Procs
<1>5. MorePointOK(pc', main', proc', d)
  BY <1>1, <1>2, <1>4 DEF MorePointOK
<1>6. QED
  BY <1>1, <1>2, <1>4, <1>5, Waits

\* A prior file is put back, or is back already, or the undo is refused.
LEMMA UndoRestoreAtomic == RestoreInv /\ AtomicInv /\ UndoRestore => AtomicInv'
<1> SUFFICES ASSUME RestoreInv, AtomicInv, UndoRestore PROVE AtomicInv'
  OBVIOUS
<1> DEFINE o == proc.op
           d == dir[o]
           f == PrimaryFirst(proc.todo)
<1>1. pc = "undo-restore" /\ proc.todo # {} /\ marker' = marker /\ owner' = owner
  BY DEF UndoRestore, History
<1>2. pc \in Undoing /\ pc \in Restoring \cup Undoing /\ pc \notin Restoring /\ Stuck(d)
  BY <1>1, StuckNow DEF Undoing, Restoring, StuckPoints
<1>3. /\ o \in Live /\ d.state = "live" /\ proc \in Procs /\ proc.todo \subseteq Files
      /\ d.journal # <<>> /\ main \in [Files -> Bytes] /\ d.quar \in [Files -> Bytes]
  BY <1>2, WorkingOp, UndoingOp
<1>4. f \in Files
  BY <1>1, <1>3, NextFile
<1>5. \/ EndStart("unavailable") /\ main' = main /\ dir' = dir
      \/ /\ d.quar[f] = d.prior[f] /\ main[f] = Absent /\ BackToMain(o, f)
         /\ Next1(proc) /\ pc' = pc
      \/ /\ main[f] = d.prior[f] /\ Next1(proc) /\ main' = main /\ dir' = dir /\ pc' = pc
  BY DEF UndoRestore
<1>6. \A g \in Present(d.prior) \ proc.todo : main[g] = d.prior[g]
  BY <1>1 DEF AtomicInv, MorePcOK, MorePointOK, Undoing
<1>7. CASE EndStart("unavailable") /\ main' = main /\ dir' = dir
  BY <1>1, <1>7, EndsAtomic
<1>8. ASSUME Next1(proc)
      PROVE  /\ proc'.op = proc.op /\ proc'.view = proc.view
             /\ proc'.reconciled = proc.reconciled /\ proc'.todo = proc.todo \ {f}
  BY <1>3, <1>8 DEF Next1, Procs
<1>9. CASE main[f] = d.prior[f] /\ Next1(proc) /\ main' = main /\ dir' = dir /\ pc' = pc
  <2> HIDE DEF f
  <2>1. MorePointOK(pc', main', proc', d)
    BY <1>1, <1>2, <1>6, <1>8, <1>9 DEF MorePointOK
  <2>2. QED
    BY <1>1, <1>2, <1>8, <1>9, <2>1, Waits
<1>10. CASE /\ d.quar[f] = d.prior[f] /\ main[f] = Absent /\ BackToMain(o, f)
            /\ Next1(proc) /\ pc' = pc
  <2> HIDE DEF f
  <2>1. PICK e \in RestoreDirs :
           /\ dirOK(e) /\ e.state = "live" /\ e.prior = dir[o].prior /\ e.journal = dir[o].journal
           /\ e.quar = [dir[o].quar EXCEPT ![f] = Absent]
           /\ dir' = [dir EXCEPT ![o] = e]
           /\ main' \in [Files -> Bytes] /\ main' = [main EXCEPT ![f] = dir[o].quar[f]]
           /\ \A g \in Files : main[g] = "prior" \/ dir[o].quar[g] = "prior" =>
                main'[g] = "prior" \/ e.quar[g] = "prior"
    BY <1>3, <1>4, <1>10, BackDir
  <2>2. main'[f] = d.prior[f] /\ \A g \in Files : g # f => main'[g] = main[g]
    BY <1>3, <1>4, <1>10, <2>1
  <2>3. Stuck(e)
    BY <1>2, <2>1, SameJournal
  <2>4. \A g \in Files : main'[g] = "prior" \/ e.quar[g] = "prior" =>
          main[g] = "prior" \/ d.quar[g] = "prior"
    BY <1>3, <1>4, <1>10, <2>1, <2>2 DEF Absent
  <2>5. MorePointOK(pc', main', proc', e)
    <3>1. \A g \in Present(e.prior) \ proc'.todo : main'[g] = e.prior[g]
      BY <1>4, <1>6, <1>8, <1>10, <2>1, <2>2 DEF Present
    <3>2. QED
      BY <1>1, <1>10, <2>3, <3>1 DEF MorePointOK
  <2>6. QED
    BY <1>1, <1>2, <1>3, <1>8, <1>10, <2>1, <2>3, <2>4, <2>5, WorksOn
<1>11. QED
  BY <1>5, <1>7, <1>9, <1>10

\* The undo is over when the prior files are back and nothing else is there.
LEMMA UndoFinishAtomic == RestoreInv /\ AtomicInv /\ UndoFinish => AtomicInv'
<1> SUFFICES ASSUME RestoreInv, AtomicInv, UndoFinish PROVE AtomicInv'
  OBVIOUS
<1> DEFINE o == proc.op
           d == dir[o]
           a == Appended(d, "rolled-back")
<1>1. /\ pc = "undo-restore" /\ proc.todo = {} /\ main' = main /\ marker' = marker
      /\ owner' = owner
  BY DEF UndoFinish, History
<1>2. /\ pc \in Undoing /\ pc \in Restoring \cup Undoing
  BY <1>1 DEF Undoing
<1>3. d \in RestoreDirs /\ d.state = "live" /\ d.journal # <<>> /\ o \in Live
  BY <1>2, WorkingOp, UndoingOp
<1>4. \A g \in Present(d.prior) : main[g] = d.prior[g]
  BY <1>1 DEF AtomicInv, MorePcOK, MorePointOK, Undoing
<1>5. CASE EndStart("unavailable") /\ dir' = dir
  BY <1>1, <1>5, EndsAtomic
<1>6. CASE /\ d.prior = NoFiles => main = NoFiles
           /\ dir' = [dir EXCEPT ![o] = a] /\ Keep("undo-discard")
  <2>1. Back(o)
    BY <1>4, <1>6 DEF Back
  <2>2. a.state = "live" /\ a.prior = d.prior /\ a.quar = d.quar /\ a.journal # <<>>
    BY <1>3, AppendedDir DEF Phases
  <2>3. pc' = "undo-discard" /\ proc' = proc
    BY <1>6 DEF Keep
  <2>4. pc' \in Restoring \cup Undoing /\ pc' \notin Restoring
    BY <2>3 DEF Restoring, Undoing
  <2>5. MorePointOK(pc', main', proc', a)
    BY <1>1, <1>4, <1>6, <2>2, <2>3 DEF MorePointOK, StuckPoints
  <2> HIDE DEF a
  <2>6. QED
    BY <1>1, <1>2, <1>3, <1>6, <2>1, <2>2, <2>3, <2>4, <2>5, WorksOn
<1>7. QED
  BY <1>5, <1>6 DEF UndoFinish

\* What was undone is discarded.
LEMMA UndoDiscardAtomic == RestoreInv /\ AtomicInv /\ UndoDiscard => AtomicInv'
<1> SUFFICES ASSUME RestoreInv, AtomicInv, UndoDiscard PROVE AtomicInv'
  OBVIOUS
<1> DEFINE o == proc.op
           d == dir[o]
           e == [d EXCEPT !.state = "discard"]
<1>1. /\ pc = "undo-discard" /\ pc' = "scan" /\ proc' = proc /\ main' = main /\ marker' = marker
      /\ owner' = owner /\ Discard(o)
  BY DEF UndoDiscard, Keep, History
<1>2. pc \in Undoing /\ pc \in Restoring \cup Undoing
  BY <1>1 DEF Undoing
<1>3. /\ d \in RestoreDirs /\ d.journal # <<>> /\ o \in Live /\ Live = {o} /\ Acting
      /\ proc.view = "closed" /\ (\A p \in Live : p <= o) /\ dir \in [Ops -> RestoreDirs]
  BY <1>2, WorkingOp, UndoingOp DEF RestoreInv, Typed
<1>4. Back(o)
  BY <1>1 DEF AtomicInv, MorePcOK, MorePointOK, Undoing, Back
<1>5. dir' = [dir EXCEPT ![o] = e] /\ e.state = "discard"
  BY <1>1, <1>3 DEF Discard, RestoreDirs
<1> HIDE DEF e, o
<1>6. NoneOK' /\ OwnOK' /\ LostOK' /\ SoundOK' /\ Live' = {}
  BY <1>1, <1>3, <1>4, <1>5, Leaves
<1>7. MorePcOK'
  BY <1>1, <1>3, <1>6, MoreResting DEF Resting
<1>8. QED
  BY <1>6, <1>7 DEF AtomicInv

-----------------------------------------------------------------------------
(* A restore, forwards *)

\* The dialog can be offered again.
LEMMA OffersAgain ==
  ASSUME RestoreInv, AtomicInv, pc \in Restoring, OfferRecovery(proc)
  PROVE  /\ MorePcOK' /\ pc' \in {"dialog", "off"} /\ pc' \notin {"open", "running", "boundary"}
         /\ proc \in Procs /\ pc \in Restoring \cup Undoing
<1>1. proc \in Procs /\ proc.view = "closed" /\ proc.reconciled
  BY WorkingOp DEF AtomicInv, MorePcOK
<1>2. MorePcOK' /\ pc' \in {"dialog", "off"}
  BY <1>1, MoreOffered
<1>3. QED
  BY <1>1, <1>2

\* A restore that moved nothing, or has put everything back, is given up.
LEMMA GivesUp ==
  ASSUME RestoreInv, AtomicInv, pc \in Restoring, OfferRecovery(proc),
         main' = main, marker' = marker, owner' = owner,
         NEW e, dir' = [dir EXCEPT ![proc.op] = e], e.state \in {"gone", "discard"},
         dir[proc.op].journal = <<>> \/ Back(proc.op)
  PROVE  AtomicInv'
<1> DEFINE o == proc.op
<1>1. MorePcOK' /\ pc' \notin {"open", "running", "boundary"} /\ pc \in Restoring \cup Undoing
  BY OffersAgain
<1>2. Acting /\ o \in Live /\ \A p \in Live : p <= o
  BY <1>1, WorkingOp
<1>3. \/ ~Stuck(dir[o]) /\ ~Holds(dir[o])
      \/ (\A p \in Live : p <= o) /\ dir[o].journal # <<>> /\ Back(o)
  BY <1>2, EmptyFree
<1>4. dir' = [dir EXCEPT ![o] = e]
  OBVIOUS
<1> HIDE DEF o
<1>5. NoneOK' /\ OwnOK' /\ LostOK' /\ SoundOK'
  BY <1>1, <1>2, <1>3, <1>4, Leaves
<1>6. QED
  BY <1>1, <1>5 DEF AtomicInv

\* A new restore has an empty directory, the last one.
LEMMA CreateAtomic == RestoreInv /\ AtomicInv /\ CreateRestoreDirectory => AtomicInv'
<1> SUFFICES ASSUME RestoreInv, AtomicInv, CreateRestoreDirectory PROVE AtomicInv'
  OBVIOUS
<1>1. pc = "create" /\ main' = main /\ marker' = marker /\ owner' = owner
  BY DEF CreateRestoreDirectory, History
<1>2. /\ Acting /\ proc \in Procs /\ proc.view = "closed" /\ proc.reconciled
      /\ dir \in [Ops -> RestoreDirs] /\ Live \subseteq Ops /\ Ops \subseteq Nat
  BY <1>1, ActingOwner DEF RestoreInv, Typed, AtomicInv, MorePcOK, Live, Ops
<1>3. CASE OfferRecovery(proc) /\ dir' = dir
  <2>1. MorePcOK' /\ pc' \in {"dialog", "off"} /\ ~Opening' /\ Live' = Live
    BY <1>2, <1>3, MoreOffered DEF Live
  <2>2. NoneOK' /\ OwnOK' /\ LostOK' /\ SoundOK'
    BY <1>1, <1>2, <1>3, <2>1, Quiet DEF Acting
  <2>3. QED
    BY <2>1, <2>2 DEF AtomicInv
<1>4. ASSUME NEW o \in Ops, dir[o].state = "unused", \A p \in 1..(o - 1) : dir[p].state # "unused",
             dir' = [dir EXCEPT ![o].state = "live"], pc' = "stage",
             proc' = [proc EXCEPT !.op = o]
      PROVE  AtomicInv'
  <2>1. /\ dir'[o].state = "live" /\ dir'[o].journal = <<>> /\ dir'[o].quar = NoFiles
        /\ \A p \in Ops : p # o => dir'[p] = dir[p]
    <3>1. dir[o] = EmptyDir
      BY <1>4 DEF RestoreInv, DirsOK, dirOK
    <3>2. QED
      BY <1>2, <1>4, <3>1 DEF EmptyDir
  <2>2. Live' = Live \cup {o} /\ o \notin Live
    BY <1>4, <2>1 DEF Live
  <2>3. \A p \in Live : p < o
    <3>1. SUFFICES ASSUME NEW p \in Live, ~(p < o) PROVE FALSE
      OBVIOUS
    <3>2. p \in Ops /\ dir[p].state = "live" /\ p # o /\ p \in Nat /\ o \in Nat
      BY <1>2, <2>2 DEF Live
    <3>3. o < p
      BY <3>1, <3>2
    <3>4. dir[p].state = "unused"
      BY <1>4, <3>2, <3>3 DEF RestoreInv, DirsOK
    <3>5. QED
      BY <3>2, <3>4
  <2>4. \A p \in Live : dir'[p] = dir[p]
    BY <1>2, <2>1, <2>2
  <2>5. NoneOK' /\ OwnOK' /\ ~Opening'
    BY <1>1, <1>2, <1>4 DEF NoneOK, OwnOK, Acting, Opening
  <2>6. LostOK'
    <3>1. SUFFICES ASSUME owner' = "lost" PROVE LostOK'
      BY DEF LostOK
    <3>2. /\ marker
          /\ main = NoFiles \/ \E p \in Live : Holds(dir[p])
          /\ \A q \in Live : dir[q].journal # <<>> =>
               dir[q].prior = NoFiles \/ \E p \in Live : p < q /\ Holds(dir[p])
      BY <1>1, <3>1 DEF AtomicInv, LostOK
    <3>3. main' = NoFiles \/ \E p \in Live' : Holds(dir'[p])
      BY <1>1, <2>2, <2>4, <3>2
    <3>4. \A q \in Live' : dir'[q].journal # <<>> =>
            dir'[q].prior = NoFiles \/ \E p \in Live' : p < q /\ Holds(dir'[p])
      BY <2>1, <2>2, <2>4, <3>2
    <3>5. QED
      BY <1>1, <1>4, <2>5, <3>2, <3>3, <3>4 DEF LostOK
  <2>7. SoundOK'
    <3>1. /\ Sound(main, marker) \/ \E p \in Live : Stuck(dir[p])
          /\ \A q \in Live : dir[q].journal # <<>> =>
               /\ Sound(dir[q].prior, marker) \/ \E p \in Live : p < q /\ Stuck(dir[p])
               /\ dir[q].prior["db"] = Absent => dir[q].prior = NoFiles
               /\ \A f \in Files : dir[q].prior[f] # "prior" =>
                    main[f] # "prior" /\ \A p \in Live : p >= q => dir[p].quar[f] # "prior"
      BY <1>2 DEF AtomicInv, SoundOK, Acting
    <3>2. Sound(main, marker) \/ \E p \in Live' : Stuck(dir'[p])
      BY <2>2, <2>4, <3>1
    <3>3. ASSUME NEW q \in Live', dir'[q].journal # <<>>
          PROVE  /\ Sound(dir'[q].prior, marker) \/ \E p \in Live' : p < q /\ Stuck(dir'[p])
                 /\ dir'[q].prior["db"] = Absent => dir'[q].prior = NoFiles
                 /\ \A f \in Files : dir'[q].prior[f] # "prior" =>
                      main[f] # "prior" /\ \A p \in Live' : p >= q => dir'[p].quar[f] # "prior"
      <4>1. q \in Live /\ dir'[q] = dir[q]
        BY <2>1, <2>2, <2>4, <3>3
      <4>2. \A f \in Files : dir'[o].quar[f] # "prior"
        BY <2>1 DEF NoFiles, Absent
      <4>3. QED
        BY <2>2, <2>4, <3>1, <3>3, <4>1, <4>2
    <3>4. QED
      BY <1>1, <2>5, <3>2, <3>3 DEF SoundOK
  <2>8. MorePcOK'
    <3>1. proc'.op = o /\ proc'.view = "closed" /\ proc'.reconciled
      BY <1>2, <1>4 DEF Procs
    <3>2. MorePointOK(pc', main', proc', dir'[o])
      BY <1>4 DEF MorePointOK, StuckPoints
    <3>3. QED
      BY <1>4, <3>1, <3>2, MoreWorking DEF Restoring
  <2>9. QED
    BY <2>5, <2>6, <2>7, <2>8 DEF AtomicInv
<1>5. QED
  BY <1>3, <1>4 DEF CreateRestoreDirectory

\* A candidate is staged, or the restore is given up.
LEMMA StageCandidateAtomic == RestoreInv /\ AtomicInv /\ StageCandidate => AtomicInv'
<1> SUFFICES ASSUME RestoreInv, AtomicInv, StageCandidate PROVE AtomicInv'
  OBVIOUS
<1> DEFINE d == dir[proc.op]
           e == [d EXCEPT !.cand = TRUE]
           g == [d EXCEPT !.state = "gone"]
<1>1. pc = "stage" /\ main' = main /\ marker' = marker /\ owner' = owner
  BY DEF StageCandidate, History
<1>2. pc \in Restoring /\ pc \in Restoring \cup Undoing
  BY <1>1 DEF Restoring
<1>3. /\ d \in RestoreDirs /\ d.state = "live" /\ d.journal = <<>> /\ proc.op \in Ops
      /\ dir \in [Ops -> RestoreDirs]
  BY <1>1, <1>2, RestoringOp DEF RestoreInv, Typed
<1>4. \/ dir' = [dir EXCEPT ![proc.op].cand = TRUE] /\ pc' = "prepare" /\ proc' = proc
      \/ /\ OfferRecovery(proc)
         /\ dir' = [dir EXCEPT ![proc.op] = g] \/ dir' = dir
  BY <1>3 DEF StageCandidate, Abandon, Here, Keep
<1>5. CASE dir' = [dir EXCEPT ![proc.op].cand = TRUE] /\ pc' = "prepare" /\ proc' = proc
  <2>1. /\ dir' = [dir EXCEPT ![proc.op] = e] /\ e.state = "live" /\ e.prior = d.prior
        /\ e.journal = d.journal /\ e.quar = d.quar
    BY <1>3, <1>5 DEF RestoreDirs
  <2> HIDE DEF e
  <2>2. (Stuck(d) => Stuck(e)) /\ (Holds(d) => Holds(e))
    BY <2>1, SameJournal
  <2>3. MorePointOK(pc', main', proc', e) /\ pc' \in Restoring /\ pc' \in Restoring \cup Undoing
    BY <1>5 DEF MorePointOK, StuckPoints, Restoring
  <2>4. QED
    BY <1>1, <1>2, <1>5, <2>1, <2>2, <2>3, WorksOn
<1>6. CASE OfferRecovery(proc) /\ dir' = [dir EXCEPT ![proc.op] = g]
  <2>1. g.state = "gone"
    BY <1>3 DEF RestoreDirs
  <2>2. QED
    BY <1>1, <1>2, <1>3, <1>6, <2>1, GivesUp
<1>7. CASE OfferRecovery(proc) /\ dir' = dir
  <2>1. MorePcOK' /\ pc' \notin {"open", "running", "boundary"}
    BY <1>2, <1>7, OffersAgain
  <2>2. dir' = [dir EXCEPT ![proc.op] = d]
    BY <1>3, <1>7
  <2>3. QED
    BY <1>1, <1>2, <1>3, <2>1, <2>2, Worked
<1>8. QED
  BY <1>4, <1>5, <1>6, <1>7

\* The first record binds the files that are there.
LEMMA BindsAtomic ==
  ASSUME RestoreInv, AtomicInv, pc = "prepare", main' = main, marker' = marker, owner' = owner,
         NEW e, dir' = [dir EXCEPT ![proc.op] = e], e.state = "live", e.prior = main,
         e.quar = NoFiles, main["db"] = Absent => main = NoFiles,
         pc' \notin {"open", "running", "boundary"}
  PROVE  /\ NoneOK' /\ OwnOK' /\ LostOK' /\ SoundOK'
<1> DEFINE o == proc.op
<1>1. /\ Acting /\ o \in Ops /\ o \in Live /\ (\A p \in Live : p <= o)
      /\ dir[o].journal = <<>> /\ dir[o].state = "live"
  <2>1. pc \in Restoring /\ pc \in Restoring \cup Undoing
    BY DEF Restoring
  <2>2. QED
    BY <2>1, WorkingOp, RestoringOp
<1>2. dir \in [Ops -> RestoreDirs] /\ Live \subseteq Ops /\ Ops \subseteq Nat
  BY DEF RestoreInv, Typed, Live, Ops
<1>3. dir'[o] = e /\ \A p \in Ops : p # o => dir'[p] = dir[p]
  BY <1>1, <1>2
<1> HIDE DEF o
<1>4. Live' = Live
  BY <1>1, <1>2, <1>3 DEF Live
<1>5. ~Stuck(dir[o]) /\ ~Holds(dir[o])
  BY <1>1, EmptyFree
<1>6. ASSUME NEW p \in Live, p # o PROVE p < o /\ dir'[p] = dir[p]
  <2>1. p \in Ops /\ p \in Nat /\ o \in Nat /\ p <= o
    BY <1>1, <1>2
  <2>2. QED
    BY <1>3, <1>6, <2>1
<1>7. ASSUME NEW q \in Live, NEW p \in Live, p < q PROVE p # o
  <2>1. p \in Nat /\ q \in Nat /\ q <= o
    BY <1>1, <1>2
  <2>2. QED
    BY <1>1, <1>2, <1>7, <2>1
<1>8. NoneOK' /\ OwnOK' /\ ~Opening'
  BY <1>1 DEF NoneOK, OwnOK, Acting, Opening
<1>9. LostOK'
  <2>1. SUFFICES ASSUME owner' = "lost" PROVE LostOK'
    BY DEF LostOK
  <2>2. /\ marker
        /\ main = NoFiles \/ \E p \in Live : Holds(dir[p])
        /\ \A q \in Live : dir[q].journal # <<>> =>
             dir[q].prior = NoFiles \/ \E p \in Live : p < q /\ Holds(dir[p])
    BY <2>1 DEF AtomicInv, LostOK
  <2>3. main = NoFiles \/ \E p \in Live : p < o /\ Holds(dir'[p])
    BY <1>5, <1>6, <2>2
  <2>4. ASSUME NEW q \in Live, dir'[q].journal # <<>>
        PROVE  dir'[q].prior = NoFiles \/ \E p \in Live : p < q /\ Holds(dir'[p])
    <3>1. CASE q = o
      BY <1>3, <2>3, <3>1
    <3>2. CASE q # o
      BY <1>6, <1>7, <2>2, <2>4, <3>2
    <3>3. QED
      BY <3>1, <3>2
  <2>5. marker' /\ pc' # "running" /\ ~Opening'
    BY <1>8, <2>2
  <2>6. main' = NoFiles \/ \E p \in Live : Holds(dir'[p])
    BY <2>3
  <2>7. QED
    BY <1>4, <2>4, <2>5, <2>6 DEF LostOK
<1>10. SoundOK'
  <2>1. /\ Sound(main, marker) \/ \E p \in Live : Stuck(dir[p])
        /\ \A q \in Live : dir[q].journal # <<>> =>
             /\ Sound(dir[q].prior, marker) \/ \E p \in Live : p < q /\ Stuck(dir[p])
             /\ dir[q].prior["db"] = Absent => dir[q].prior = NoFiles
             /\ \A f \in Files : dir[q].prior[f] # "prior" =>
                  main[f] # "prior" /\ \A p \in Live : p >= q => dir[p].quar[f] # "prior"
    BY <1>1 DEF AtomicInv, SoundOK, Acting
  <2>2. Sound(main, marker) \/ \E p \in Live : p < o /\ Stuck(dir'[p])
    BY <1>5, <1>6, <2>1
  <2>3. \A f \in Files : dir'[o].quar[f] # "prior"
    BY <1>3 DEF NoFiles, Absent
  <2>4. ASSUME NEW q \in Live, dir'[q].journal # <<>>
        PROVE  /\ Sound(dir'[q].prior, marker) \/ \E p \in Live : p < q /\ Stuck(dir'[p])
               /\ dir'[q].prior["db"] = Absent => dir'[q].prior = NoFiles
               /\ \A f \in Files : dir'[q].prior[f] # "prior" =>
                    main[f] # "prior" /\ \A p \in Live : p >= q => dir'[p].quar[f] # "prior"
    <3>1. CASE q = o
      <4>1. dir'[q].prior = main
        BY <1>3, <3>1
      <4>2. ASSUME NEW p \in Live, p >= o PROVE p = o
        <5>1. p \in Nat /\ o \in Nat /\ p <= o
          BY <1>1, <1>2
        <5>2. QED
          BY <4>2, <5>1
      <4>3. QED
        BY <2>2, <2>3, <3>1, <4>1, <4>2
    <3>2. CASE q # o
      <4>1. dir'[q] = dir[q]
        BY <1>6, <3>2
      <4>2. Sound(dir[q].prior, marker) \/ \E p \in Live : p < q /\ Stuck(dir'[p])
        BY <1>6, <1>7, <2>1, <2>4, <4>1
      <4>3. \A f \in Files : dir[q].prior[f] # "prior" =>
              main[f] # "prior" /\ \A p \in Live : p >= q => dir'[p].quar[f] # "prior"
        BY <1>6, <2>1, <2>3, <2>4, <4>1
      <4>4. QED
        BY <2>1, <2>4, <4>1, <4>2, <4>3
    <3>3. QED
      BY <3>1, <3>2
  <2>5. Sound(main, marker) \/ \E p \in Live : Stuck(dir'[p])
    BY <2>2
  <2>6. QED
    BY <1>4, <1>8, <2>4, <2>5 DEF SoundOK
<1>11. QED
  BY <1>8, <1>9, <1>10

\* The prior files are bound, or the restore is given up.
LEMMA RecordPreparedAtomic == RestoreInv /\ AtomicInv /\ RecordPrepared => AtomicInv'
<1> SUFFICES ASSUME RestoreInv, AtomicInv, RecordPrepared PROVE AtomicInv'
  OBVIOUS
<1> DEFINE o == proc.op
           d == [Here EXCEPT !.prior = main]
           gone(e) == [e EXCEPT !.state = "gone"]
<1>1. pc = "prepare" /\ main' = main /\ marker' = marker /\ owner' = owner
  BY DEF RecordPrepared, History
<1>2. pc \in Restoring /\ pc \in Restoring \cup Undoing
  BY <1>1 DEF Restoring
<1>3. /\ dir[o] \in RestoreDirs /\ dir[o].state = "live" /\ dir[o].journal = <<>> /\ o \in Ops
      /\ dirOK(dir[o]) /\ dir \in [Ops -> RestoreDirs] /\ main \in [Files -> Bytes]
      /\ proc.view = "closed" /\ proc.reconciled
  BY <1>1, <1>2, RestoringOp, WorkingOp DEF RestoreInv, Typed, AtomicInv, MorePcOK
<1>4. d \in RestoreDirs /\ d.state = "live" /\ d.prior = main /\ d.quar = NoFiles
  <2>1. dir[o].quar = NoFiles
    BY <1>3 DEF dirOK
  <2>2. QED
    BY <1>3, <2>1 DEF Here, RestoreDirs
<1>5. ASSUME NEW e \in FailedAppends(d, "prepared")
      PROVE  e \in RestoreDirs /\ e.state = "live" /\ e.prior = main /\ e.quar = NoFiles
  <2> HIDE DEF d
  <2>1. "prepared" \in Phases
    BY DEF Phases
  <2>2. QED
    BY <1>4, <2>1, AppendedDir, TornDir DEF FailedAppends
<1>6. CASE main["db"] = Absent /\ main # NoFiles /\ Abandon(Here, 0)
  <2>1. OfferRecovery(proc) /\ (dir' = [dir EXCEPT ![o] = gone(dir[o])] \/ dir' = dir)
    BY <1>3, <1>6 DEF Abandon, Here
  <2>2. gone(dir[o]).state = "gone"
    BY <1>3 DEF RestoreDirs
  <2>3. CASE dir' = [dir EXCEPT ![o] = gone(dir[o])]
    BY <1>1, <1>2, <1>3, <2>1, <2>2, <2>3, GivesUp
  <2>4. CASE dir' = dir
    <3>1. MorePcOK' /\ pc' \notin {"open", "running", "boundary"}
      BY <1>2, <2>1, OffersAgain
    <3>2. dir' = [dir EXCEPT ![o] = dir[o]]
      BY <1>3, <2>4
    <3>3. QED
      BY <1>1, <1>2, <1>3, <3>1, <3>2, Worked
  <2>5. QED
    BY <2>1, <2>3, <2>4
<1>7. ASSUME main["db"] = Absent => main = NoFiles,
             NEW e \in FailedAppends(d, "prepared"), Abandon(e, 1)
      PROVE  AtomicInv'
  <2>1. OfferRecovery(proc) /\ (dir' = [dir EXCEPT ![o] = gone(e)] \/ dir' = [dir EXCEPT ![o] = e])
    BY <1>7 DEF Abandon
  <2>2. /\ gone(e).state = "gone" /\ e.state = "live" /\ e.prior = main /\ e.quar = NoFiles
    BY <1>5 DEF RestoreDirs
  <2>3. CASE dir' = [dir EXCEPT ![o] = gone(e)]
    BY <1>1, <1>2, <1>3, <2>1, <2>2, <2>3, GivesUp
  <2>4. CASE dir' = [dir EXCEPT ![o] = e]
    <3>1. MorePcOK' /\ pc' \notin {"open", "running", "boundary"}
      BY <1>2, <2>1, OffersAgain
    <3>2. NoneOK' /\ OwnOK' /\ LostOK' /\ SoundOK'
      BY <1>1, <1>7, <2>2, <2>4, <3>1, BindsAtomic
    <3>3. QED
      BY <3>1, <3>2 DEF AtomicInv
  <2>5. QED
    BY <2>1, <2>3, <2>4
<1>8. CASE /\ main["db"] = Absent => main = NoFiles
           /\ dir' = [dir EXCEPT ![o] = Appended(d, "prepared")]
           /\ Keep("record-quarantining")
  <2> DEFINE e == Appended(d, "prepared")
  <2>1. e.state = "live" /\ e.prior = main /\ e.quar = NoFiles
    BY <1>5 DEF FailedAppends
  <2>2. pc' = "record-quarantining" /\ proc' = proc
    BY <1>8 DEF Keep
  <2>3. dir' = [dir EXCEPT ![o] = e]
    BY <1>8
  <2> HIDE DEF e
  <2>4. NoneOK' /\ OwnOK' /\ LostOK' /\ SoundOK'
    BY <1>1, <1>8, <2>1, <2>2, <2>3, BindsAtomic
  <2>5. MorePointOK(pc', main', proc', dir'[o])
    BY <2>2 DEF MorePointOK, StuckPoints
  <2>6. MorePcOK'
    BY <1>3, <2>2, <2>5, MoreWorking DEF Restoring
  <2>7. QED
    BY <2>4, <2>6 DEF AtomicInv
<1>9. QED
  BY <1>6, <1>7, <1>8 DEF RecordPrepared

\* The quarantine is on record before it begins.
LEMMA RecordQuarantiningAtomic == RestoreInv /\ AtomicInv /\ RecordQuarantining => AtomicInv'
<1> SUFFICES ASSUME RestoreInv, AtomicInv, RecordQuarantining PROVE AtomicInv'
  OBVIOUS
<1> DEFINE next == /\ pc' = "quarantine" /\ UNCHANGED outcome
                   /\ proc' = [proc EXCEPT !.todo = Present(Here.prior)]
<1>1. /\ pc = "record-quarantining" /\ main' = main /\ marker' = marker /\ owner' = owner
      /\ Record("quarantining", next, Here)
  BY DEF RecordQuarantining, History
<1>2. /\ pc \in Restoring /\ proc \in Procs /\ dir[proc.op].journal # <<>>
      /\ "quarantining" \in Phases \ TerminalPhases
  BY <1>1, RestoringOp DEF Restoring, Phases, TerminalPhases
<1>3. next => /\ pc' \in Restoring \ {"validating", "complete", "rb-discard"}
              /\ proc'.op = proc.op /\ proc'.view = proc.view
              /\ proc'.reconciled = proc.reconciled
  BY <1>2 DEF Restoring, Procs
<1> HIDE DEF next
<1>4. QED
  BY <1>1, <1>2, <1>3, RecordAtomic

\* A file is moved aside.
LEMMA QuarantineNextAtomic == RestoreInv /\ AtomicInv /\ QuarantineNext => AtomicInv'
<1> SUFFICES ASSUME RestoreInv, AtomicInv, QuarantineNext PROVE AtomicInv'
  OBVIOUS
<1> DEFINE o == proc.op
           d == dir[o]
           f == PrimaryLast(proc.todo)
           moved == [proc EXCEPT !.todo = proc.todo \ {f}, !.moved = proc.moved \cup {f}]
<1>1. pc = "quarantine" /\ proc.todo # {} /\ marker' = marker /\ owner' = owner
  BY DEF QuarantineNext, History
<1>2. pc \in Restoring /\ pc \in Restoring \cup Undoing /\ Stuck(d)
  BY <1>1, StuckNow DEF Restoring, StuckPoints
<1>3. /\ o \in Ops /\ d \in RestoreDirs /\ d.state = "live" /\ proc \in Procs
      /\ proc.todo \subseteq Files /\ main \in [Files -> Bytes] /\ d.quar \in [Files -> Bytes]
  BY <1>2, WorkingOp
<1>4. f \in Files
  BY <1>1, <1>3, NextFile
<1>5. \/ IntoDir(o, "quar", f) /\ proc' = moved /\ pc' \in {pc, "rb-record"}
      \/ Keep("rb-record") /\ main' = main /\ dir' = dir
  BY DEF QuarantineNext
<1>6. CASE Keep("rb-record") /\ main' = main /\ dir' = dir
  <2>1. pc' = "rb-record" /\ proc' = proc
    BY <1>6 DEF Keep
  <2>2. MorePointOK(pc', main', proc', d) /\ pc' \in Restoring \cup Undoing
    BY <1>2, <2>1 DEF MorePointOK, Restoring
  <2>3. QED
    BY <1>1, <1>2, <1>6, <2>1, <2>2, Waits
<1>7. CASE IntoDir(o, "quar", f) /\ proc' = moved /\ pc' \in {pc, "rb-record"}
  <2>1. proc'.op = proc.op /\ proc'.view = proc.view /\ proc'.reconciled = proc.reconciled
    BY <1>3, <1>7 DEF Procs
  <2> HIDE DEF f, moved
  <2>2. PICK e : /\ dir' = [dir EXCEPT ![o] = e] /\ e.state = d.state /\ e.prior = d.prior
                 /\ e.journal = d.journal /\ e.quar = [d.quar EXCEPT ![f] = main[f]]
    BY <1>3, <1>4, <1>7, IntoQuarantine
  <2>3. main' = [main EXCEPT ![f] = Absent]
    BY <1>3, <1>4, <1>7, IntoQuarantine
  <2>4. Stuck(e)
    BY <1>2, <2>2, SameJournal
  <2>5. ASSUME NEW g \in Files, main'[g] = "prior" \/ e.quar[g] = "prior"
        PROVE  main[g] = "prior" \/ d.quar[g] = "prior"
    <3>1. main'[g] = "prior" => main[g] = "prior"
      BY <1>3, <1>4, <2>3, MovedAway
    <3>2. e.quar[g] = "prior" => main[g] = "prior" \/ d.quar[g] = "prior"
      BY <1>3, <1>4, <2>2
    <3>3. QED
      BY <2>5, <3>1, <3>2
  <2>6. /\ MorePointOK(pc', main', proc', e)
        /\ pc' \in Restoring \cup Undoing
    BY <1>1, <1>7, <2>4 DEF MorePointOK, Restoring
  <2>7. /\ e.state = "live"
        /\ e.journal = <<>> <=> d.journal = <<>>
        /\ \A g \in Files : main'[g] = "prior" \/ e.quar[g] = "prior" =>
             main[g] = "prior" \/ d.quar[g] = "prior"
    BY <1>3, <2>2, <2>5
  <2>8. QED
    BY <1>1, <1>2, <2>1, <2>2, <2>4, <2>6, <2>7, WorksOn
<1>8. QED
  BY <1>5, <1>6, <1>7

\* The quarantine is complete.
LEMMA RecordQuarantinedAtomic == RestoreInv /\ AtomicInv /\ RecordQuarantined => AtomicInv'
<1> SUFFICES ASSUME RestoreInv, AtomicInv, RecordQuarantined PROVE AtomicInv'
  OBVIOUS
<1>1. /\ pc = "quarantine" /\ main' = main /\ marker' = marker /\ owner' = owner
      /\ Record("quarantined", Keep("install"), Here)
  BY DEF RecordQuarantined, History
<1>2. /\ pc \in Restoring /\ dir[proc.op].journal # <<>>
      /\ "quarantined" \in Phases \ TerminalPhases
  BY <1>1, RestoringOp DEF Restoring, Phases, TerminalPhases
<1>3. Keep("install") =>
        /\ pc' \in Restoring \ {"validating", "complete", "rb-discard"}
        /\ proc'.op = proc.op /\ proc'.view = proc.view /\ proc'.reconciled = proc.reconciled
  BY DEF Keep, Restoring
<1>4. QED
  BY <1>1, <1>2, <1>3, RecordAtomic

\* The candidate becomes the primary.
LEMMA InstallCandidateAtomic == RestoreInv /\ AtomicInv /\ InstallCandidate => AtomicInv'
<1> SUFFICES ASSUME RestoreInv, AtomicInv, InstallCandidate PROVE AtomicInv'
  OBVIOUS
<1> DEFINE o == proc.op
           d == dir[o]
           e == [d EXCEPT !.cand = FALSE]
<1>1. pc = "install" /\ marker' = marker /\ owner' = owner
  BY DEF InstallCandidate, History
<1>2. pc \in Restoring /\ pc \in Restoring \cup Undoing /\ Stuck(d)
  BY <1>1, StuckNow DEF Restoring, StuckPoints
<1>3. /\ o \in Ops /\ d \in RestoreDirs /\ d.state = "live" /\ proc \in Procs
      /\ main \in [Files -> Bytes]
  BY <1>2, WorkingOp
<1>4. \/ /\ main' = [main EXCEPT !["db"] = "candidate"] /\ dir' = [dir EXCEPT ![o] = e]
         /\ proc' = [proc EXCEPT !.candidateInstalled = TRUE]
         /\ pc' \in {"record-installed", "rb-record"}
      \/ Keep("rb-record") /\ main' = main /\ dir' = dir
  BY DEF InstallCandidate
<1>5. CASE Keep("rb-record") /\ main' = main /\ dir' = dir
  <2>1. pc' = "rb-record" /\ proc' = proc
    BY <1>5 DEF Keep
  <2>2. MorePointOK(pc', main', proc', d) /\ pc' \in Restoring \cup Undoing
    BY <1>2, <2>1 DEF MorePointOK, Restoring
  <2>3. QED
    BY <1>1, <1>2, <1>5, <2>1, <2>2, Waits
<1>6. CASE /\ main' = [main EXCEPT !["db"] = "candidate"] /\ dir' = [dir EXCEPT ![o] = e]
           /\ proc' = [proc EXCEPT !.candidateInstalled = TRUE]
           /\ pc' \in {"record-installed", "rb-record"}
  <2>1. proc'.op = proc.op /\ proc'.view = proc.view /\ proc'.reconciled = proc.reconciled
    BY <1>3, <1>6 DEF Procs
  <2>2. /\ e.state = "live" /\ e.prior = d.prior /\ e.journal = d.journal /\ e.quar = d.quar
    BY <1>3 DEF RestoreDirs
  <2> HIDE DEF e
  <2>3. Stuck(e)
    BY <1>2, <2>2, SameJournal
  <2>4. \A g \in Files : main'[g] = "prior" => main[g] = "prior"
    BY <1>3, <1>6
  <2>5. /\ MorePointOK(pc', main', proc', e)
        /\ pc' \in Restoring \cup Undoing
    BY <1>6, <2>3 DEF MorePointOK, Restoring
  <2>6. QED
    BY <1>1, <1>2, <1>3, <1>6, <2>1, <2>2, <2>3, <2>4, <2>5, WorksOn
<1>7. QED
  BY <1>4, <1>5, <1>6

\* The installation is on record.
LEMMA RecordInstalledAtomic == RestoreInv /\ AtomicInv /\ RecordInstalled => AtomicInv'
<1> SUFFICES ASSUME RestoreInv, AtomicInv, RecordInstalled PROVE AtomicInv'
  OBVIOUS
<1>1. /\ pc = "record-installed" /\ main' = main /\ marker' = marker /\ owner' = owner
      /\ Record("installed", Keep("validate"), Here)
  BY DEF RecordInstalled, History
<1>2. /\ pc \in Restoring /\ dir[proc.op].journal # <<>>
      /\ "installed" \in Phases \ TerminalPhases
  BY <1>1, RestoringOp DEF Restoring, Phases, TerminalPhases
<1>3. Keep("validate") =>
        /\ pc' \in Restoring \ {"validating", "complete", "rb-discard"}
        /\ proc'.op = proc.op /\ proc'.view = proc.view /\ proc'.reconciled = proc.reconciled
  BY DEF Keep, Restoring
<1>4. QED
  BY <1>1, <1>2, <1>3, RecordAtomic

\* The installed database is opened, checked and closed.
LEMMA ValidateAtomic ==
  RestoreInv /\ AtomicInv /\ (OpenInstalled \/ CloseInstalled) => AtomicInv'
<1> SUFFICES ASSUME RestoreInv, AtomicInv, OpenInstalled \/ CloseInstalled PROVE AtomicInv'
  OBVIOUS
<1> DEFINE d == dir[proc.op]
<1>1. /\ pc \in {"validate", "validating"} /\ marker' = marker /\ owner' = owner /\ dir' = dir
      /\ pc' \in {"validating", "complete", "rb-record"} /\ proc' = proc
      /\ \/ main' = main
         \/ main' = WithSqliteSidecars("audited")
         \/ main' = WithoutSidecars(main)
      /\ pc' = "validating" => main' = WithSqliteSidecars("audited")
      /\ pc' = "complete" => pc = "validating" /\ main' = WithoutSidecars(main)
  BY DEF OpenInstalled, CloseInstalled, Keep, History
<1>2. pc \in Restoring /\ pc \in Restoring \cup Undoing /\ Stuck(d)
  BY <1>1, StuckNow DEF Restoring, StuckPoints
<1>3. /\ d.state = "live" /\ main \in [Files -> Bytes] /\ proc.op \in Ops
      /\ dir \in [Ops -> RestoreDirs]
  BY <1>2, WorkingOp DEF RestoreInv, Typed
<1>4. "db" \in Files
  BY DEF Files
<1>5. \A g \in Files : main'[g] = "prior" => main[g] = "prior"
  BY <1>1, <1>3 DEF WithSqliteSidecars, WithoutSidecars, Absent
<1>6. pc' \in {"validating", "complete"} => main'["db"] = "audited"
  <2>1. pc = "validating" => main["db"] = "audited"
    BY <1>2 DEF AtomicInv, MorePcOK, MorePointOK
  <2>2. QED
    BY <1>1, <1>4, <2>1 DEF WithSqliteSidecars, WithoutSidecars
<1>7. MorePointOK(pc', main', proc', d) /\ pc' \in Restoring \cup Undoing
  BY <1>1, <1>2, <1>6 DEF MorePointOK, Restoring
<1>8. dir' = [dir EXCEPT ![proc.op] = d]
  BY <1>1, <1>3
<1>9. QED
  BY <1>1, <1>2, <1>3, <1>5, <1>7, <1>8, WorksOn

\* The restore is complete: its directory seals the database that is installed.
LEMMA RecordCompletedAtomic == RestoreInv /\ AtomicInv /\ RecordCompleted => AtomicInv'
<1> SUFFICES ASSUME RestoreInv, AtomicInv, RecordCompleted PROVE AtomicInv'
  OBVIOUS
<1> DEFINE o == proc.op
           d == dir[o]
           c == [d EXCEPT !.installed = main]
<1>1. /\ pc = "complete" /\ main' = main /\ marker' = marker
      /\ owner' = IF pc' = "boundary" THEN "new" ELSE owner
      /\ Record("completed", Keep("boundary"), c)
  BY DEF RecordCompleted, Here
<1>2. pc \in Restoring /\ pc \in Restoring \cup Undoing /\ Stuck(d)
  BY <1>1, StuckNow DEF Restoring, StuckPoints
<1>3. /\ d \in RestoreDirs /\ d.state = "live" /\ d.journal # <<>> /\ main \in [Files -> Bytes]
      /\ noPrior(main) /\ Acting /\ o \in Live /\ (\A p \in Live : p <= o)
      /\ proc.view = "closed" /\ proc.reconciled
  BY <1>1, <1>2, RestoringOp, WorkingOp DEF PointOK, AtomicInv, MorePcOK
<1>4. main["db"] = "audited"
  BY <1>1, <1>2 DEF AtomicInv, MorePcOK, MorePointOK
<1>5. Sound(main', marker)
  BY <1>1, <1>3, <1>4 DEF Sound
<1>6. /\ c \in RestoreDirs /\ c.state = "live" /\ c.prior = d.prior /\ c.quar = d.quar
      /\ c.journal = d.journal /\ c.installed = main
  BY <1>3 DEF RestoreDirs
<1>7. c.journal # <<>> /\ Holds(c) /\ "completed" \in Phases
  BY <1>2, <1>3, <1>6, SameJournal DEF Holds, Phases
<1>8. ASSUME NEW e \in FailedAppends(c, "completed")
      PROVE  /\ e.state = "live" /\ e.prior = d.prior /\ e.quar = d.quar /\ e.journal # <<>>
             /\ Holds(e)
  <2> HIDE DEF c
  <2>1. /\ e.state = "live" /\ e.prior = d.prior /\ e.quar = d.quar /\ e.journal # <<>>
    BY <1>6, <1>7, AppendsSame
  <2>2. CASE e = Appended(c, "completed")
    BY <1>6, <1>7, <2>1, <2>2, AppendedStuck
  <2>3. CASE e = c \/ e = Torn(c)
    <3>1. e.journal = c.journal
      BY <1>6, <2>3, TornDir
    <3>2. QED
      BY <1>7, <2>1, <3>1, SameJournal
  <2>4. QED
    BY <2>1, <2>2, <2>3 DEF FailedAppends
<1> HIDE DEF o
<1>9. ASSUME NEW e \in FailedAppends(c, "completed"), dir' = [dir EXCEPT ![o] = e],
             pc' # "running", owner' = owner \/ owner' = "new",
             Opening' => owner' = "new" /\ Sealed(e)
      PROVE  NoneOK' /\ OwnOK' /\ LostOK' /\ SoundOK' /\ Live' = Live /\ dir'[o] = e
  <2>1. /\ e.state = "live" /\ e.prior = d.prior /\ e.quar = d.quar
        /\ e.journal = <<>> <=> d.journal = <<>>
        /\ Holds(e)
    BY <1>3, <1>8
  <2>2. \A f \in Files : main'[f] = "prior" \/ e.quar[f] = "prior" =>
          main[f] = "prior" \/ d.quar[f] = "prior"
    BY <1>1, <2>1
  <2>3. Opening' => owner' = "new" /\ Sound(main', marker) /\ Sealed(e)
    BY <1>5, <1>9
  <2> HIDE DEF c
  <2>4. QED
    BY <1>1, <1>3, <1>5, <1>9, <2>1, <2>2, <2>3, Works
<1>10. CASE dir' = [dir EXCEPT ![o] = Appended(c, "completed")] /\ Keep("boundary")
  <2> DEFINE e == Appended(c, "completed")
  <2>1. e \in FailedAppends(c, "completed")
    BY DEF FailedAppends
  <2>2. /\ pc' = "boundary" /\ proc' = proc /\ owner' = "new"
    BY <1>1, <1>10 DEF Keep
  <2>3. Sealed(e)
    <3>1. /\ e.journal # <<>> /\ LastPhase(e) \in {"completed", "garbled"}
          /\ LastPhase(e) = "garbled" => ~ParsesJournal(e)
      BY <1>6, <1>7, AppendedLast
    <3>2. e.tail = "clean"
      BY <1>6, <1>7, AppendedDir
    <3>3. e.installed = main
      BY <1>6 DEF Appended, RestoreDirs
    <3>4. QED
      BY <1>4, <3>1, <3>2, <3>3 DEF Sealed
  <2> HIDE DEF e, c
  <2>4. dir' = [dir EXCEPT ![o] = e]
    BY <1>10 DEF e
  <2>5. NoneOK' /\ OwnOK' /\ LostOK' /\ SoundOK'
    BY <1>9, <2>1, <2>2, <2>3, <2>4
  <2>6. MorePcOK'
    BY <1>3, <2>2, MoreResting DEF Resting
  <2>7. QED
    BY <2>5, <2>6 DEF AtomicInv
<1>11. ASSUME Keep("rb-record"), NEW e \in FailedAppends(c, "completed"),
              dir' = [dir EXCEPT ![o] = e]
       PROVE  AtomicInv'
  <2>1. pc' = "rb-record" /\ proc' = proc /\ owner' = owner /\ ~Opening'
    BY <1>1, <1>11 DEF Keep, Opening
  <2>2. NoneOK' /\ OwnOK' /\ LostOK' /\ SoundOK' /\ dir'[o] = e
    BY <1>9, <1>11, <2>1
  <2>3. MorePointOK(pc', main', proc', dir'[proc'.op])
    BY <2>1 DEF MorePointOK, StuckPoints
  <2>4. MorePcOK'
    BY <1>3, <2>1, <2>3, MoreWorking DEF Restoring
  <2>5. QED
    BY <2>2, <2>4 DEF AtomicInv
<1>12. QED
  BY <1>1, <1>10, <1>11 DEF Record, o

-----------------------------------------------------------------------------
(* A restore, backwards *)

\* The rollback is on record, or it is not begun.
LEMMA RollbackRecordAtomic == RestoreInv /\ AtomicInv /\ RollbackRecord => AtomicInv'
<1> SUFFICES ASSUME RestoreInv, AtomicInv, RollbackRecord PROVE AtomicInv'
  OBVIOUS
<1> DEFINE d == dir[proc.op]
           a == Appended(d, "rolling-back")
           td == IF proc.candidateInstalled THEN Files ELSE {}
<1>1. pc = "rb-record" /\ main' = main /\ marker' = marker /\ owner' = owner
  BY DEF RollbackRecord, History
<1>2. /\ pc \in Restoring /\ pc \in Restoring \cup Undoing
      /\ "rolling-back" \in Phases \ TerminalPhases
  BY <1>1 DEF Restoring, Phases, TerminalPhases
<1>3. d \in RestoreDirs /\ d.state = "live" /\ d.journal # <<>> /\ proc \in Procs
  BY <1>1, <1>2, RestoringOp
<1>4. \A e \in FailedAppends(d, "rolling-back") : /\ e.state = "live" /\ e.prior = d.prior
                                                  /\ e.quar = d.quar /\ e.journal # <<>>
  BY <1>2, <1>3, AppendsSame
<1>5. \/ /\ dir' = [dir EXCEPT ![proc.op] = a] /\ pc' = "rb-preserve"
         /\ proc' = [proc EXCEPT !.todo = td]
      \/ /\ OfferRecovery(proc)
         /\ \E e \in FailedAppends(d, "rolling-back") : dir' = [dir EXCEPT ![proc.op] = e]
  BY DEF RollbackRecord, Here
<1>6. CASE /\ dir' = [dir EXCEPT ![proc.op] = a] /\ pc' = "rb-preserve"
           /\ proc' = [proc EXCEPT !.todo = td]
  <2>1. proc'.op = proc.op /\ proc'.view = proc.view /\ proc'.reconciled = proc.reconciled
    BY <1>3, <1>6 DEF Procs
  <2>2. a \in FailedAppends(d, "rolling-back") /\ Stuck(a)
    BY <1>2, <1>3, AppendedStuck DEF FailedAppends
  <2>3. MorePointOK(pc', main', proc', a) /\ pc' \in Restoring \cup Undoing
    BY <1>6, <2>2 DEF MorePointOK, Restoring
  <2> HIDE DEF a, td
  <2>4. QED
    BY <1>1, <1>2, <1>3, <1>4, <1>6, <2>1, <2>2, <2>3, WorksOn
<1>7. ASSUME OfferRecovery(proc), NEW e \in FailedAppends(d, "rolling-back"),
             dir' = [dir EXCEPT ![proc.op] = e]
      PROVE  AtomicInv'
  <2>1. MorePcOK' /\ pc' \notin {"open", "running", "boundary"}
    BY <1>2, <1>7, OffersAgain
  <2>2. (Stuck(d) => Stuck(e)) /\ (Holds(d) => Holds(e))
    BY <1>2, <1>3, FailedStuck
  <2>3. QED
    BY <1>1, <1>2, <1>3, <1>4, <1>7, <2>1, <2>2, Worked
<1>8. QED
  BY <1>5, <1>6, <1>7

\* The process goes on with the next file, with or without an error.
LEMMA NextFileOnly ==
  ASSUME proc \in Procs, Next1(proc) \/ Next1(WithError)
  PROVE  proc'.op = proc.op /\ proc'.view = proc.view /\ proc'.reconciled = proc.reconciled
  BY DEF Next1, WithError, Procs

\* What the restore had installed is taken out of the way.
LEMMA RollbackPreserveAtomic == RestoreInv /\ AtomicInv /\ RollbackPreserve => AtomicInv'
<1> SUFFICES ASSUME RestoreInv, AtomicInv, RollbackPreserve PROVE AtomicInv'
  OBVIOUS
<1> DEFINE o == proc.op
           d == dir[o]
           f == PrimaryFirst(proc.todo)
<1>1. /\ pc = "rb-preserve" /\ proc.todo # {} /\ pc' = pc /\ marker' = marker /\ owner' = owner
  BY DEF RollbackPreserve, History
<1>2. pc \in Restoring /\ pc \in Restoring \cup Undoing /\ Stuck(d)
  BY <1>1, StuckNow DEF Restoring, StuckPoints
<1>3. /\ o \in Ops /\ d.state = "live" /\ proc \in Procs /\ proc.todo \subseteq Files
      /\ main \in [Files -> Bytes]
  BY <1>2, WorkingOp
<1>4. f \in Files
  BY <1>1, <1>3, NextFile
<1>5. /\ \/ main' = main /\ dir' = dir
         \/ IntoDir(o, "failed", f)
      /\ Next1(proc) \/ Next1(WithError)
  BY DEF RollbackPreserve
<1>6. proc'.op = proc.op /\ proc'.view = proc.view /\ proc'.reconciled = proc.reconciled
  BY <1>3, <1>5, NextFileOnly
<1>7. ASSUME NEW e, Stuck(e) PROVE MorePointOK(pc', main', proc', e)
  BY <1>1, <1>7 DEF MorePointOK
<1>8. CASE main' = main /\ dir' = dir
  BY <1>1, <1>2, <1>6, <1>7, <1>8, Waits
<1>9. CASE IntoDir(o, "failed", f)
  <2> HIDE DEF f
  <2>1. PICK e : /\ dir' = [dir EXCEPT ![o] = e] /\ e.state = d.state
                 /\ e.prior = d.prior /\ e.quar = d.quar /\ e.journal = d.journal
    BY <1>3, <1>4, <1>9, IntoFailed
  <2>2. main' = [main EXCEPT ![f] = Absent]
    BY <1>3, <1>4, <1>9, IntoFailed
  <2>3. Stuck(e)
    BY <1>2, <2>1, SameJournal
  <2>4. \A g \in Files : main'[g] = "prior" => main[g] = "prior"
    BY <1>3, <1>4, <2>2, MovedAway
  <2>5. QED
    BY <1>1, <1>2, <1>3, <1>6, <1>7, <2>1, <2>3, <2>4, WorksOn
<1>10. QED
  BY <1>5, <1>8, <1>9

\* The moved files are next.
LEMMA RollbackPreservedAtomic == RestoreInv /\ AtomicInv /\ RollbackPreserved => AtomicInv'
<1> SUFFICES ASSUME RestoreInv, AtomicInv, RollbackPreserved PROVE AtomicInv'
  OBVIOUS
<1>1. /\ pc = "rb-preserve" /\ pc' = "rb-restore" /\ main' = main /\ dir' = dir
      /\ marker' = marker /\ owner' = owner /\ proc' = [proc EXCEPT !.todo = proc.moved]
  BY DEF RollbackPreserved, History
<1>2. pc \in Restoring /\ pc \in Restoring \cup Undoing /\ Stuck(dir[proc.op])
  BY <1>1, StuckNow DEF Restoring, StuckPoints
<1>3. proc'.op = proc.op /\ proc'.view = proc.view /\ proc'.reconciled = proc.reconciled
  BY <1>1, <1>2, WorkingOp DEF Procs
<1>4. MorePointOK(pc', main', proc', dir[proc.op]) /\ pc' \in Restoring \cup Undoing
  BY <1>1, <1>2 DEF MorePointOK, Restoring
<1>5. QED
  BY <1>1, <1>2, <1>3, <1>4, Waits

\* A moved file goes back where it was, or stays.
LEMMA RollbackRestoreAtomic == RestoreInv /\ AtomicInv /\ RollbackRestore => AtomicInv'
<1> SUFFICES ASSUME RestoreInv, AtomicInv, RollbackRestore PROVE AtomicInv'
  OBVIOUS
<1> DEFINE o == proc.op
           d == dir[o]
           f == PrimaryFirst(proc.todo)
<1>1. /\ pc = "rb-restore" /\ proc.todo # {} /\ pc' = pc /\ marker' = marker /\ owner' = owner
  BY DEF RollbackRestore, History
<1>2. pc \in Restoring /\ pc \in Restoring \cup Undoing /\ Stuck(d)
  BY <1>1, StuckNow DEF Restoring, StuckPoints
<1>3. /\ o \in Live /\ d.state = "live" /\ proc \in Procs /\ proc.todo \subseteq Files
      /\ main \in [Files -> Bytes] /\ d.quar \in [Files -> Bytes]
  BY <1>2, WorkingOp
<1>4. f \in Files
  BY <1>1, <1>3, NextFile
<1>5. /\ \/ main' = main /\ dir' = dir
         \/ d.quar[f] = d.prior[f] /\ main[f] = Absent /\ BackToMain(o, f)
      /\ Next1(proc) \/ Next1(WithError)
  BY DEF RollbackRestore, Here
<1>6. proc'.op = proc.op /\ proc'.view = proc.view /\ proc'.reconciled = proc.reconciled
  BY <1>3, <1>5, NextFileOnly
<1>7. ASSUME NEW e, Stuck(e) PROVE MorePointOK(pc', main', proc', e)
  BY <1>1, <1>7 DEF MorePointOK
<1>8. CASE main' = main /\ dir' = dir
  BY <1>1, <1>2, <1>6, <1>7, <1>8, Waits
<1>9. CASE d.quar[f] = d.prior[f] /\ main[f] = Absent /\ BackToMain(o, f)
  <2> HIDE DEF f
  <2>1. PICK e \in RestoreDirs :
           /\ dirOK(e) /\ e.state = "live" /\ e.prior = dir[o].prior /\ e.journal = dir[o].journal
           /\ e.quar = [dir[o].quar EXCEPT ![f] = Absent]
           /\ dir' = [dir EXCEPT ![o] = e]
           /\ main' \in [Files -> Bytes] /\ main' = [main EXCEPT ![f] = dir[o].quar[f]]
           /\ \A g \in Files : main[g] = "prior" \/ dir[o].quar[g] = "prior" =>
                main'[g] = "prior" \/ e.quar[g] = "prior"
    BY <1>3, <1>4, <1>9, BackDir
  <2>2. Stuck(e)
    BY <1>2, <2>1, SameJournal
  <2>3. \A g \in Files : main'[g] = "prior" \/ e.quar[g] = "prior" =>
          main[g] = "prior" \/ d.quar[g] = "prior"
    BY <1>3, <1>4, <2>1 DEF Absent
  <2>4. /\ MorePointOK(pc', main', proc', e)
        /\ pc' \in Restoring \cup Undoing
        /\ e.journal = <<>> <=> d.journal = <<>>
    BY <1>1, <1>2, <1>7, <2>1, <2>2
  <2>5. QED
    BY <1>1, <1>2, <1>6, <2>1, <2>2, <2>3, <2>4, WorksOn
<1>10. QED
  BY <1>5, <1>8, <1>9

\* The rollback is over, verified or not.
LEMMA RollbackFinishAtomic == RestoreInv /\ AtomicInv /\ RollbackFinish => AtomicInv'
<1> SUFFICES ASSUME RestoreInv, AtomicInv, RollbackFinish PROVE AtomicInv'
  OBVIOUS
<1> DEFINE o == proc.op
           d == dir[o]
           a == Appended(d, "rolled-back")
<1>1. pc = "rb-restore" /\ main' = main /\ marker' = marker /\ owner' = owner
  BY DEF RollbackFinish, History
<1>2. /\ pc \in Restoring /\ pc \in Restoring \cup Undoing /\ "rolled-back" \in Phases
  BY <1>1 DEF Restoring, Phases
<1>3. d \in RestoreDirs /\ d.state = "live" /\ d.journal # <<>> /\ proc \in Procs /\ o \in Live
  BY <1>1, <1>2, RestoringOp
<1>4. \A e \in FailedAppends(d, "rolled-back") : /\ e.state = "live" /\ e.prior = d.prior
                                                 /\ e.quar = d.quar /\ e.journal # <<>>
  BY <1>2, <1>3, AppendsSame
<1>5. \/ OfferRecovery(proc) /\ dir' = dir
      \/ Back(o) /\ dir' = [dir EXCEPT ![o] = a] /\ Keep("rb-discard")
      \/ /\ Back(o) /\ OfferRecovery(proc)
         /\ \E e \in FailedAppends(d, "rolled-back") : dir' = [dir EXCEPT ![o] = e]
  BY DEF RollbackFinish, RollbackVerified, Here, Back
<1>6. CASE OfferRecovery(proc) /\ dir' = dir
  <2>1. MorePcOK' /\ pc' \notin {"open", "running", "boundary"}
    BY <1>2, <1>6, OffersAgain
  <2>2. dir' = [dir EXCEPT ![o] = d]
    BY <1>6 DEF RestoreInv, Typed
  <2>3. QED
    BY <1>1, <1>2, <1>3, <2>1, <2>2, Worked
<1>7. CASE Back(o) /\ dir' = [dir EXCEPT ![o] = a] /\ Keep("rb-discard")
  <2>1. pc' = "rb-discard" /\ proc' = proc
    BY <1>7 DEF Keep
  <2>2. a \in FailedAppends(d, "rolled-back")
    BY DEF FailedAppends
  <2>3. MorePointOK(pc', main', proc', a) /\ pc' \in Restoring \cup Undoing
    BY <1>1, <1>4, <1>7, <2>1, <2>2 DEF MorePointOK, StuckPoints, Restoring, Back
  <2> HIDE DEF a
  <2>4. QED
    BY <1>1, <1>2, <1>3, <1>4, <1>7, <2>1, <2>2, <2>3, WorksOn
<1>8. ASSUME Back(o), OfferRecovery(proc), NEW e \in FailedAppends(d, "rolled-back"),
             dir' = [dir EXCEPT ![o] = e]
      PROVE  AtomicInv'
  <2>1. MorePcOK' /\ pc' \notin {"open", "running", "boundary"}
    BY <1>2, <1>8, OffersAgain
  <2>2. QED
    BY <1>1, <1>2, <1>3, <1>4, <1>8, <2>1, Worked
<1>9. QED
  BY <1>5, <1>6, <1>7, <1>8

\* What was rolled back is discarded, or stays as it is.
LEMMA RollbackDiscardAtomic == RestoreInv /\ AtomicInv /\ RollbackDiscard => AtomicInv'
<1> SUFFICES ASSUME RestoreInv, AtomicInv, RollbackDiscard PROVE AtomicInv'
  OBVIOUS
<1> DEFINE o == proc.op
           d == dir[o]
           e(s) == [d EXCEPT !.state = s]
<1>1. /\ pc = "rb-discard" /\ main' = main /\ marker' = marker /\ owner' = owner
      /\ OfferRecovery(proc)
  BY DEF RollbackDiscard, History
<1>2. pc \in Restoring /\ pc \in Restoring \cup Undoing
  BY <1>1 DEF Restoring
<1>3. d \in RestoreDirs /\ d.state = "live" /\ d.journal # <<>> /\ o \in Live
  BY <1>1, <1>2, RestoringOp
<1>4. Back(o)
  <2>1. \A f \in Present(d.prior) : main[f] = d.prior[f]
    BY <1>1, <1>2, RestoringOp DEF PointOK
  <2>2. d.prior = NoFiles => main = NoFiles
    BY <1>1, <1>2 DEF AtomicInv, MorePcOK, MorePointOK
  <2>3. QED
    BY <2>1, <2>2 DEF Back
<1>5. PICK s \in {"gone", "discard", "live"} : dir' = [dir EXCEPT ![o] = e(s)]
  BY DEF RollbackDiscard
<1>6. /\ e(s).state = s /\ e(s).prior = d.prior /\ e(s).quar = d.quar
      /\ e(s).journal = d.journal
  BY <1>3 DEF RestoreDirs
<1> HIDE DEF e
<1>7. CASE s = "live"
  <2>1. MorePcOK' /\ pc' \notin {"open", "running", "boundary"}
    BY <1>1, <1>2, OffersAgain
  <2>2. QED
    BY <1>1, <1>2, <1>3, <1>4, <1>5, <1>6, <1>7, <2>1, Worked
<1>8. CASE s # "live"
  BY <1>1, <1>2, <1>4, <1>5, <1>6, <1>8, GivesUp
<1>9. QED
  BY <1>7, <1>8

-----------------------------------------------------------------------------
(* The store *)

\* A store is opened on a whole backup, or on what this program has written, or on nothing
\* where there never was a database.
LEMMA Openable ==
  ASSUME RestoreInv, AtomicInv, pc = "open",
         IF main["db"] = Absent THEN ~marker ELSE main["db"] # "prior"
  PROVE  \/ owner = "none" /\ main["db"] = Absent
         \/ owner = "own" /\ main["db"] = "own"
         \/ owner = "new" /\ main["db"] = "audited" /\ noPrior(main)
<1>1. Opening /\ "db" \in Files
  BY DEF Opening, Files
<1>2. CASE owner = "none"
  BY <1>1, <1>2 DEF AtomicInv, NoneOK, NoFiles
<1>3. CASE owner = "own"
  BY <1>3 DEF AtomicInv, OwnOK
<1>4. CASE owner \in {"old", "lost", "new"}
  <2>1. main["db"] = "audited" /\ noPrior(main)
    <3>1. Sound(main, marker)
      BY <1>1, <1>4 DEF AtomicInv, SoundOK
    <3>2. CASE main["db"] = Absent
      BY <3>1, <3>2 DEF Sound, Absent
    <3>3. CASE main["db"] # Absent
      BY <3>1, <3>3 DEF Sound
    <3>4. QED
      BY <3>2, <3>3
  <2>2. owner # "lost"
    <3>1. SUFFICES ASSUME owner = "lost" PROVE FALSE
      OBVIOUS
    <3>2. main = NoFiles
      BY <1>1, <3>1 DEF AtomicInv, LostOK
    <3>3. QED
      BY <1>1, <2>1, <3>2 DEF NoFiles, Absent
  <2>3. owner # "old"
    <3>1. SUFFICES ASSUME owner = "old" PROVE FALSE
      OBVIOUS
    <3>2. origin["db"] = "prior" /\ Live = {}
      BY <3>1 DEF RestoreInv, OldOK
    <3>3. "db" \in Present(origin)
      BY <1>1, <3>2 DEF Present, Absent
    <3>4. main["db"] = "prior"
      BY <3>1, <3>2, <3>3 DEF RestoreInv, PriorFilesSurvive
    <3>5. QED
      BY <2>1, <3>4
  <2>4. QED
    BY <1>4, <2>1, <2>2, <2>3
<1>5. QED
  BY <1>2, <1>3, <1>4 DEF RestoreInv, Typed

\* What a store shows that is opened on such a database.
LEMMA Shown ==
  ASSUME RestoreInv
  PROVE  /\ main["db"] = "own" => ViewOf(main) = "own"
         /\ main["db"] = "audited" /\ noPrior(main) => ViewOf(main) = "new"
<1>1. "db" \in Files /\ origin["db"] \in {Absent, "prior"}
  BY DEF Files, RestoreInv, Typed
<1>2. main["db"] \in {"own", "audited"} => main # origin
  BY <1>1 DEF Absent
<1>3. QED
  BY <1>2 DEF ViewOf, noPrior

\* A step after which the database is sound with other sidecars.
LEMMA StaysSound ==
  ASSUME RestoreInv, AtomicInv, owner = "new", owner' = "new", dir' = dir,
         Sound(main', marker'), \A f \in Files : main'[f] = "prior" => main[f] = "prior",
         marker => marker', Opening, pc' \in {"running", "off"}
  PROVE  NoneOK' /\ OwnOK' /\ LostOK' /\ SoundOK'
<1>1. Live' = Live
  BY DEF Live
<1>2. ASSUME NEW m, Sound(m, marker) PROVE Sound(m, marker')
  BY <1>2 DEF Sound
<1>3. /\ Live = {} \/ \E o \in Live : Sealed(dir[o])
      /\ \A o \in Live : dir[o].journal # <<>> =>
           /\ Sound(dir[o].prior, marker) \/ \E p \in Live : p < o /\ Stuck(dir[p])
           /\ dir[o].prior["db"] = Absent => dir[o].prior = NoFiles
           /\ \A f \in Files : dir[o].prior[f] # "prior" =>
                main[f] # "prior" /\ \A q \in Live : q >= o => dir[q].quar[f] # "prior"
  BY DEF AtomicInv, SoundOK
<1>4. SoundOK'
  BY <1>1, <1>2, <1>3 DEF SoundOK
<1>5. QED
  BY <1>4 DEF NoneOK, OwnOK, LostOK

\* A step with or after the first write of the application.
LEMMA StaysOwn ==
  ASSUME RestoreInv, AtomicInv, owner' = "own", dir' = dir, main'["db"] = "own",
         pc' \in {"running", "off"}, Opening \/ owner = "own"
  PROVE  NoneOK' /\ OwnOK' /\ LostOK' /\ SoundOK'
<1>1. Live' = Live
  BY DEF Live
<1>2. Live = {} \/ \E o \in Live : Sealed(dir[o])
  <2>1. CASE owner = "own"
    BY <2>1 DEF AtomicInv, OwnOK
  <2>2. CASE owner = "none"
    BY <2>2 DEF AtomicInv, NoneOK, Live
  <2>3. CASE Opening /\ owner \in {"old", "lost", "new"}
    BY <2>3 DEF AtomicInv, SoundOK
  <2>4. QED
    BY <2>1, <2>2, <2>3 DEF RestoreInv, Typed
<1>3. OwnOK'
  BY <1>1, <1>2 DEF OwnOK
<1>4. QED
  BY <1>3 DEF NoneOK, LostOK, SoundOK

\* A store is opened, or the recovery is offered, or the marker cannot be written.
LEMMA OpenStoreAtomic ==
  RestoreInv /\ AtomicInv /\ OpenStore => AtomicInv' /\ [Atomic!Next]_(Atomic!replaceVars)
<1> SUFFICES ASSUME RestoreInv, AtomicInv, OpenStore
             PROVE  AtomicInv' /\ [Atomic!Next]_(Atomic!replaceVars)
  OBVIOUS
<1>1. pc = "open" /\ dir' = dir /\ "db" \in Files
  BY DEF OpenStore, Files
<1>2. /\ proc \in Procs /\ proc.view = "closed" /\ proc.reconciled /\ main \in [Files -> Bytes]
      /\ Opening
  BY <1>1 DEF RestoreInv, Typed, AtomicInv, MorePcOK, Opening
<1>3. Live' = Live
  BY <1>1 DEF Live
<1>4. CASE /\ IF main["db"] = Absent THEN marker ELSE main["db"] = "prior"
           /\ OfferRecovery(proc) /\ main' = main /\ marker' = marker /\ owner' = owner
  <2>1. MorePcOK' /\ pc' \in {"dialog", "off"} /\ ~Opening' /\ proc'.view = "closed"
    BY <1>2, <1>4, MoreOffered
  <2>2. owner # "none" /\ owner # "own"
    BY <1>1, <1>4 DEF AtomicInv, NoneOK, OwnOK, NoFiles, Absent
  <2>3. NoneOK' /\ OwnOK' /\ LostOK' /\ SoundOK'
    BY <1>1, <1>3, <1>4, <2>1, <2>2, Quiet
  <2>4. QED
    BY <1>2, <1>4, <2>1, <2>3 DEF AtomicInv, Atomic!replaceVars
<1> DEFINE bytes == IF main["db"] = Absent THEN "own" ELSE main["db"]
<1>5. CASE /\ IF main["db"] = Absent THEN ~marker ELSE main["db"] # "prior"
           /\ owner' = IF main["db"] = Absent THEN "own" ELSE owner
           /\ \/ /\ main' = WithSqliteSidecars(bytes) /\ marker' = TRUE /\ pc' = "running"
                 /\ proc' = [proc EXCEPT !.view = IF main["db"] = Absent THEN "own"
                                                  ELSE ViewOf(main)]
              \/ /\ main' = [f \in Files |-> IF f = "db" THEN bytes ELSE Absent]
                 /\ EndStart("io-error") /\ marker' = marker
  <2>1. /\ main'["db"] = bytes /\ pc' \in {"running", "off"} /\ (marker => marker')
        /\ \A f \in Files : f # "db" => main'[f] # "prior"
    BY <1>1, <1>5 DEF WithSqliteSidecars, EndStart, Absent
  <2>2. \/ owner = "none" /\ main["db"] = Absent
        \/ owner = "own" /\ main["db"] = "own"
        \/ owner = "new" /\ main["db"] = "audited" /\ noPrior(main)
    BY <1>1, <1>5, Openable
  <2>3. \/ owner' = "own" /\ main'["db"] = "own"
        \/ /\ owner = "new" /\ owner' = "new" /\ Sound(main', marker')
           /\ \A f \in Files : main'[f] = "prior" => main[f] = "prior"
    BY <1>5, <2>1, <2>2 DEF Absent, noPrior, Sound
  <2>4. NoneOK' /\ OwnOK' /\ LostOK' /\ SoundOK'
    BY <1>1, <1>2, <2>1, <2>3, StaysSound, StaysOwn
  <2>5. /\ pc' = "off" => proc'.view = "closed"
        /\ pc' = "running" => proc'.reconciled /\ proc'.view = owner' /\ proc'.view # "closed"
    <3>1. CASE EndStart("io-error")
      BY <3>1 DEF EndStart, IdleProc
    <3>2. CASE /\ pc' = "running"
               /\ proc' = [proc EXCEPT !.view = IF main["db"] = Absent THEN "own"
                                                ELSE ViewOf(main)]
      <4>1. /\ proc'.reconciled
            /\ proc'.view = IF main["db"] = Absent THEN "own" ELSE ViewOf(main)
        BY <1>2, <3>2 DEF Procs
      <4>2. QED
        BY <1>5, <2>2, <3>2, <4>1, Shown DEF Absent
    <3>3. QED
      BY <1>5, <3>1, <3>2
  <2>6. MorePcOK'
    BY <2>1, <2>5, MoreResting DEF Resting
  <2>7. [Atomic!Next]_(Atomic!replaceVars)
    <3>1. CASE owner = "none" /\ main["db"] = Absent
      <4>1. owner' = "own" /\ proc'.view \in {"own", "closed"}
        BY <1>5, <2>1, <2>5, <3>1
      <4>2. Atomic!Create
        BY <1>2, <3>1, <4>1 DEF Atomic!Create
      <4>3. QED
        BY <4>2 DEF Atomic!Next
    <3>2. CASE owner \in {"own", "new"} /\ main["db"] # Absent
      <4>1. owner' = owner
        BY <1>5, <3>2
      <4>2. CASE pc' = "running"
        BY <1>2, <2>5, <3>2, <4>1, <4>2 DEF Atomic!Next, Atomic!Open
      <4>3. CASE pc' = "off"
        BY <1>2, <2>5, <4>1, <4>3 DEF Atomic!replaceVars
      <4>4. QED
        BY <2>1, <4>2, <4>3
    <3>3. QED
      BY <2>2, <3>1, <3>2 DEF Absent
  <2>8. QED
    BY <2>4, <2>6, <2>7 DEF AtomicInv
<1>6. QED
  BY <1>4, <1>5 DEF OpenStore

\* What a running store shows.
LEMMA RunningOwner ==
  ASSUME RestoreInv, AtomicInv, pc = "running"
  PROVE  /\ proc \in Procs /\ proc.view # "closed" /\ proc.reconciled /\ Opening
         /\ main \in [Files -> Bytes] /\ "db" \in Files
         /\ (owner = "own" /\ main["db"] = "own") \/ owner = "new"
<1>1. /\ proc \in Procs /\ proc.view # "closed" /\ proc.reconciled /\ Opening
      /\ main \in [Files -> Bytes] /\ "db" \in Files
  BY DEF RestoreInv, Typed, AtomicInv, MorePcOK, Opening, Files
<1>2. owner # "none" /\ owner # "lost" /\ owner # "old"
  BY DEF AtomicInv, NoneOK, LostOK, RestoreInv, OldOK
<1>3. owner = "own" => main["db"] = "own"
  BY DEF AtomicInv, OwnOK
<1>4. QED
  BY <1>1, <1>2, <1>3 DEF RestoreInv, Typed

\* The application writes.
LEMMA WorkAtomic ==
  RestoreInv /\ AtomicInv /\ Work => AtomicInv' /\ [Atomic!Next]_(Atomic!replaceVars)
<1> SUFFICES ASSUME RestoreInv, AtomicInv, Work
             PROVE  AtomicInv' /\ [Atomic!Next]_(Atomic!replaceVars)
  OBVIOUS
<1>1. /\ pc = "running" /\ pc' = pc /\ main' = [main EXCEPT !["db"] = "own"] /\ owner' = "own"
      /\ proc' = [proc EXCEPT !.view = "own"] /\ dir' = dir /\ marker' = marker
  BY DEF Work
<1>2. /\ proc \in Procs /\ proc.view # "closed" /\ proc.reconciled /\ Opening
      /\ main \in [Files -> Bytes] /\ "db" \in Files
  BY <1>1, RunningOwner
<1>3. main'["db"] = "own" /\ proc'.view = "own" /\ proc'.reconciled
  BY <1>1, <1>2 DEF Procs
<1>4. NoneOK' /\ OwnOK' /\ LostOK' /\ SoundOK'
  BY <1>1, <1>2, <1>3, StaysOwn
<1>5. MorePcOK'
  BY <1>1, <1>3, MoreResting DEF Resting
<1>6. Atomic!Write
  BY <1>1, <1>2, <1>3 DEF Atomic!Write
<1>7. QED
  BY <1>4, <1>5, <1>6 DEF AtomicInv, Atomic!Next

\* A store that is closed, by the application or by a crash.
LEMMA ClosesView ==
  ASSUME proc.view # "closed", proc'.view = "closed", owner' = owner
  PROVE  [Atomic!Next]_(Atomic!replaceVars)
  BY DEF Atomic!Next, Atomic!Close

\* The application quits.
LEMMA CloseStoreAtomic ==
  RestoreInv /\ AtomicInv /\ CloseStore => AtomicInv' /\ [Atomic!Next]_(Atomic!replaceVars)
<1> SUFFICES ASSUME RestoreInv, AtomicInv, CloseStore
             PROVE  AtomicInv' /\ [Atomic!Next]_(Atomic!replaceVars)
  OBVIOUS
<1>1. /\ pc = "running" /\ main' = WithoutSidecars(main) /\ EndStart("opened") /\ dir' = dir
      /\ marker' = marker /\ owner' = owner
  BY DEF CloseStore, History
<1>2. /\ proc.view # "closed" /\ Opening /\ main \in [Files -> Bytes] /\ "db" \in Files
  BY <1>1, RunningOwner
<1>3. MorePcOK' /\ pc' = "off" /\ proc'.view = "closed"
  BY <1>1, MoreEnds
<1>4. main'["db"] = main["db"] /\ \A f \in Files : main'[f] = "prior" => main[f] = "prior"
  BY <1>1, <1>2 DEF WithoutSidecars, Absent
<1>5. NoneOK' /\ OwnOK' /\ LostOK' /\ SoundOK'
  <2>1. CASE owner = "own" /\ main["db"] = "own"
    BY <1>1, <1>2, <1>3, <1>4, <2>1, StaysOwn
  <2>2. CASE owner = "new"
    <3>1. Sound(main, marker)
      BY <1>2, <2>2 DEF AtomicInv, SoundOK
    <3>2. Sound(main', marker')
      BY <1>1, <1>4, <3>1 DEF Sound, noPrior
    <3>3. QED
      BY <1>1, <1>2, <1>3, <1>4, <2>2, <3>2, StaysSound
  <2>3. QED
    BY <1>1, <2>1, <2>2, RunningOwner
<1>6. [Atomic!Next]_(Atomic!replaceVars)
  BY <1>1, <1>2, <1>3, ClosesView
<1>7. QED
  BY <1>3, <1>5, <1>6 DEF AtomicInv

-----------------------------------------------------------------------------
(* Crashes, and every behaviour *)

\* A start that is interrupted tears at most one append of a restore.
LEMMA InterruptedAtomic ==
  ASSUME RestoreInv, AtomicInv, NEW how, Interrupted(how)
  PROVE  AtomicInv'
<1> DEFINE o == proc.op
           d == dir[o]
           e == Torn(d)
<1>1. EndStart(how) /\ main' = main /\ marker' = marker /\ owner' = owner
  BY DEF Interrupted, History
<1>2. CASE dir' = dir
  BY <1>1, <1>2, EndsAtomic
<1>3. CASE Appending /\ dir' = [dir EXCEPT ![o] = e]
  <2>1. pc \in Restoring \cup Undoing
    BY <1>3 DEF Appending, AppendPoints, Restoring, Undoing
  <2>2. d \in RestoreDirs /\ d.state = "live"
    BY <2>1, WorkingOp
  <2>3. e.state = "live" /\ e.prior = d.prior /\ e.quar = d.quar /\ e.journal = d.journal
    BY <2>2, TornDir
  <2>4. MorePcOK' /\ pc' = "off"
    BY <1>1, MoreEnds
  <2> HIDE DEF e
  <2>5. (Stuck(d) => Stuck(e)) /\ (Holds(d) => Holds(e))
    BY <2>3, SameJournal
  <2>6. QED
    BY <1>1, <1>3, <2>1, <2>3, <2>4, <2>5, Worked
<1>4. QED
  BY <1>2, <1>3 DEF Interrupted

\* A crash, and a file operation that fails while the store is opened.
LEMMA CrashAtomic == RestoreInv /\ AtomicInv /\ (Crash \/ OpeningFails) => AtomicInv'
  BY InterruptedAtomic DEF Crash, OpeningFails

\* A step in which nothing happens.
LEMMA AtomicStutters == RestoreInv /\ AtomicInv /\ UNCHANGED restoreVars => AtomicInv'
<1> SUFFICES ASSUME RestoreInv, AtomicInv, UNCHANGED restoreVars PROVE AtomicInv'
  OBVIOUS
<1>1. /\ main' = main /\ dir' = dir /\ marker' = marker /\ pc' = pc /\ proc' = proc
      /\ owner' = owner
  BY DEF restoreVars
<1>2. Live' = Live /\ Opening' = Opening
  BY <1>1 DEF Live, Opening
<1>3. NoneOK' /\ OwnOK' /\ LostOK' /\ SoundOK'
  BY <1>1, <1>2 DEF AtomicInv, NoneOK, OwnOK, LostOK, SoundOK
<1>4. MorePcOK'
  BY <1>1, <1>2 DEF AtomicInv, MorePcOK
<1>5. QED
  BY <1>3, <1>4 DEF AtomicInv

\* At the first start there is the old database, or none, and no restore.
LEMMA AtomicInitially == RestoreInit => AtomicInv /\ Atomic!Init
<1> SUFFICES ASSUME RestoreInit PROVE AtomicInv /\ Atomic!Init
  OBVIOUS
<1>1. /\ main \in [Files -> {Absent, "prior"}]
      /\ main["db"] = Absent => main = NoFiles
      /\ marker \in BOOLEAN /\ dir = [o \in Ops |-> EmptyDir] /\ pc = "off"
      /\ proc = IdleProc
      /\ owner = IF main["db"] = "prior" THEN "old" ELSE IF marker THEN "lost" ELSE "none"
      /\ "db" \in Files
  BY DEF RestoreInit, Files
<1>2. proc.view = "closed" /\ Live = {} /\ ~Opening /\ \A o \in Ops : dir[o].state = "unused"
  BY <1>1 DEF IdleProc, Live, EmptyDir, Opening
<1>3. NoneOK
  BY <1>1, <1>2 DEF NoneOK
<1>4. OwnOK
  BY <1>1 DEF OwnOK
<1>5. LostOK
  BY <1>1, <1>2 DEF LostOK
<1>6. SoundOK
  BY <1>1, <1>2 DEF SoundOK, Sound
<1>7. MorePcOK
  BY <1>1, <1>2 DEF MorePcOK, Restoring, Undoing
<1>8. Atomic!Init
  BY <1>1, <1>2 DEF Atomic!Init
<1>9. QED
  BY <1>3, <1>4, <1>5, <1>6, <1>7, <1>8 DEF AtomicInv

\* Every step of the program, and every crash, keeps the invariant.
LEMMA AtomicStep ==
  RestoreInv /\ AtomicInv /\ [RestoreNext]_restoreVars => AtomicInv'
  BY StartAtomic, PrepareBoundaryAtomic, RemoveDiscardedAtomic, ScanDirectoryAtomic,
     ScanEndsAtomic, UndoRecordAtomic, UndoPreserveAtomic, UndoPreservedAtomic,
     UndoRestoreAtomic, UndoFinishAtomic, UndoDiscardAtomic, OpenStoreAtomic, WorkAtomic,
     CloseStoreAtomic, ChooseBackupAtomic, CreateAtomic, StageCandidateAtomic,
     RecordPreparedAtomic, RecordQuarantiningAtomic, QuarantineNextAtomic,
     RecordQuarantinedAtomic, InstallCandidateAtomic, RecordInstalledAtomic, ValidateAtomic,
     RecordCompletedAtomic, RollbackRecordAtomic, RollbackPreserveAtomic,
     RollbackPreservedAtomic, RollbackRestoreAtomic, RollbackFinishAtomic,
     RollbackDiscardAtomic, CrashAtomic, AtomicStutters
     DEF RestoreNext, ProcessStep

\* A step that does not open a store closes it, or leaves the database as it is, or is
\* the one that replaces it.
LEMMA OneStep ==
  ASSUME AtomicInv, AtomicInv', pc' # "running",
         \/ owner' = owner
         \/ proc.view = "closed" /\ owner \in {"old", "lost", "new"} /\ owner' = "new"
  PROVE  [Atomic!Next]_(Atomic!replaceVars)
<1>1. proc'.view = "closed"
  BY DEF AtomicInv, MorePcOK
<1>2. CASE owner' = owner /\ proc.view = "closed"
  BY <1>1, <1>2 DEF Atomic!replaceVars
<1>3. CASE owner' = owner /\ proc.view # "closed"
  BY <1>1, <1>3, ClosesView
<1>4. CASE owner' # owner
  BY <1>1, <1>4 DEF Atomic!Next, Atomic!Replace
<1>5. QED
  BY <1>2, <1>3, <1>4

\* The steps of a start, and a crash.
LEMMA StartOwner ==
  ASSUME Start \/ PrepareBoundary \/ ScanEnds \/ ChooseBackup \/ Crash \/ OpeningFails
           \/ \E o \in Ops : RemoveDiscarded(o)
  PROVE  owner' = owner /\ pc' # "running"
<1>1. Start => owner' = owner /\ pc' # "running"
  BY DEF Start
<1>2. PrepareBoundary => owner' = owner /\ pc' # "running"
  BY DEF PrepareBoundary, EndStart, Keep, History
<1>3. ScanEnds => owner' = owner /\ pc' # "running"
  BY DEF ScanEnds, EndStart, History
<1>4. ChooseBackup => owner' = owner /\ pc' # "running"
  BY DEF ChooseBackup, EndStart, OfferRecovery, History
<1>5. Crash \/ OpeningFails => owner' = owner /\ pc' # "running"
  BY DEF Crash, OpeningFails, Interrupted, EndStart, History
<1>6. (\E o \in Ops : RemoveDiscarded(o)) => owner' = owner /\ pc' # "running"
  BY DEF RemoveDiscarded, History
<1>7. QED
  BY <1>1, <1>2, <1>3, <1>4, <1>5, <1>6

\* The steps of an undo.
LEMMA UndoOwner ==
  ASSUME UndoRecord \/ UndoPreserve \/ UndoPreserved \/ UndoRestore \/ UndoFinish \/ UndoDiscard
  PROVE  owner' = owner /\ pc' # "running"
<1>1. UndoRecord \/ UndoPreserved \/ UndoDiscard => owner' = owner /\ pc' # "running"
  BY DEF UndoRecord, UndoPreserved, UndoDiscard, Keep, History
<1>2. UndoPreserve => owner' = owner /\ pc' # "running"
  BY DEF UndoPreserve, EndStart, History
<1>3. UndoRestore => owner' = owner /\ pc' # "running"
  BY DEF UndoRestore, EndStart, History
<1>4. UndoFinish => owner' = owner /\ pc' # "running"
  BY DEF UndoFinish, EndStart, Keep, History
<1>5. QED
  BY <1>1, <1>2, <1>3, <1>4

\* The steps of a restore before its completion.
LEMMA RestoreOwner ==
  ASSUME \/ CreateRestoreDirectory \/ StageCandidate \/ RecordPrepared \/ RecordQuarantining
         \/ QuarantineNext \/ RecordQuarantined \/ InstallCandidate \/ RecordInstalled
         \/ OpenInstalled \/ CloseInstalled
  PROVE  owner' = owner /\ pc' # "running"
<1>1. CreateRestoreDirectory \/ StageCandidate => owner' = owner /\ pc' # "running"
  BY DEF CreateRestoreDirectory, StageCandidate, Abandon, OfferRecovery, EndStart, Keep, History
<1>2. RecordPrepared => owner' = owner /\ pc' # "running"
  BY DEF RecordPrepared, Abandon, OfferRecovery, EndStart, Keep, History
<1>3. RecordQuarantining \/ RecordQuarantined \/ RecordInstalled => owner' = owner /\ pc' # "running"
  BY DEF RecordQuarantining, RecordQuarantined, RecordInstalled, Record, Keep, History
<1>4. QuarantineNext \/ InstallCandidate => owner' = owner /\ pc' # "running"
  BY DEF QuarantineNext, InstallCandidate, Keep, History
<1>5. OpenInstalled \/ CloseInstalled => owner' = owner /\ pc' # "running"
  BY DEF OpenInstalled, CloseInstalled, Keep, History
<1>6. QED
  BY <1>1, <1>2, <1>3, <1>4, <1>5

\* The steps of a rollback.
LEMMA RollbackOwner ==
  ASSUME RollbackRecord \/ RollbackPreserve \/ RollbackPreserved \/ RollbackRestore
           \/ RollbackFinish \/ RollbackDiscard
  PROVE  owner' = owner /\ pc' # "running"
<1>1. RollbackRecord \/ RollbackDiscard => owner' = owner /\ pc' # "running"
  BY DEF RollbackRecord, RollbackDiscard, OfferRecovery, EndStart, History
<1>2. RollbackPreserve \/ RollbackPreserved \/ RollbackRestore => owner' = owner /\ pc' # "running"
  BY DEF RollbackPreserve, RollbackPreserved, RollbackRestore, History
<1>3. RollbackFinish => owner' = owner /\ pc' # "running"
  BY DEF RollbackFinish, OfferRecovery, EndStart, Keep, History
<1>4. QED
  BY <1>1, <1>2, <1>3

\* The database is replaced where the journal says that the restore is complete, or where a
\* start finds that it does.
LEMMA ReplacingOwner ==
  ASSUME RestoreInv, AtomicInv, RecordCompleted \/ \E o \in Ops : ScanDirectory(o)
  PROVE  /\ pc' # "running"
         /\ \/ owner' = owner
            \/ proc.view = "closed" /\ owner \in {"old", "lost", "new"} /\ owner' = "new"
<1>1. CASE RecordCompleted
  <2>1. pc = "complete" /\ owner' \in {owner, "new"} /\ pc' \in {"boundary", "rb-record"}
    BY <1>1 DEF RecordCompleted, Record, Keep
  <2>2. Acting /\ proc.view = "closed"
    BY <2>1, WorkingOp DEF Restoring
  <2>3. QED
    BY <2>1, <2>2 DEF Acting
<1>2. ASSUME NEW o \in Ops, ScanDirectory(o)
      PROVE  /\ pc' # "running"
             /\ \/ owner' = owner
                \/ proc.view = "closed" /\ owner \in {"old", "lost", "new"} /\ owner' = "new"
  <2>1. pc = "scan" /\ pc' \in {"scan", "off"}
    BY <1>2 DEF ScanDirectory, Keep, EndStart
  <2>2. proc.view = "closed"
    BY <2>1 DEF AtomicInv, MorePcOK
  <2>3. owner' = owner \/ (owner \in {"old", "lost"} /\ owner' = "new")
    BY <1>2 DEF ScanDirectory
  <2>4. QED
    BY <2>1, <2>2, <2>3
<1>3. QED
  BY <1>1, <1>2

\* Every step of the program is a step of the atomic replacement, or none.
LEMMA AtomicSimulation ==
  RestoreInv /\ AtomicInv /\ AtomicInv' /\ [RestoreNext]_restoreVars
    => [Atomic!Next]_(Atomic!replaceVars)
<1> SUFFICES ASSUME RestoreInv, AtomicInv, AtomicInv', [RestoreNext]_restoreVars
             PROVE  [Atomic!Next]_(Atomic!replaceVars)
  OBVIOUS
<1>1. CASE UNCHANGED restoreVars
  BY <1>1 DEF restoreVars, Atomic!replaceVars
<1>2. CASE OpenStore \/ Work \/ CloseStore
  BY <1>2, OpenStoreAtomic, WorkAtomic, CloseStoreAtomic
<1>3. CASE Start \/ PrepareBoundary \/ ScanEnds \/ ChooseBackup \/ Crash \/ OpeningFails
             \/ \E o \in Ops : RemoveDiscarded(o)
  BY <1>3, StartOwner, OneStep
<1>4. CASE UndoRecord \/ UndoPreserve \/ UndoPreserved \/ UndoRestore \/ UndoFinish \/ UndoDiscard
  BY <1>4, UndoOwner, OneStep
<1>5. CASE \/ CreateRestoreDirectory \/ StageCandidate \/ RecordPrepared \/ RecordQuarantining
           \/ QuarantineNext \/ RecordQuarantined \/ InstallCandidate \/ RecordInstalled
           \/ OpenInstalled \/ CloseInstalled
  BY <1>5, RestoreOwner, OneStep
<1>6. CASE RollbackRecord \/ RollbackPreserve \/ RollbackPreserved \/ RollbackRestore
             \/ RollbackFinish \/ RollbackDiscard
  BY <1>6, RollbackOwner, OneStep
<1>7. CASE RecordCompleted \/ \E o \in Ops : ScanDirectory(o)
  BY <1>7, ReplacingOwner, OneStep
<1>8. QED
  BY <1>1, <1>2, <1>3, <1>4, <1>5, <1>6, <1>7 DEF RestoreNext, ProcessStep

\* The inductive invariant: what a start may find, and what keeps it from opening the rest.
THEOREM AtomicInvariance == RestoreSpec => []AtomicInv
<1>1. RestoreInit => AtomicInv
  BY AtomicInitially
<1>2. QED
  BY <1>1, AtomicStep, RestoreInvariance, PTL DEF RestoreSpec

\* The restore implements the atomic replacement: a store shows the old database or the whole
\* backup, never a mixture and never an empty replacement, whatever crashed or failed.
THEOREM RestoreReplacesAtomically == RestoreSpec => RestoreIsAtomic
<1>1. RestoreInit => Atomic!Init
  BY AtomicInitially
<1>2. QED
  BY <1>1, AtomicSimulation, RestoreInvariance, AtomicInvariance, PTL
     DEF RestoreSpec, RestoreIsAtomic, Atomic!Spec
=============================================================================
