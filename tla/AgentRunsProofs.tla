--------------------------- MODULE AgentRunsProofs ---------------------------
(***************************************************************************)
(* What AgentRuns promises, for any number of runs, owners, limits, faults *)
(* and restarts: the type invariant with the admission limits, the         *)
(* ownership of worktrees by at most one session, the honesty of the run   *)
(* history, and what a stop, a privacy reset and a quit leave behind.      *)
(*                                                                         *)
(* The argument rests on one inductive invariant, RunsInv.  Its heart is   *)
(* the holder of a worktree: the one record that has the authority over it *)
(* and was not continued.  A session works only under a holder, authority  *)
(* moves only from an interrupted holder, and only a holder's worktree is  *)
(* ever declared to be going.                                              *)
(***************************************************************************)
EXTENDS AgentRuns, FiniteSetTheorems, TLAPS

Stages == {"idle", "over", "pending", "running", "dropping", "closing"} \cup Tracked
Sessions == {"none", "live", "paused", "terminating", "orphan",
             "succeeded", "failed", "interrupted", "terminated"}
Statuses == Terminal \cup NonTerminal
Cleanups == {Idle} \cup [stage : {"admitted"}, run : Runs]
                   \cup [stage : {"removing"}, run : Runs, recovery : BOOLEAN]

\* A run whose record claims it is prepared or running, one whose record already
\* holds its worktree, and one with a child process.
Claimed == {"pending", "launching", "authorized", "spawned", "aborting", "unsaved", "running"}
Held == Claimed \ {"pending", "launching"}
WithProcess == Held \ {"authorized"}
Unsaved == {"preparing", "targeted", "releasing"}

Recorded(r) == store[r] # NoRecord
Planned(r) == plan[r] # NoPlan
Holds(r) == Recorded(r) /\ store[r].authority = "owned" /\ store[r].superseded = NoRun
InWorktree(r, w) == Recorded(r) /\ store[r].worktree = w

\* Every variable keeps its shape.
Typed ==
  /\ store \in [Runs -> Records \cup {NoRecord}]
  /\ plan \in [Runs -> Plans \cup {NoPlan}]
  /\ op \in [Runs -> Stages]
  /\ session \in [Runs -> Sessions]
  /\ active \subseteq Runs /\ stale \subseteq Runs /\ shut \subseteq Runs
  /\ worktree \in [Runs -> {"none", "intact", "partial", "gone"}]
  /\ changed \in [Runs -> BOOLEAN]
  /\ stops \in [Owners -> {"none", "draining", "stopping", "awaiting"}]
  /\ paused \in BOOLEAN
  /\ mutation \in {"none", "delete", "quit"}
  /\ closing \in {"none", "draining", "stopping", "closed"}
  /\ cleanup \in Cleanups
  /\ faults \in Nat /\ restarts \in Nat

\* How the stage of an operation, its plan, its session and #active belong together.
PhaseOK ==
  \A r \in Runs :
    /\ op[r] = "idle" => ~Planned(r)
    /\ op[r] \notin {"idle", "over"} => Planned(r)
    /\ session[r] # "none" => Planned(r)
    /\ r \in active <=> op[r] \in {"running", "unsaved"}
    /\ Alive(r) \/ Exited(r) <=> op[r] \in WithProcess
    /\ session[r] = "orphan" => op[r] = "over"
    /\ op[r] \in {"idle"} \cup Unsaved => ~Recorded(r)
    /\ op[r] \in Removing => OwnsWorktreeCleanup(r)
    /\ op[r] = "unsaved" => faults # 0

\* A launch works in a worktree of its own, a resume in its parent's.
PlanOK ==
  \A r \in Runs :
    /\ ~Planned(r) /\ Recorded(r) => store[r].worktree = r
    /\ Planned(r) =>
         /\ plan[r].action = "launch" => Target(r) = r
         /\ plan[r].action = "resume" => Target(r) # r /\ plan[r].parent \in Runs
         /\ Recorded(r) => store[r].worktree = Target(r)
         /\ plan[r].action = "resume" /\ op[r] \in {"preparing", "targeted", "pending", "launching"}
              => InWorktree(plan[r].parent, Target(r))

\* What the record of a run says at each stage of its operation.
RecordOK ==
  \A r \in Runs :
    /\ op[r] \in Claimed => Recorded(r) /\ store[r].status \in NonTerminal
                                        /\ store[r].superseded = NoRun
    /\ op[r] \in Held \/ (op[r] \in Claimed /\ plan[r].action = "launch")
         => Holds(r) /\ store[r].wstate = "active"
    /\ op[r] = "failing" /\ faults = 0
         => Recorded(r) /\ store[r].status \in NonTerminal /\ store[r].wstate = "cleanup-pending"
    /\ op[r] \in Removing \ {"releasing", "failing"} /\ Recorded(r)
         => store[r].status \in {"terminated", "lost"}
    /\ Recorded(r) /\ store[r].wstate = "cleanup-pending" => Holds(r)

\* At most one record holds a worktree.
OneHolder ==
  \A r, s \in Runs : r # s /\ Holds(r) /\ Holds(s) => store[r].worktree # store[s].worktree

\* Nobody else has to do with the worktree named after a run whose own operation
\* has not settled; a refused write may let a run be resumed before that.
Unsettled(w) ==
  op[w] \in {"idle"} \cup Unsaved \cup Claimed \/ (op[w] \in Removing /\ faults = 0)
Private ==
  \A w, s \in Runs : w # s /\ Unsettled(w) =>
    ~InWorktree(s, w) /\ (Planned(s) => Target(s) # w)

\* A process that outlived the application keeps everyone else out: its run is
\* lost for good, or all records of its worktree are deleted and none comes back.
OrphanOK ==
  \A r \in Runs : session[r] = "orphan" =>
    /\ Recorded(r) => Holds(r) /\ store[r].status = "lost"
    /\ ~Recorded(r) => \A s \in Runs :
         /\ ~InWorktree(s, Target(r))
         /\ op[s] \in {"preparing", "targeted"} => Target(s) # Target(r)

\* The worktree under a session is whole as long as nothing was refused.
WorktreeOK ==
  \A r \in Runs : faults = 0 /\ op[r] \in Held => worktree[Target(r)] = "intact"

\* What is closed to newcomers while a mutation, a cleanup or a stop goes on.
ControlOK ==
  /\ closing # "none" => mutation # "none"
  /\ mutation # "none" => paused /\ cleanup = Idle
  /\ cleanup # Idle => /\ paused /\ cleanup.run \in Runs /\ Recorded(cleanup.run)
                       /\ \A r \in Runs : op[r] \notin Tracked \cup {"pending", "running"}
  /\ closing = "stopping" =>
       /\ active \subseteq shut
       /\ \A r \in Runs : op[r] \in {"idle", "over", "dropping", "closing", "running"}
  /\ closing = "closed" => \A r \in Runs : op[r] \in {"idle", "over", "dropping"}
  /\ \A r \in shut : closing = "stopping" /\ Recorded(r) /\ session[r] # "orphan"
  /\ \A o \in Owners : stops[o] \in {"stopping", "awaiting"} =>
       \A r \in Runs : Planned(r) /\ plan[r].owner = o => op[r] \notin Tracked \ {"expiring"}

RunsInv ==
  /\ Typed /\ PhaseOK /\ PlanOK /\ RecordOK /\ OneHolder /\ Private /\ OrphanOK
  /\ OneSessionPerWorktree /\ WorktreeOK /\ CleanedIsGone /\ NoFictionalRun /\ ControlOK
Stores == [Runs -> Records \cup {NoRecord}]
Wstates == {"active", "cleanup-pending", "cleaned"}

\* t is the record s with its status and its worktree state replaced.
Updated(s, t, status, wstate) ==
  /\ t \in Records /\ t # NoRecord /\ t.status = status /\ t.wstate = wstate
  /\ t.superseded = s.superseded /\ t.worktree = s.worktree /\ t.authority = s.authority

USE AgentRunsAssumption
    DEF Recorded, Planned, Holds, InWorktree, Target, OwnsWorktreeCleanup, Alive, Exited, Become,
        Claimed, Held, WithProcess, Unsaved, Removing, Tracked, Preparing, Launching, Terminal,
        NonTerminal, runtime, disk, control, bounds, vars

-----------------------------------------------------------------------------
(* What the operators on the run history do.                               *)

\* A record is never taken for the missing one, and its fields have their types.
LEMMA RecordKinds ==
  \A x \in Records : /\ x # NoRecord /\ x.status \in Statuses /\ x.wstate \in Wstates
                     /\ x.worktree \in Runs
  BY DEF Records, NoRecord, Statuses, Wstates

\* A plan is a launch of its own or a resume, in some worktree.
LEMMA PlanKinds ==
  ASSUME Typed, NEW r \in Runs, Planned(r)
  PROVE  /\ plan[r].action = "launch" <=> OwnsWorktreeCleanup(r)
         /\ Target(r) \in Runs /\ plan[r].owner \in Owners
  BY DEF Typed, Plans, NoPlan

\* Writing a status or a worktree state leaves the rest of a record alone.
LEMMA UpdatedRecords ==
  ASSUME NEW s \in Records, NEW st \in Statuses, NEW w \in Wstates
  PROVE  /\ Updated(s, [s EXCEPT !.status = st], st, s.wstate)
         /\ Updated(s, [s EXCEPT !.wstate = w], s.status, w)
         /\ Updated(s, [s EXCEPT !.status = st, !.wstate = w], st, w)
  <1>1. \A x \in Records : Updated(x, [x EXCEPT !.status = st], st, x.wstate)
    BY RecordKinds DEF Updated, Records, Statuses
  <1>2. \A x \in Records : Updated(x, [x EXCEPT !.wstate = w], x.status, w)
    BY RecordKinds DEF Updated, Records, Wstates
  <1>3. Updated(s, [[s EXCEPT !.status = st] EXCEPT !.wstate = w], st, w)
    BY <1>1, <1>2 DEF Updated
  <1>4. QED BY <1>1, <1>2, <1>3

\* saveStatus writes the status of the given runs and nothing else.
LEMMA SaveStatusUpdates ==
  ASSUME NEW s \in Stores, NEW S \in SUBSET Runs, NEW st \in Statuses,
         \A r \in S : s[r] # NoRecord
  PROVE  LET t == saveStatus(s, S, st) IN
         /\ t \in Stores
         /\ \A r \in Runs : IF r \in S THEN Updated(s[r], t[r], st, s[r].wstate) ELSE t[r] = s[r]
  <1> DEFINE t == saveStatus(s, S, st)
  <1>1. \A r \in S : Updated(s[r], t[r], st, s[r].wstate)
    <2> TAKE r \in S
    <2>1. s[r] \in Records /\ s[r].wstate \in Wstates
      BY RecordKinds DEF Stores
    <2>2. QED BY <2>1, UpdatedRecords DEF saveStatus
  <1>2. \A r \in Runs \ S : t[r] = s[r]
    BY DEF saveStatus
  <1>3. t \in Stores
    BY <1>1, <1>2 DEF Stores, Updated, saveStatus
  <1>4. QED BY <1>1, <1>2, <1>3

\* The same for a single run.
LEMMA SaveOneUpdates ==
  ASSUME NEW s \in Stores, NEW r \in Runs, NEW st \in Statuses, s[r] # NoRecord
  PROVE  LET t == saveStatus(s, {r}, st) IN
         /\ t \in Stores /\ Updated(s[r], t[r], st, s[r].wstate)
         /\ \A x \in Runs \ {r} : t[x] = s[x]
  <1> DEFINE t == saveStatus(s, {r}, st)
  <1>1. {r} \in SUBSET Runs /\ \A x \in {r} : s[x] # NoRecord
    OBVIOUS
  <1>2. /\ t \in Stores
        /\ \A x \in Runs : IF x \in {r} THEN Updated(s[x], t[x], st, s[x].wstate) ELSE t[x] = s[x]
    BY <1>1, SaveStatusUpdates
  <1> HIDE DEF t
  <1>3. QED BY <1>2 DEF t

\* transitionRunWorktreeState moves the run; 'cleaned' moves its whole worktree.
LEMMA TransitionUpdates ==
  ASSUME NEW s \in Stores, NEW r \in Runs, s[r] # NoRecord, NEW next \in Wstates
  PROVE  LET t == transitionRunWorktreeState(s, r, next) IN
         /\ t \in Stores
         /\ \A x \in Runs :
              IF x = r \/ (next = "cleaned" /\ s[x] # NoRecord /\ s[x].worktree = s[r].worktree)
              THEN Updated(s[x], t[x], s[x].status, next) ELSE t[x] = s[x]
  <1> DEFINE t == transitionRunWorktreeState(s, r, next)
             hit(x) == x = r \/ (next = "cleaned" /\ s[x] # NoRecord /\ s[x].worktree = s[r].worktree)
  <1>1. \A x \in Runs : hit(x) => s[x] \in Records
    BY DEF Stores
  <1>2. \A x \in Runs : IF hit(x) THEN Updated(s[x], t[x], s[x].status, next) ELSE t[x] = s[x]
    BY <1>1, UpdatedRecords, RecordKinds DEF transitionRunWorktreeState
  <1>3. t \in Stores
    BY <1>2 DEF Stores, Updated, transitionRunWorktreeState
  <1>4. QED BY <1>2, <1>3

\* Giving plans up saves their status and declares the worktrees to be going that
\* were provisioned for them.
LEMMA GivenUpUpdates ==
  ASSUME NEW s \in Stores, NEW S \in SUBSET Runs, NEW st \in Statuses,
         \A r \in S : s[r] # NoRecord
  PROVE  LET t == GivenUp(s, S, st) IN
         /\ t \in Stores
         /\ \A r \in Runs :
              IF r \in S
              THEN Updated(s[r], t[r], st,
                           IF OwnsWorktreeCleanup(r) THEN "cleanup-pending" ELSE s[r].wstate)
              ELSE t[r] = s[r]
  <1> DEFINE t == GivenUp(s, S, st)
             ws(r) == IF OwnsWorktreeCleanup(r) THEN "cleanup-pending" ELSE s[r].wstate
  <1>1. \A r \in S : Updated(s[r], t[r], st, ws(r))
    <2> TAKE r \in S
    <2>1. s[r] \in Records /\ s[r].wstate \in Wstates
      BY RecordKinds DEF Stores
    <2>2. CASE OwnsWorktreeCleanup(r)
      BY <2>1, <2>2, UpdatedRecords DEF GivenUp, Wstates
    <2>3. CASE ~OwnsWorktreeCleanup(r)
      BY <2>1, <2>3, UpdatedRecords DEF GivenUp
    <2>4. QED BY <2>2, <2>3
  <1>2. \A r \in Runs \ S : t[r] = s[r]
    BY DEF GivenUp
  <1>3. t \in Stores
    BY <1>1, <1>2 DEF Stores, Updated, GivenUp
  <1>4. QED BY <1>1, <1>2, <1>3

\* The same for a single plan.
LEMMA GiveUpOneUpdates ==
  ASSUME NEW s \in Stores, NEW r \in Runs, NEW st \in Statuses, s[r] # NoRecord
  PROVE  LET t == GivenUp(s, {r}, st) IN
         /\ t \in Stores
         /\ \A x \in Runs \ {r} : t[x] = s[x]
         /\ IF OwnsWorktreeCleanup(r) THEN Updated(s[r], t[r], st, "cleanup-pending")
                                      ELSE Updated(s[r], t[r], st, s[r].wstate)
  <1> DEFINE t == GivenUp(s, {r}, st)
             ws(x) == IF OwnsWorktreeCleanup(x) THEN "cleanup-pending" ELSE s[x].wstate
  <1>1. {r} \in SUBSET Runs /\ \A x \in {r} : s[x] # NoRecord
    OBVIOUS
  <1>2. /\ t \in Stores
        /\ \A x \in Runs : IF x \in {r} THEN Updated(s[x], t[x], st, ws(x)) ELSE t[x] = s[x]
    BY <1>1, GivenUpUpdates
  <1> HIDE DEF t
  <1>3. QED BY <1>2 DEF t

\* Authority moves from the parent to the run: the parent is superseded, the run owns.
LEMMA TransferUpdates ==
  ASSUME NEW r \in Runs, store \in Stores, store[r] \in Records,
         plan[r].parent \in Runs \ {r}, store[plan[r].parent] \in Records
  PROVE  LET p == plan[r].parent
             t == transferRunWorktreeAuthority(r)
         IN /\ t \in Stores /\ t[r] # NoRecord /\ t[p] # NoRecord
            /\ \A x \in Runs \ {r, p} : t[x] = store[x]
            /\ t[p].superseded = r /\ t[p].authority = store[p].authority
            /\ t[r].superseded = store[r].superseded /\ t[r].authority = "owned"
            /\ \A x \in {r, p} : /\ t[x].status = store[x].status
                                 /\ t[x].worktree = store[x].worktree
                                 /\ t[x].wstate = store[x].wstate
  <1> DEFINE p == plan[r].parent
             t == transferRunWorktreeAuthority(r)
  <1>1. \A x \in Records : [x EXCEPT !.superseded = r] \in Records
                        /\ [x EXCEPT !.authority = "owned"] \in Records
    BY DEF Records
  <1>2. /\ t[p] = [store[p] EXCEPT !.superseded = r]
        /\ t[r] = [store[r] EXCEPT !.authority = "owned"]
        /\ \A x \in Runs \ {r, p} : t[x] = store[x]
        /\ t = [x \in Runs |-> t[x]]
    BY DEF transferRunWorktreeAuthority, Stores
  <1> HIDE DEF t
  <1>3. t[p] \in Records /\ t[r] \in Records /\ t[p] # NoRecord /\ t[r] # NoRecord
    BY <1>1, <1>2, RecordKinds
  <1>4. t \in Stores
    <2>1. \A x \in Runs : t[x] \in Records \cup {NoRecord}
      BY <1>2, <1>3 DEF Stores
    <2>2. QED BY <1>2, <2>1, Zenon DEF Stores
  <1>5. t[p].superseded = r /\ t[p].authority = store[p].authority /\ t[p].status = store[p].status
        /\ t[p].worktree = store[p].worktree /\ t[p].wstate = store[p].wstate
    BY <1>2 DEF Records
  <1>6. t[r].superseded = store[r].superseded /\ t[r].authority = "owned" /\ t[r].status = store[r].status
        /\ t[r].worktree = store[r].worktree /\ t[r].wstate = store[r].wstate
    BY <1>2 DEF Records
  <1>7. QED BY <1>2, <1>3, <1>4, <1>5, <1>6 DEF t

\* The recovery of a start turns every unfinished record into a lost one.
LEMMA RecoveryUpdates ==
  ASSUME NEW s \in Stores
  PROVE  LET t == recoverInterruptedRuns(s) IN
         /\ t \in Stores
         /\ \A r \in Runs : IF s[r].status \in NonTerminal
                            THEN Updated(s[r], t[r], "lost", s[r].wstate) ELSE t[r] = s[r]
  <1> DEFINE t == recoverInterruptedRuns(s)
  <1>1. \A r \in Runs : s[r].status \in NonTerminal => Updated(s[r], t[r], "lost", s[r].wstate)
    <2> SUFFICES ASSUME NEW r \in Runs, s[r].status \in NonTerminal
                 PROVE  Updated(s[r], t[r], "lost", s[r].wstate)
      OBVIOUS
    <2>1. s[r] \in Records /\ s[r].wstate \in Wstates
      BY RecordKinds DEF Stores, NoRecord
    <2>2. QED BY <2>1, UpdatedRecords DEF recoverInterruptedRuns, Statuses
  <1>2. \A r \in Runs : s[r].status \notin NonTerminal => t[r] = s[r]
    BY DEF recoverInterruptedRuns
  <1>3. t \in Stores
    BY <1>1, <1>2 DEF Stores, Updated, recoverInterruptedRuns
  <1>4. QED BY <1>1, <1>2, <1>3

\* The first writes of a failed launch: a resume fails at once, a launch of its own
\* declares its worktree to be going.
LEMMA LaunchFailureUpdates ==
  ASSUME NEW s \in Stores, NEW r \in Runs, s[r] # NoRecord
  PROVE  LET t == launchFailureSaved(s, r) IN
         /\ t \in Stores
         /\ \A x \in Runs : x # r => t[x] = s[x]
         /\ IF OwnsWorktreeCleanup(r) THEN Updated(s[r], t[r], s[r].status, "cleanup-pending")
                                      ELSE Updated(s[r], t[r], "failed", s[r].wstate)
  <1>1. CASE OwnsWorktreeCleanup(r)
    BY <1>1, TransitionUpdates DEF launchFailureSaved, Wstates
  <1>2. CASE ~OwnsWorktreeCleanup(r)
    <2>1. PICK st \in Statuses : st = "failed"
      BY DEF Statuses
    <2>2. launchFailureSaved(s, r) = saveStatus(s, {r}, st)
      BY <1>2, <2>1 DEF launchFailureSaved
    <2>3. LET t == saveStatus(s, {r}, st) IN
          /\ t \in Stores /\ Updated(s[r], t[r], st, s[r].wstate)
          /\ \A x \in Runs \ {r} : t[x] = s[x]
      BY SaveOneUpdates
    <2>4. QED BY <1>2, <2>1, <2>2, <2>3
  <1>3. QED BY <1>1, <1>2

\* How the removal of a provisioned worktree is settled in the history.
LEMMA RemovalSettlesUpdates ==
  ASSUME Typed, NEW r \in Runs, NEW next \in {"active", "cleaned"}, RemovalSettles(r, next)
  PROVE  /\ store' \in Stores
         /\ IF ~Recorded(r) \/ store[r].wstate # "cleanup-pending" THEN store' = store
            ELSE /\ Updated(store[r], store'[r],
                            IF op[r] = "failing" THEN "failed" ELSE store[r].status, next)
                 /\ \A x \in Runs \ {r} :
                      IF next = "cleaned" /\ InWorktree(x, store[r].worktree)
                      THEN Updated(store[x], store'[x], store[x].status, "cleaned")
                      ELSE store'[x] = store[x]
  <1>1. store \in Stores
    BY DEF Typed, Stores
  <1>2. CASE ~Recorded(r) \/ store[r].wstate # "cleanup-pending"
    BY <1>1, <1>2 DEF RemovalSettles
  <1>3. CASE Recorded(r) /\ store[r].wstate = "cleanup-pending"
    <2> DEFINE t == transitionRunWorktreeState(store, r, next)
               st == IF op[r] = "failing" THEN "failed" ELSE store[r].status
    <2>1. /\ t \in Stores
          /\ \A x \in Runs :
               IF x = r \/ (next = "cleaned" /\ InWorktree(x, store[r].worktree))
               THEN Updated(store[x], t[x], store[x].status, next) ELSE t[x] = store[x]
      BY <1>1, <1>3, TransitionUpdates DEF Wstates
    <2>2. st \in Statuses /\ t[r] # NoRecord
      BY <1>1, <1>3, <2>1, RecordKinds DEF Stores, Updated, Statuses
    <2>3. store' = saveStatus(t, {r}, st)
      BY <1>3 DEF RemovalSettles
    <2> HIDE DEF t, st
    <2>4. /\ store' \in Stores
          /\ Updated(t[r], store'[r], st, t[r].wstate)
          /\ \A x \in Runs \ {r} : store'[x] = t[x]
      BY <2>1, <2>2, <2>3, SaveOneUpdates
    <2>5. Updated(store[r], store'[r], st, next)
      BY <2>1, <2>4, <1>3 DEF Updated
    <2>6. QED BY <1>3, <2>1, <2>4, <2>5 DEF st
  <1>4. QED BY <1>2, <1>3

-----------------------------------------------------------------------------
(* Steps that admit nobody.                                                *)

\* What a step does to the runs it does not work on.
OnlyMoves(r) ==
  \A x \in Runs \ {r} :
    /\ op'[x] = op[x] /\ store'[x] = store[x] /\ session'[x] = session[x]
    /\ x \in active' <=> x \in active

\* A step that plans nothing, starts no process, creates and deletes no record and
\* leaves the authority over every worktree where it is.
Onward ==
  /\ plan' = plan
  /\ \A x \in Runs :
       /\ Recorded(x)' <=> Recorded(x)
       /\ Recorded(x) => /\ store'[x].worktree = store[x].worktree
                         /\ store'[x].authority = store[x].authority
                         /\ store'[x].superseded = store[x].superseded
                         /\ session[x] = "orphan" => store'[x].status = store[x].status
       /\ session'[x] = "orphan" => session[x] = "orphan"
       /\ Alive(x)' => Alive(x)
       /\ op'[x] \in {"preparing", "targeted"} => op[x] \in {"preparing", "targeted"}
       /\ op'[x] \in {"pending", "launching"} => op[x] \in {"pending", "launching"}
       /\ Unsettled(x)' => Unsettled(x)

\* Such a step keeps everything that is said about who works in which worktree.
LEMMA OnwardKeeps ==
  ASSUME RunsInv, Onward
  PROVE  PlanOK' /\ OneHolder' /\ Private' /\ OrphanOK' /\ OneSessionPerWorktree'
  <1>1. PlanOK'
    <2> SUFFICES ASSUME NEW r \in Runs
                 PROVE  /\ ~Planned(r) /\ Recorded(r)' => store'[r].worktree = r
                        /\ Planned(r) =>
                             /\ plan[r].action = "launch" => Target(r) = r
                             /\ plan[r].action = "resume" => Target(r) # r /\ plan[r].parent \in Runs
                             /\ Recorded(r)' => store'[r].worktree = Target(r)
                             /\ (/\ plan[r].action = "resume"
                                 /\ op'[r] \in {"preparing", "targeted", "pending", "launching"})
                                => InWorktree(plan[r].parent, Target(r))'
      BY DEF PlanOK, Onward
    <2>1. ~Planned(r) /\ Recorded(r) => store[r].worktree = r
      BY DEF RunsInv, PlanOK
    <2>2. Planned(r) => /\ plan[r].action = "launch" => Target(r) = r
                        /\ plan[r].action = "resume" => Target(r) # r /\ plan[r].parent \in Runs
                        /\ Recorded(r) => store[r].worktree = Target(r)
      BY DEF RunsInv, PlanOK
    <2>3. ASSUME Planned(r), plan[r].action = "resume",
                 op'[r] \in {"preparing", "targeted", "pending", "launching"}
          PROVE  InWorktree(plan[r].parent, Target(r)) /\ plan[r].parent \in Runs
      BY <2>3 DEF RunsInv, PlanOK, Onward
    <2>4. QED BY <2>1, <2>2, <2>3 DEF Onward
  <1>2. OneHolder'
    BY DEF RunsInv, OneHolder, Onward
  <1>3. Private'
    <2> SUFFICES ASSUME NEW w \in Runs, NEW s \in Runs, w # s, Unsettled(w)
                 PROVE  ~InWorktree(s, w)' /\ (Planned(s)' => Target(s)' # w)
      BY DEF Private, Onward
    <2> QED BY DEF RunsInv, Private, Onward
  <1>4. OrphanOK'
    BY DEF RunsInv, OrphanOK, Onward
  <1>5. OneSessionPerWorktree'
    BY DEF RunsInv, OneSessionPerWorktree, Onward
  <1>6. QED BY <1>1, <1>2, <1>3, <1>4, <1>5

\* A step that leaves runs, records, sessions and worktrees alone keeps all of it.
LEMMA QuietStepKeeps ==
  ASSUME RunsInv, UNCHANGED <<store, plan, op, session, active, worktree, faults>>
  PROVE  /\ PhaseOK' /\ PlanOK' /\ RecordOK' /\ OneHolder' /\ Private' /\ OrphanOK'
         /\ OneSessionPerWorktree' /\ WorktreeOK' /\ CleanedIsGone' /\ NoFictionalRun'
  <1>1. PhaseOK' /\ PlanOK' /\ RecordOK'
    BY DEF RunsInv, PhaseOK, PlanOK, RecordOK
  <1>2. OneHolder' /\ Private' /\ OrphanOK' /\ OneSessionPerWorktree'
    BY DEF RunsInv, OneHolder, Private, Unsettled, OrphanOK, OneSessionPerWorktree
  <1>3. WorktreeOK' /\ CleanedIsGone' /\ NoFictionalRun'
    BY DEF RunsInv, WorktreeOK, CleanedIsGone, NoFictionalRun
  <1>4. QED BY <1>1, <1>2, <1>3

\* No plan and no launch is admitted by the step.
AdmitsNone ==
  /\ plan' = plan
  /\ \A x \in Runs :
       /\ op'[x] \in {"pending"} \cup Preparing => op[x] \in {"pending"} \cup Preparing
       /\ x \in active' \/ op'[x] \in Launching => x \in active \/ op[x] \in Launching

-----------------------------------------------------------------------------
(* Every action keeps RunsInv.                                             *)

\* A plan is admitted; the parent of a resume is interrupted and holds its worktree.
LEMMA PrepareKeeps ==
  ASSUME RunsInv, NEW r \in Runs, NEW o \in Owners, NEW a \in {"launch", "resume", "retry"},
         NEW p \in Runs \cup {NoRun}, Prepare(r, o, a, p)
  PROVE  RunsInv'
  <1>1. /\ OnlyMoves(r) /\ op[r] = "idle" /\ op'[r] = "preparing" /\ ~paused /\ stops[o] = "none"
        /\ UNCHANGED <<store, session, active, stale, worktree, changed, stops, paused, mutation,
                       closing, shut, cleanup, faults, restarts>>
    BY DEF RunsInv, Typed, Prepare, OnlyMoves
  <1>2. /\ plan' \in [Runs -> Plans \cup {NoPlan}] /\ op' \in [Runs -> Stages]
        /\ \A x \in Runs \ {r} : plan'[x] = plan[x]
        /\ Planned(r)' /\ plan'[r].owner = o
        /\ \/ plan'[r].action = "launch" /\ Target(r)' = r
           \/ /\ plan'[r].action = "resume" /\ p \in Runs /\ plan'[r].parent = p
              /\ Recorded(p) /\ Target(r)' = store[p].worktree
              /\ Holds(p) /\ store[p].status = "interrupted"
    BY RecordKinds DEF RunsInv, Typed, Prepare, requireContinuationParent, Plans, NoPlan, Records,
       Stages
  <1>3. Typed'
    BY <1>1, <1>2 DEF RunsInv, Typed, Stores
  <1>4. PhaseOK'
    BY <1>1, <1>2 DEF RunsInv, Typed, PhaseOK, OnlyMoves
  <1>5. PlanOK'
    BY <1>1, <1>2 DEF RunsInv, Typed, PhaseOK, PlanOK, OnlyMoves, Private, Unsettled
  <1>6. RecordOK'
    BY <1>1, <1>2 DEF RunsInv, Typed, RecordOK, OnlyMoves
  <1>7. OneHolder'
    BY <1>1, <1>2 DEF RunsInv, Typed, OneHolder, OnlyMoves
  <1>8. Private'
    BY <1>1, <1>2 DEF RunsInv, Typed, PhaseOK, PlanOK, RecordOK, Private, Unsettled, OnlyMoves
  <1>9. OrphanOK'
    BY <1>1, <1>2 DEF RunsInv, Typed, PhaseOK, PlanOK, RecordOK, Private, OrphanOK, ControlOK,
       Unsettled, OnlyMoves
  <1>10. OneSessionPerWorktree'
    BY <1>1, <1>2 DEF RunsInv, Typed, PhaseOK, OneSessionPerWorktree, OnlyMoves
  <1>11. WorktreeOK'
    BY <1>1, <1>2 DEF RunsInv, Typed, WorktreeOK, OnlyMoves
  <1>12. CleanedIsGone'
    BY <1>1, <1>2 DEF RunsInv, Typed, CleanedIsGone, OnlyMoves
  <1>13. NoFictionalRun'
    BY <1>1, <1>2 DEF RunsInv, Typed, NoFictionalRun, OnlyMoves
  <1>14. ControlOK'
    BY <1>1, <1>2 DEF RunsInv, Typed, ControlOK, OnlyMoves
  <1>15. QED BY <1>3, <1>4, <1>5, <1>6, <1>7, <1>8, <1>9, <1>10, <1>11, <1>12, <1>13, <1>14
         DEF RunsInv

\* A worktree is provisioned for a run that has none, or the parent's is found.
LEMMA ChooseTargetKeeps ==
  ASSUME RunsInv, NEW r \in Runs, ChooseTarget(r)
  PROVE  RunsInv' /\ AdmitsNone
  <1>1. /\ OnlyMoves(r) /\ op[r] = "preparing" /\ op'[r] = "targeted" /\ op' \in [Runs -> Stages]
        /\ worktree' = worktree \/ worktree' = [worktree EXCEPT ![r] = "intact"]
        /\ UNCHANGED <<store, plan, session, active, stale, changed, stops, paused, mutation,
                       closing, shut, cleanup, faults, restarts>>
    BY DEF RunsInv, Typed, Stages, ChooseTarget, OnlyMoves
  <1>2. Onward
    BY <1>1 DEF RunsInv, Typed, PhaseOK, RecordOK, Onward, Unsettled, OnlyMoves
  <1>3. PlanOK' /\ OneHolder' /\ Private' /\ OrphanOK' /\ OneSessionPerWorktree'
    BY <1>2, OnwardKeeps
  <1>4. Typed'
    BY <1>1 DEF RunsInv, Typed, Stores
  <1>5. PhaseOK'
    BY <1>1 DEF RunsInv, Typed, PhaseOK, OnlyMoves
  <1>6. RecordOK'
    BY <1>1 DEF RunsInv, Typed, RecordOK, OnlyMoves
  <1>7. WorktreeOK'
    BY <1>1, PlanKinds DEF RunsInv, Typed, PhaseOK, PlanOK, RecordOK, Private, WorktreeOK,
       ControlOK, Unsettled, OnlyMoves
  <1>8. CleanedIsGone'
    BY <1>1, RecordKinds DEF RunsInv, Typed, PhaseOK, PlanOK, RecordOK, Private, CleanedIsGone,
       Unsettled, OnlyMoves
  <1>9. NoFictionalRun'
    BY <1>1 DEF RunsInv, Typed, NoFictionalRun, OnlyMoves
  <1>10. ControlOK'
    BY <1>1 DEF RunsInv, Typed, ControlOK, OnlyMoves
  <1>11. AdmitsNone
    BY <1>1 DEF RunsInv, Typed, PhaseOK, AdmitsNone, OnlyMoves
  <1>12. QED BY <1>3, <1>4, <1>5, <1>6, <1>7, <1>8, <1>9, <1>10, <1>11 DEF RunsInv

\* The record of a launch holds its own, still private worktree.
LEMMA SavePlanKeeps ==
  ASSUME RunsInv, NEW r \in Runs, SavePlan(r)
  PROVE  RunsInv' /\ AdmitsNone
  <1>1. /\ OnlyMoves(r) /\ op[r] = "targeted" /\ op'[r] = "pending" /\ op' \in [Runs -> Stages]
        /\ Planned(r) /\ UNCHANGED <<plan, session, active, stale, worktree, changed, stops,
                                     paused, mutation, closing, shut, cleanup, faults, restarts>>
    BY DEF RunsInv, Typed, PhaseOK, Stages, SavePlan, OnlyMoves
  <1>2. /\ store' \in Stores /\ Recorded(r)' /\ store'[r] = Prepared(r)
    BY <1>1 DEF RunsInv, Typed, SavePlan, Prepared, Stores, Records, Plans, NoRecord
  <1>3. /\ store'[r].status = "prepared" /\ store'[r].superseded = NoRun /\ store'[r].wstate = "active"
        /\ store'[r].worktree = Target(r)
        /\ store'[r].authority = IF plan[r].action = "resume" THEN "pending-transfer" ELSE "owned"
    BY <1>2 DEF Prepared
  <1>4. Typed'
    BY <1>1, <1>2, <1>3 DEF RunsInv, Typed, Stores
  <1>5. PhaseOK'
    BY <1>1, <1>2, <1>3 DEF RunsInv, Typed, PhaseOK, OnlyMoves
  <1>6. PlanOK'
    BY <1>1, <1>2, <1>3 DEF RunsInv, Typed, PlanOK, OnlyMoves
  <1>7. RecordOK'
    BY <1>1, <1>2, <1>3, PlanKinds DEF RunsInv, Typed, PhaseOK, PlanOK, RecordOK, OneHolder,
       OnlyMoves
  <1>8. OneHolder'
    BY <1>1, <1>2, <1>3, PlanKinds DEF RunsInv, Typed, PhaseOK, PlanOK, RecordOK, OneHolder,
       Private, OnlyMoves, Unsettled
  <1>9. Private'
    BY <1>1, <1>2, <1>3 DEF RunsInv, Typed, Private, Unsettled, OnlyMoves
  <1>10. OrphanOK'
    BY <1>1, <1>2, <1>3 DEF RunsInv, Typed, PhaseOK, OrphanOK, OnlyMoves
  <1>11. OneSessionPerWorktree'
    BY <1>1, <1>2, <1>3 DEF RunsInv, Typed, OneSessionPerWorktree, OnlyMoves
  <1>12. WorktreeOK'
    BY <1>1, <1>2, <1>3 DEF RunsInv, Typed, WorktreeOK, OnlyMoves
  <1>13. CleanedIsGone'
    BY <1>1, <1>2, <1>3 DEF RunsInv, Typed, CleanedIsGone, OnlyMoves
  <1>14. NoFictionalRun'
    BY <1>1, <1>2, <1>3 DEF RunsInv, Typed, NoFictionalRun, OnlyMoves
  <1>15. ControlOK'
    BY <1>1, <1>2, <1>3 DEF RunsInv, Typed, ControlOK, OnlyMoves
  <1>16. AdmitsNone
    BY <1>1, <1>2, <1>3 DEF RunsInv, Typed, PhaseOK, AdmitsNone, OnlyMoves
  <1>17. QED BY <1>4, <1>5, <1>6, <1>7, <1>8, <1>9, <1>10, <1>11, <1>12, <1>13, <1>14, <1>15,
          <1>16 DEF RunsInv

\* A preparation that fails leaves no record.
LEMMA PrepareFailsKeeps ==
  ASSUME RunsInv, NEW r \in Runs, PrepareFails(r)
  PROVE  RunsInv' /\ AdmitsNone
  <1>1. /\ OnlyMoves(r) /\ op[r] \in {"preparing", "targeted"} /\ op' \in [Runs -> Stages]
        /\ op'[r] = "over" \/ (op'[r] = "releasing" /\ OwnsWorktreeCleanup(r))
        /\ UNCHANGED <<store, plan, session, active, stale, worktree, changed, stops, paused,
                       mutation, closing, shut, cleanup, faults, restarts>>
    BY DEF RunsInv, Typed, Stages, PrepareFails, OnlyMoves
  <1>2. Onward
    BY <1>1 DEF RunsInv, Typed, PhaseOK, RecordOK, Onward, Unsettled, OnlyMoves
  <1>3. PlanOK' /\ OneHolder' /\ Private' /\ OrphanOK' /\ OneSessionPerWorktree'
    BY <1>2, OnwardKeeps
  <1>4. Typed'
    BY <1>1 DEF RunsInv, Typed, Stores
  <1>5. PhaseOK'
    BY <1>1 DEF RunsInv, Typed, PhaseOK, OnlyMoves
  <1>6. RecordOK'
    BY <1>1 DEF RunsInv, Typed, RecordOK, OnlyMoves
  <1>7. WorktreeOK'
    BY <1>1 DEF RunsInv, Typed, WorktreeOK, OnlyMoves
  <1>8. CleanedIsGone'
    BY <1>1 DEF RunsInv, Typed, CleanedIsGone, OnlyMoves
  <1>9. NoFictionalRun'
    BY <1>1 DEF RunsInv, Typed, NoFictionalRun, OnlyMoves
  <1>10. ControlOK'
    BY <1>1 DEF RunsInv, Typed, ControlOK, OnlyMoves
  <1>11. AdmitsNone
    BY <1>1 DEF RunsInv, Typed, PhaseOK, AdmitsNone, OnlyMoves
  <1>12. QED BY <1>3, <1>4, <1>5, <1>6, <1>7, <1>8, <1>9, <1>10, <1>11 DEF RunsInv

\* A launch is admitted.
LEMMA LaunchKeeps ==
  ASSUME RunsInv, NEW r \in Runs, Launch(r)
  PROVE  RunsInv'
  <1>1. /\ OnlyMoves(r) /\ op[r] = "pending" /\ op'[r] = "launching" /\ op' \in [Runs -> Stages]
        /\ ~paused /\ stops[plan[r].owner] = "none"
        /\ UNCHANGED <<store, plan, session, active, stale, worktree, changed, stops, paused,
                       mutation, closing, shut, cleanup, faults, restarts>>
    BY DEF RunsInv, Typed, Stages, Launch, OnlyMoves, OwnerAccepting
  <1>2. Onward
    BY <1>1 DEF RunsInv, Typed, PhaseOK, RecordOK, Onward, Unsettled, OnlyMoves
  <1>3. PlanOK' /\ OneHolder' /\ Private' /\ OrphanOK' /\ OneSessionPerWorktree'
    BY <1>2, OnwardKeeps
  <1>4. Typed'
    BY <1>1 DEF RunsInv, Typed, Stores
  <1>5. PhaseOK'
    BY <1>1 DEF RunsInv, Typed, PhaseOK, OnlyMoves
  <1>6. RecordOK'
    BY <1>1 DEF RunsInv, Typed, RecordOK, OnlyMoves
  <1>7. WorktreeOK'
    BY <1>1 DEF RunsInv, Typed, WorktreeOK, OnlyMoves
  <1>8. CleanedIsGone'
    BY <1>1 DEF RunsInv, Typed, CleanedIsGone, OnlyMoves
  <1>9. NoFictionalRun'
    BY <1>1 DEF RunsInv, Typed, NoFictionalRun, OnlyMoves
  <1>10. ControlOK'
    BY <1>1 DEF RunsInv, Typed, ControlOK, OnlyMoves
  <1>11. QED BY <1>3, <1>4, <1>5, <1>6, <1>7, <1>8, <1>9, <1>10 DEF RunsInv

\* Authority moves from an interrupted holder to the run that resumes it.
LEMMA AuthorizeKeeps ==
  ASSUME RunsInv, NEW r \in Runs, Authorize(r)
  PROVE  RunsInv' /\ AdmitsNone
  <1>1. /\ op[r] = "launching" /\ op' = [op EXCEPT ![r] = "authorized"] /\ op' \in [Runs -> Stages]
        /\ worktree[Target(r)] = "intact" /\ Recorded(r) /\ Planned(r)
        /\ UNCHANGED <<plan, session, active, stale, worktree, changed, stops, paused, mutation,
                       closing, shut, cleanup, faults, restarts>>
    BY DEF RunsInv, Typed, PhaseOK, RecordOK, Stages, Authorize
  <1>2. /\ store' \in Stores
        /\ IF plan[r].action # "resume" THEN store' = store
           ELSE LET p == plan[r].parent IN
                /\ p \in Runs /\ p # r /\ Holds(p)
                /\ store[p].status = "interrupted" /\ store[p].wstate = "active"
                /\ store[r].wstate = "active"
                /\ Recorded(r)' /\ Recorded(p)'
                /\ \A x \in Runs \ {r, p} : store'[x] = store[x]
                /\ store'[p].superseded = r /\ store'[p].authority = store[p].authority
                /\ store'[r].superseded = store[r].superseded /\ store'[r].authority = "owned"
                /\ \A x \in {r, p} : /\ store'[x].status = store[x].status
                                     /\ store'[x].worktree = store[x].worktree
                                     /\ store'[x].wstate = store[x].wstate
    BY <1>1, TransferUpdates DEF RunsInv, Typed, PlanOK, RecordOK, Stores, Authorize,
       canTransferAuthority
  <1>3. Typed'
    BY <1>1, <1>2 DEF RunsInv, Typed, Stores
  <1>4. PhaseOK'
    BY <1>1, <1>2 DEF RunsInv, Typed, PhaseOK
  <1>5. PlanOK'
    BY <1>1, <1>2 DEF RunsInv, Typed, PlanOK
  <1>6. RecordOK'
    BY <1>1, <1>2, PlanKinds DEF RunsInv, Typed, PhaseOK, PlanOK, RecordOK, OneHolder
  <1>7. OneHolder'
    BY <1>1, <1>2 DEF RunsInv, Typed, PhaseOK, PlanOK, RecordOK, OneHolder, Private
  <1>8. Private'
    BY <1>1, <1>2 DEF RunsInv, Typed, Private, Unsettled
  <1>9. OrphanOK'
    BY <1>1, <1>2 DEF RunsInv, Typed, OrphanOK
  <1>10. OneSessionPerWorktree'
    BY <1>1, <1>2 DEF RunsInv, Typed, OneSessionPerWorktree
  <1>11. WorktreeOK'
    BY <1>1, <1>2 DEF RunsInv, Typed, WorktreeOK
  <1>12. CleanedIsGone'
    BY <1>1, <1>2 DEF RunsInv, Typed, CleanedIsGone
  <1>13. NoFictionalRun'
    BY <1>1, <1>2 DEF RunsInv, Typed, NoFictionalRun
  <1>14. ControlOK'
    BY <1>1, <1>2 DEF RunsInv, Typed, ControlOK
  <1>15. AdmitsNone
    BY <1>1, <1>2 DEF RunsInv, Typed, PhaseOK, AdmitsNone
  <1>16. QED BY <1>3, <1>4, <1>5, <1>6, <1>7, <1>8, <1>9, <1>10, <1>11, <1>12, <1>13, <1>14, <1>15
         DEF RunsInv

\* The process starts under a holder, so nobody else works in the worktree.
LEMMA SpawnKeeps ==
  ASSUME RunsInv, NEW r \in Runs, Spawn(r)
  PROVE  RunsInv' /\ AdmitsNone
  <1>1. /\ OnlyMoves(r) /\ op[r] = "authorized" /\ op'[r] = "spawned" /\ session'[r] = "live"
        /\ op' \in [Runs -> Stages] /\ session' \in [Runs -> Sessions]
        /\ UNCHANGED <<store, plan, active, stale, worktree, changed, stops, paused, mutation,
                       closing, shut, cleanup, faults, restarts>>
    BY DEF RunsInv, Typed, Stages, Sessions, Spawn, OnlyMoves
  <1>2. Typed'
    BY <1>1 DEF RunsInv, Typed, Stores
  <1>3. PhaseOK'
    BY <1>1 DEF RunsInv, Typed, PhaseOK, OnlyMoves
  <1>4. PlanOK'
    BY <1>1 DEF RunsInv, Typed, PlanOK, OnlyMoves
  <1>5. RecordOK'
    BY <1>1 DEF RunsInv, Typed, RecordOK, OnlyMoves
  <1>6. OneHolder'
    BY <1>1 DEF RunsInv, Typed, OneHolder, OnlyMoves
  <1>7. Private'
    BY <1>1 DEF RunsInv, Typed, Private, Unsettled, OnlyMoves
  <1>8. OrphanOK'
    BY <1>1 DEF RunsInv, Typed, OrphanOK, OnlyMoves
  <1>9. OneSessionPerWorktree'
    BY <1>1 DEF RunsInv, Typed, PhaseOK, PlanOK, RecordOK, OneHolder, OrphanOK,
       OneSessionPerWorktree, OnlyMoves
  <1>10. WorktreeOK'
    BY <1>1 DEF RunsInv, Typed, WorktreeOK, OnlyMoves
  <1>11. CleanedIsGone'
    BY <1>1 DEF RunsInv, Typed, CleanedIsGone, OnlyMoves
  <1>12. NoFictionalRun'
    BY <1>1 DEF RunsInv, Typed, NoFictionalRun, OnlyMoves
  <1>13. ControlOK'
    BY <1>1 DEF RunsInv, Typed, ControlOK, OnlyMoves
  <1>14. AdmitsNone
    BY <1>1 DEF RunsInv, Typed, PhaseOK, AdmitsNone, OnlyMoves
  <1>15. QED BY <1>2, <1>3, <1>4, <1>5, <1>6, <1>7, <1>8, <1>9, <1>10, <1>11, <1>12, <1>13, <1>14
         DEF RunsInv

\* The launch registers its session, ends it, or cannot save it.
LEMMA RegisterKeeps ==
  ASSUME RunsInv, NEW r \in Runs, Register(r)
  PROVE  RunsInv' /\ AdmitsNone
  <1>1. /\ op[r] = "spawned" /\ op' = [op EXCEPT ![r] = op'[r]] /\ op'[r] \in {"aborting", "running", "unsaved"}
        /\ op' \in [Runs -> Stages] /\ active' \subseteq Runs
        /\ active' = IF op'[r] = "aborting" THEN active ELSE active \cup {r}
        /\ faults' \in Nat /\ (faults' = 0 => faults = 0) /\ (op'[r] = "unsaved" => faults' # 0)
        /\ UNCHANGED <<plan, stale, worktree, changed, stops, paused, mutation, closing, shut,
                       cleanup, restarts>>
    BY DEF RunsInv, Typed, Stages, Register, Fault, NoFault, Undisturbed
  <1>2. /\ session' \in [Runs -> Sessions]
        /\ \A x \in Runs \ {r} : session'[x] = session[x]
        /\ (Alive(r) \/ Exited(r)) => (Alive(r) <=> Alive(r)') /\ (Exited(r) <=> Exited(r)')
    BY DEF RunsInv, Typed, Sessions, Register, Signalled
  <1>3. /\ store' \in Stores
        /\ \A x \in Runs \ {r} : store'[x] = store[x]
        /\ \/ store'[r] = store[r]
           \/ Updated(store[r], store'[r], "running", store[r].wstate)
    <2>1. store \in Stores /\ store[r] # NoRecord
      BY <1>1 DEF RunsInv, Typed, RecordOK, Stores
    <2>2. PICK st \in Statuses : st = "running"
      BY DEF Statuses
    <2>3. store' = store \/ store' = saveStatus(store, {r}, st)
      BY <2>2 DEF Register
    <2>4. LET t == saveStatus(store, {r}, st) IN
          /\ t \in Stores /\ Updated(store[r], t[r], st, store[r].wstate)
          /\ \A x \in Runs \ {r} : t[x] = store[x]
      BY <2>1, SaveOneUpdates
    <2>5. QED BY <2>1, <2>2, <2>3, <2>4
  <1>4. OnlyMoves(r)
    BY <1>1, <1>2, <1>3 DEF RunsInv, Typed, OnlyMoves
  <1>5. Onward
    BY <1>1, <1>2, <1>3, <1>4 DEF RunsInv, Typed, PhaseOK, RecordOK, Onward, Unsettled, OnlyMoves,
       Updated
  <1>6. PlanOK' /\ OneHolder' /\ Private' /\ OrphanOK' /\ OneSessionPerWorktree'
    BY <1>5, OnwardKeeps
  <1>7. Typed'
    BY <1>1, <1>2, <1>3, <1>4 DEF RunsInv, Typed, Stores
  <1>8. PhaseOK'
    BY <1>1, <1>2, <1>3, <1>4 DEF RunsInv, Typed, PhaseOK, OnlyMoves, Updated
  <1>9. RecordOK'
    BY <1>1, <1>2, <1>3, <1>4 DEF RunsInv, Typed, RecordOK, OnlyMoves, Updated
  <1>10. WorktreeOK'
    BY <1>1, <1>2, <1>3, <1>4 DEF RunsInv, Typed, WorktreeOK, OnlyMoves, Updated
  <1>11. CleanedIsGone'
    BY <1>1, <1>2, <1>3, <1>4 DEF RunsInv, Typed, PhaseOK, RecordOK, CleanedIsGone, OnlyMoves,
       Updated
  <1>12. NoFictionalRun'
    BY <1>1, <1>2, <1>3, <1>4 DEF RunsInv, Typed, NoFictionalRun, OnlyMoves, Updated
  <1>13. ControlOK'
    BY <1>1, <1>2, <1>3, <1>4 DEF RunsInv, Typed, ControlOK, OnlyMoves, Updated
  <1>14. AdmitsNone
    BY <1>1, <1>2, <1>3, <1>4 DEF RunsInv, Typed, PhaseOK, AdmitsNone, OnlyMoves
  <1>15. QED BY <1>6, <1>7, <1>8, <1>9, <1>10, <1>11, <1>12, <1>13, <1>14 DEF RunsInv

\* A failed launch settles a resume at once and begins to remove its own worktree.
LEMMA LaunchFailsKeeps ==
  ASSUME RunsInv, NEW r \in Runs, LaunchFails(r)
  PROVE  RunsInv' /\ AdmitsNone
  <1>1. /\ op[r] \in {"launching", "authorized", "aborting"} /\ Recorded(r) /\ r \notin active /\ Planned(r)
        /\ UNCHANGED <<plan, active, stale, worktree, changed, stops, paused, mutation, closing,
                       shut, cleanup, faults, restarts>>
    BY DEF RunsInv, Typed, PhaseOK, RecordOK, LaunchFails, LaunchFailure
  <1>2. /\ op' \in [Runs -> Stages]
        /\ \A x \in Runs \ {r} : op'[x] = op[x]
        /\ op'[r] = IF OwnsWorktreeCleanup(r) THEN "failing" ELSE "over"
    BY DEF RunsInv, Typed, Stages, LaunchFails, LaunchFailure, launchFailureStage
  <1>3. /\ session' \in [Runs -> Sessions] /\ session'[r] = "none"
        /\ \A x \in Runs \ {r} : session'[x] = session[x]
    BY <1>1 DEF RunsInv, Typed, PhaseOK, Sessions, LaunchFails, LaunchFailure
  <1>4. /\ store' \in Stores
        /\ \A x \in Runs \ {r} : store'[x] = store[x]
        /\ IF OwnsWorktreeCleanup(r)
           THEN Updated(store[r], store'[r], store[r].status, "cleanup-pending")
           ELSE Updated(store[r], store'[r], "failed", store[r].wstate)
    BY <1>1, LaunchFailureUpdates DEF RunsInv, Typed, Stores, LaunchFails, LaunchFailure
  <1>5. OnlyMoves(r)
    BY <1>1, <1>2, <1>3, <1>4 DEF RunsInv, Typed, OnlyMoves
  <1>6. Onward
    BY <1>1, <1>2, <1>3, <1>4, <1>5 DEF RunsInv, Typed, PhaseOK, RecordOK, Onward, Unsettled,
       OnlyMoves, Updated
  <1>7. PlanOK' /\ OneHolder' /\ Private' /\ OrphanOK' /\ OneSessionPerWorktree'
    BY <1>6, OnwardKeeps
  <1>8. Typed'
    BY <1>1, <1>2, <1>3, <1>4, <1>5 DEF RunsInv, Typed, Stores
  <1>9. PhaseOK'
    BY <1>1, <1>2, <1>3, <1>4, <1>5 DEF RunsInv, Typed, PhaseOK, OnlyMoves, Updated
  <1>10. RecordOK'
    BY <1>1, <1>2, <1>3, <1>4, <1>5, PlanKinds DEF RunsInv, Typed, PhaseOK, PlanOK, RecordOK,
       OneHolder, OnlyMoves, Updated
  <1>11. WorktreeOK'
    BY <1>1, <1>2, <1>3, <1>4, <1>5 DEF RunsInv, Typed, WorktreeOK, OnlyMoves, Updated
  <1>12. CleanedIsGone'
    BY <1>1, <1>2, <1>3, <1>4, <1>5 DEF RunsInv, Typed, CleanedIsGone, OnlyMoves, Updated
  <1>13. NoFictionalRun'
    BY <1>1, <1>2, <1>3, <1>4, <1>5 DEF RunsInv, Typed, NoFictionalRun, OnlyMoves, Updated
  <1>14. ControlOK'
    BY <1>1, <1>2, <1>3, <1>4, <1>5 DEF RunsInv, Typed, ControlOK, OnlyMoves, Updated
  <1>15. AdmitsNone
    BY <1>1, <1>2, <1>3, <1>4, <1>5 DEF RunsInv, Typed, PhaseOK, AdmitsNone, OnlyMoves
  <1>16. QED BY <1>7, <1>8, <1>9, <1>10, <1>11, <1>12, <1>13, <1>14, <1>15 DEF RunsInv

\* Pausing and continuing write the status of an active run.
LEMMA PauseOrContinueKeeps ==
  ASSUME RunsInv, NEW r \in Runs, PauseOrContinue(r)
  PROVE  RunsInv' /\ AdmitsNone
  <1>1. /\ r \in active /\ op[r] \in {"running", "unsaved"} /\ Recorded(r) /\ Alive(r) /\ Alive(r)'
        /\ session' = [session EXCEPT ![r] = session'[r]] /\ session' \in [Runs -> Sessions]
        /\ session'[r] \in {"live", "paused"}
        /\ UNCHANGED <<plan, op, active, stale, worktree, changed, stops, paused, mutation,
                       closing, shut, cleanup, faults, restarts>>
    BY DEF RunsInv, Typed, PhaseOK, RecordOK, Sessions, PauseOrContinue
  <1>2. /\ store' \in Stores
        /\ \A x \in Runs \ {r} : store'[x] = store[x]
        /\ \E st \in {"running", "paused"} : Updated(store[r], store'[r], st, store[r].wstate)
    <2>1. store \in Stores /\ store[r] # NoRecord
      BY <1>1 DEF RunsInv, Typed, Stores
    <2>2. PICK st \in Statuses : st \in {"running", "paused"} /\ store' = saveStatus(store, {r}, st)
      BY DEF PauseOrContinue, Statuses
    <2>3. LET t == saveStatus(store, {r}, st) IN
          /\ t \in Stores /\ Updated(store[r], t[r], st, store[r].wstate)
          /\ \A x \in Runs \ {r} : t[x] = store[x]
      BY <2>1, SaveOneUpdates
    <2>4. QED BY <2>2, <2>3
  <1>3. OnlyMoves(r)
    BY <1>1, <1>2 DEF RunsInv, Typed, OnlyMoves
  <1>4. Onward
    BY <1>1, <1>2, <1>3 DEF RunsInv, Typed, PhaseOK, RecordOK, Onward, Unsettled, OnlyMoves,
       Updated
  <1>5. PlanOK' /\ OneHolder' /\ Private' /\ OrphanOK' /\ OneSessionPerWorktree'
    BY <1>4, OnwardKeeps
  <1>6. Typed'
    BY <1>1, <1>2, <1>3 DEF RunsInv, Typed, Stores
  <1>7. PhaseOK'
    BY <1>1, <1>2, <1>3 DEF RunsInv, Typed, PhaseOK, OnlyMoves, Updated
  <1>8. RecordOK'
    BY <1>1, <1>2, <1>3 DEF RunsInv, Typed, RecordOK, OnlyMoves, Updated
  <1>9. WorktreeOK'
    BY <1>1, <1>2, <1>3 DEF RunsInv, Typed, WorktreeOK, OnlyMoves, Updated
  <1>10. CleanedIsGone'
    BY <1>1, <1>2, <1>3 DEF RunsInv, Typed, CleanedIsGone, OnlyMoves, Updated
  <1>11. NoFictionalRun'
    BY <1>1, <1>2, <1>3 DEF RunsInv, Typed, NoFictionalRun, OnlyMoves, Updated
  <1>12. ControlOK'
    BY <1>1, <1>2, <1>3 DEF RunsInv, Typed, ControlOK, OnlyMoves, Updated
  <1>13. AdmitsNone
    BY <1>1, <1>2, <1>3 DEF RunsInv, Typed, PhaseOK, AdmitsNone, OnlyMoves
  <1>14. QED BY <1>5, <1>6, <1>7, <1>8, <1>9, <1>10, <1>11, <1>12, <1>13 DEF RunsInv

\* A session ends; its worktree may hold changes now.
LEMMA SessionExitsKeeps ==
  ASSUME RunsInv, NEW r \in Runs, SessionExits(r)
  PROVE  RunsInv' /\ AdmitsNone
  <1>1. /\ OnlyMoves(r) /\ Alive(r) /\ Exited(r)' /\ ~Alive(r)' /\ session'[r] # "orphan" /\ session' \in [Runs -> Sessions]
        /\ UNCHANGED <<store, plan, op, active, stale, worktree, stops, paused, mutation, closing,
                       shut, cleanup, faults, restarts>>
    BY DEF RunsInv, Typed, Sessions, SessionExits, OnlyMoves
  <1>2. changed' \in [Runs -> BOOLEAN]
    BY DEF RunsInv, Typed, SessionExits
  <1>3. Onward
    BY <1>1, <1>2 DEF RunsInv, Typed, PhaseOK, RecordOK, Onward, Unsettled, OnlyMoves
  <1>4. PlanOK' /\ OneHolder' /\ Private' /\ OrphanOK' /\ OneSessionPerWorktree'
    BY <1>3, OnwardKeeps
  <1>5. Typed'
    BY <1>1, <1>2 DEF RunsInv, Typed, Stores
  <1>6. PhaseOK'
    BY <1>1, <1>2 DEF RunsInv, Typed, PhaseOK, OnlyMoves
  <1>7. RecordOK'
    BY <1>1, <1>2 DEF RunsInv, Typed, RecordOK, OnlyMoves
  <1>8. WorktreeOK'
    BY <1>1, <1>2 DEF RunsInv, Typed, WorktreeOK, OnlyMoves
  <1>9. CleanedIsGone'
    BY <1>1, <1>2 DEF RunsInv, Typed, CleanedIsGone, OnlyMoves
  <1>10. NoFictionalRun'
    BY <1>1, <1>2 DEF RunsInv, Typed, NoFictionalRun, OnlyMoves
  <1>11. ControlOK'
    BY <1>1, <1>2 DEF RunsInv, Typed, ControlOK, OnlyMoves
  <1>12. AdmitsNone
    BY <1>1, <1>2 DEF RunsInv, Typed, PhaseOK, AdmitsNone, OnlyMoves
  <1>13. QED BY <1>4, <1>5, <1>6, <1>7, <1>8, <1>9, <1>10, <1>11, <1>12 DEF RunsInv

\* The end of a session is recorded, wrongly or not at all when a write is refused.
LEMMA TrackKeeps ==
  ASSUME RunsInv, NEW r \in Runs, Track(r)
  PROVE  RunsInv' /\ AdmitsNone
  <1>1. PICK saved \in {session[r], "failed", store[r].status} :
          /\ IF saved = session[r] THEN NoFault ELSE Fault
          /\ LET ended == saveStatus(store, {r}, saved) IN
             store' = IF op[r] = "unsaved" THEN launchFailureSaved(ended, r) ELSE ended
    BY DEF Track
  <1>2. /\ op[r] \in {"running", "unsaved"} /\ Recorded(r) /\ saved \in Statuses
        /\ op[r] = "unsaved" => faults # 0
        /\ faults' \in Nat /\ (faults' = 0 => faults = 0 /\ saved \in Terminal)
    BY <1>1, RecordKinds DEF RunsInv, Typed, PhaseOK, RecordOK, Track, Statuses, NoFault, Fault,
       Undisturbed
  <1>3. /\ op' = [op EXCEPT ![r] = op'[r]] /\ op' \in [Runs -> Stages]
        /\ op'[r] = IF op[r] = "unsaved" /\ OwnsWorktreeCleanup(r) THEN "failing" ELSE "over"
        /\ session' = [session EXCEPT ![r] = "none"] /\ session' \in [Runs -> Sessions]
        /\ active' = active \ {r}
        /\ UNCHANGED <<plan, stale, worktree, changed, stops, paused, mutation, closing, shut,
                       cleanup, restarts>>
    BY DEF RunsInv, Typed, Stages, Sessions, Track, launchFailureStage
  <1>4. LET ended == saveStatus(store, {r}, saved) IN
        /\ ended \in Stores
        /\ Updated(store[r], ended[r], saved, store[r].wstate)
        /\ \A x \in Runs \ {r} : ended[x] = store[x]
    <2>1. store \in Stores
      BY DEF RunsInv, Typed, Stores
    <2>2. QED BY <1>2, <2>1, SaveOneUpdates
  <1>5. /\ store' \in Stores
        /\ \A x \in Runs \ {r} : store'[x] = store[x]
        /\ \/ op[r] = "running" /\ Updated(store[r], store'[r], saved, store[r].wstate)
           \/ /\ op[r] = "unsaved" /\ OwnsWorktreeCleanup(r)
              /\ Updated(store[r], store'[r], saved, "cleanup-pending")
           \/ /\ op[r] = "unsaved" /\ ~OwnsWorktreeCleanup(r)
              /\ Updated(store[r], store'[r], "failed", store[r].wstate)
    <2> DEFINE ended == saveStatus(store, {r}, saved)
    <2>1. ended \in Stores /\ ended[r] # NoRecord
      BY <1>4 DEF Updated
    <2>2. store' = IF op[r] = "unsaved" THEN launchFailureSaved(ended, r) ELSE ended
      BY <1>1
    <2>3. /\ Updated(store[r], ended[r], saved, store[r].wstate)
          /\ \A x \in Runs \ {r} : ended[x] = store[x]
      BY <1>4
    <2> HIDE DEF ended
    <2>4. CASE op[r] = "running"
      BY <2>1, <2>2, <2>3, <2>4
    <2>5. CASE op[r] = "unsaved"
      <3>1. /\ store' \in Stores
            /\ \A x \in Runs : x # r => store'[x] = ended[x]
            /\ IF OwnsWorktreeCleanup(r)
               THEN Updated(ended[r], store'[r], ended[r].status, "cleanup-pending")
               ELSE Updated(ended[r], store'[r], "failed", ended[r].wstate)
        BY <2>1, <2>2, <2>5, LaunchFailureUpdates
      <3>2. QED BY <2>3, <2>5, <3>1 DEF Updated
    <2>6. QED BY <1>2, <2>4, <2>5
  <1>6. OnlyMoves(r)
    BY <1>3, <1>5 DEF RunsInv, Typed, OnlyMoves
  <1>7. Onward
    BY <1>2, <1>3, <1>5, <1>6 DEF RunsInv, Typed, PhaseOK, RecordOK, Onward, Unsettled, OnlyMoves,
       Updated
  <1>8. PlanOK' /\ OneHolder' /\ Private' /\ OrphanOK' /\ OneSessionPerWorktree'
    BY <1>7, OnwardKeeps
  <1>9. Typed'
    BY <1>2, <1>3, <1>5, <1>6 DEF RunsInv, Typed, Stores
  <1>10. PhaseOK'
    BY <1>2, <1>3, <1>5, <1>6 DEF RunsInv, Typed, PhaseOK, OnlyMoves, Updated
  <1>11. RecordOK'
    BY <1>2, <1>3, <1>5, <1>6, PlanKinds DEF RunsInv, Typed, PhaseOK, PlanOK, RecordOK, OneHolder,
       OnlyMoves, Updated
  <1>12. WorktreeOK'
    BY <1>2, <1>3, <1>5, <1>6 DEF RunsInv, Typed, WorktreeOK, OnlyMoves, Updated
  <1>13. CleanedIsGone'
    BY <1>2, <1>3, <1>5, <1>6 DEF RunsInv, Typed, CleanedIsGone, OnlyMoves, Updated
  <1>14. NoFictionalRun'
    BY <1>2, <1>3, <1>5, <1>6 DEF RunsInv, Typed, NoFictionalRun, OnlyMoves, Updated
  <1>15. ControlOK'
    BY <1>2, <1>3, <1>5, <1>6 DEF RunsInv, Typed, ControlOK, OnlyMoves, Updated
  <1>16. AdmitsNone
    BY <1>2, <1>3, <1>5, <1>6 DEF RunsInv, Typed, PhaseOK, AdmitsNone, OnlyMoves
  <1>17. QED BY <1>8, <1>9, <1>10, <1>11, <1>12, <1>13, <1>14, <1>15, <1>16 DEF RunsInv

\* A signal changes nothing but the session.
LEMMA TerminateSessionKeeps ==
  ASSUME RunsInv, NEW r \in Runs, TerminateSession(r)
  PROVE  RunsInv' /\ AdmitsNone
  <1>1. /\ OnlyMoves(r) /\ Alive(r) /\ session'[r] = "terminating" /\ session' \in [Runs -> Sessions]
        /\ UNCHANGED <<store, plan, op, active, stale, worktree, changed, stops, paused, mutation,
                       closing, shut, cleanup, faults, restarts>>
    BY DEF RunsInv, Typed, Sessions, TerminateSession, OnlyMoves
  <1>2. Onward
    BY <1>1 DEF RunsInv, Typed, PhaseOK, RecordOK, Onward, Unsettled, OnlyMoves
  <1>3. PlanOK' /\ OneHolder' /\ Private' /\ OrphanOK' /\ OneSessionPerWorktree'
    BY <1>2, OnwardKeeps
  <1>4. Typed'
    BY <1>1 DEF RunsInv, Typed, Stores
  <1>5. PhaseOK'
    BY <1>1 DEF RunsInv, Typed, PhaseOK, OnlyMoves
  <1>6. RecordOK'
    BY <1>1 DEF RunsInv, Typed, RecordOK, OnlyMoves
  <1>7. WorktreeOK'
    BY <1>1 DEF RunsInv, Typed, WorktreeOK, OnlyMoves
  <1>8. CleanedIsGone'
    BY <1>1 DEF RunsInv, Typed, CleanedIsGone, OnlyMoves
  <1>9. NoFictionalRun'
    BY <1>1 DEF RunsInv, Typed, NoFictionalRun, OnlyMoves
  <1>10. ControlOK'
    BY <1>1 DEF RunsInv, Typed, ControlOK, OnlyMoves
  <1>11. AdmitsNone
    BY <1>1 DEF RunsInv, Typed, PhaseOK, AdmitsNone, OnlyMoves
  <1>12. QED BY <1>3, <1>4, <1>5, <1>6, <1>7, <1>8, <1>9, <1>10, <1>11 DEF RunsInv

\* A plan that is given up leaves a terminated record.
LEMMA DiscardKeeps ==
  ASSUME RunsInv, NEW r \in Runs, Discard(r)
  PROVE  RunsInv' /\ AdmitsNone
  <1>1. /\ op[r] = "pending" /\ Recorded(r) /\ ~paused
        /\ UNCHANGED <<plan, session, active, stale, worktree, changed, stops, paused, mutation,
                       closing, shut, cleanup, faults, restarts>>
    BY DEF RunsInv, Typed, RecordOK, Discard
  <1>2. /\ store' \in Stores
        /\ \A x \in Runs \ {r} : store'[x] = store[x]
        /\ IF OwnsWorktreeCleanup(r)
           THEN Updated(store[r], store'[r], "terminated", "cleanup-pending")
           ELSE Updated(store[r], store'[r], "terminated", store[r].wstate)
    <2>1. store \in Stores /\ "terminated" \in Statuses
      BY DEF RunsInv, Typed, Stores, Statuses
    <2>2. store' = GivenUp(store, {r}, "terminated")
      BY DEF Discard
    <2>3. QED BY <1>1, <2>1, <2>2, GiveUpOneUpdates
  <1>3. /\ op' \in [Runs -> Stages]
        /\ \A x \in Runs \ {r} : op'[x] = op[x]
        /\ \/ op'[r] = "over"
           \/ op'[r] \in {"discarding", "expiring"} /\ OwnsWorktreeCleanup(r)
        /\ op'[r] = "discarding" => stops[plan[r].owner] = "none"
    BY DEF RunsInv, Typed, Discard, GiveUp, OwnerAccepting, Stages
  <1>4. OnlyMoves(r)
    BY <1>1, <1>2, <1>3 DEF RunsInv, Typed, OnlyMoves
  <1>5. Onward
    BY <1>1, <1>2, <1>3, <1>4 DEF RunsInv, Typed, PhaseOK, RecordOK, Onward, Unsettled, OnlyMoves,
       Updated
  <1>6. PlanOK' /\ OneHolder' /\ Private' /\ OrphanOK' /\ OneSessionPerWorktree'
    BY <1>5, OnwardKeeps
  <1>7. Typed'
    BY <1>1, <1>2, <1>3, <1>4 DEF RunsInv, Typed, Stores
  <1>8. PhaseOK'
    BY <1>1, <1>2, <1>3, <1>4 DEF RunsInv, Typed, PhaseOK, OnlyMoves, Updated
  <1>9. RecordOK'
    BY <1>1, <1>2, <1>3, <1>4, PlanKinds DEF RunsInv, Typed, PhaseOK, PlanOK, RecordOK, OneHolder,
       OnlyMoves, Updated
  <1>10. WorktreeOK'
    BY <1>1, <1>2, <1>3, <1>4 DEF RunsInv, Typed, WorktreeOK, OnlyMoves, Updated
  <1>11. CleanedIsGone'
    BY <1>1, <1>2, <1>3, <1>4 DEF RunsInv, Typed, CleanedIsGone, OnlyMoves, Updated
  <1>12. NoFictionalRun'
    BY <1>1, <1>2, <1>3, <1>4 DEF RunsInv, Typed, NoFictionalRun, OnlyMoves, Updated
  <1>13. ControlOK'
    BY <1>1, <1>2, <1>3, <1>4 DEF RunsInv, Typed, ControlOK, OnlyMoves, Updated
  <1>14. AdmitsNone
    BY <1>1, <1>2, <1>3, <1>4 DEF RunsInv, Typed, PhaseOK, AdmitsNone, OnlyMoves
  <1>15. QED BY <1>6, <1>7, <1>8, <1>9, <1>10, <1>11, <1>12, <1>13, <1>14 DEF RunsInv

\* The runtime removes the worktree it provisioned.
LEMMA RemoveOwnWorktreeKeeps ==
  ASSUME RunsInv, NEW r \in Runs, RemoveOwnWorktree(r)
  PROVE  RunsInv' /\ AdmitsNone
  <1>1. /\ op[r] \in Removing /\ Planned(r) /\ plan[r].action = "launch"
        /\ UNCHANGED <<plan, session, active, stale, changed, stops, paused, mutation, closing,
                       shut, cleanup, faults, restarts>>
    BY DEF RunsInv, Typed, PhaseOK, Plans, NoPlan, RemoveOwnWorktree
  <1>2. /\ op' \in [Runs -> Stages] /\ worktree' \in [Runs -> {"none", "intact", "partial", "gone"}]
        /\ \A x \in Runs \ {r} : op'[x] = op[x] /\ worktree'[x] = worktree[x]
        /\ op'[r] \in {op[r], "over"}
        /\ \/ store' = store /\ worktree[r] = "intact" /\ op' = op
           \/ RemovalSettles(r, "cleaned") /\ worktree[r] # "gone" /\ worktree'[r] = "gone" /\ op'[r] = "over"
    BY DEF RunsInv, Typed, Stages, RemoveOwnWorktree, RemovalSettles
  <1>3. /\ store' \in Stores
        /\ \/ store' = store /\ (op'[r] = "over" => ~Recorded(r) \/ store[r].wstate # "cleanup-pending")
           \/ /\ Recorded(r) /\ store[r].wstate = "cleanup-pending" /\ worktree'[r] = "gone" /\ op'[r] = "over"
              /\ Updated(store[r], store'[r],
                         IF op[r] = "failing" THEN "failed" ELSE store[r].status, "cleaned")
              /\ \A x \in Runs \ {r} : IF InWorktree(x, store[r].worktree)
                                       THEN Updated(store[x], store'[x], store[x].status, "cleaned")
                                       ELSE store'[x] = store[x]
    <2>1. CASE store' = store /\ op' = op
      BY <1>1, <2>1 DEF RunsInv, Typed, Stores
    <2>2. CASE RemovalSettles(r, "cleaned") /\ worktree'[r] = "gone" /\ op'[r] = "over"
      BY <2>2, RemovalSettlesUpdates DEF RunsInv
    <2>3. QED BY <1>2, <2>1, <2>2
  <1>4. Onward
    BY <1>1, <1>2, <1>3 DEF RunsInv, Typed, PhaseOK, RecordOK, Onward, Unsettled, Updated
  <1>5. PlanOK' /\ OneHolder' /\ Private' /\ OrphanOK' /\ OneSessionPerWorktree'
    BY <1>4, OnwardKeeps
  <1>6. Typed'
    BY <1>1, <1>2, <1>3 DEF RunsInv, Typed, Stores
  <1>7. PhaseOK'
    BY <1>1, <1>2, <1>3 DEF RunsInv, Typed, PhaseOK, Updated
  <1>8. RecordOK'
    BY <1>1, <1>2, <1>3 DEF RunsInv, Typed, PhaseOK, PlanOK, RecordOK, OneHolder, Updated
  <1>9. WorktreeOK'
    BY <1>1, <1>2, <1>3, PlanKinds DEF RunsInv, Typed, PhaseOK, PlanOK, RecordOK, Private,
       WorktreeOK, ControlOK, Unsettled, Updated
  <1>10. CleanedIsGone'
    BY <1>1, <1>2, <1>3, RecordKinds DEF RunsInv, Typed, PhaseOK, PlanOK, RecordOK, Private,
       CleanedIsGone, Unsettled, Updated
  <1>11. NoFictionalRun'
    BY <1>1, <1>2, <1>3 DEF RunsInv, Typed, PhaseOK, RecordOK, NoFictionalRun, Updated
  <1>12. ControlOK'
    BY <1>1, <1>2, <1>3 DEF RunsInv, Typed, ControlOK, Updated
  <1>13. AdmitsNone
    BY <1>1, <1>2, <1>3 DEF RunsInv, Typed, PhaseOK, AdmitsNone
  <1>14. QED BY <1>5, <1>6, <1>7, <1>8, <1>9, <1>10, <1>11, <1>12, <1>13 DEF RunsInv

\* A removal that fails returns the record to active.
LEMMA RemovalFailsKeeps ==
  ASSUME RunsInv, NEW r \in Runs, RemovalFails(r)
  PROVE  RunsInv' /\ AdmitsNone
  <1>1. /\ op[r] \in Removing /\ op' = [op EXCEPT ![r] = "over"] /\ op' \in [Runs -> Stages]
        /\ faults' \in Nat /\ (faults' = 0 => faults = 0)
        /\ UNCHANGED <<plan, session, active, stale, worktree, changed, stops, paused, mutation,
                       closing, shut, cleanup, restarts>>
    BY DEF RunsInv, Typed, Stages, RemovalFails, RemovalSettles, NoFault, Fault, Undisturbed
  <1>2. /\ store' \in Stores
        /\ \A x \in Runs \ {r} : store'[x] = store[x]
        /\ \/ store' = store /\ (~Recorded(r) \/ store[r].wstate # "cleanup-pending")
           \/ /\ Recorded(r) /\ store[r].wstate = "cleanup-pending"
              /\ Updated(store[r], store'[r],
                         IF op[r] = "failing" THEN "failed" ELSE store[r].status, "active")
    BY RemovalSettlesUpdates DEF RunsInv, RemovalFails
  <1>3. OnlyMoves(r)
    BY <1>1, <1>2 DEF RunsInv, Typed, OnlyMoves
  <1>4. Onward
    BY <1>1, <1>2, <1>3 DEF RunsInv, Typed, PhaseOK, RecordOK, Onward, Unsettled, OnlyMoves,
       Updated
  <1>5. PlanOK' /\ OneHolder' /\ Private' /\ OrphanOK' /\ OneSessionPerWorktree'
    BY <1>4, OnwardKeeps
  <1>6. Typed'
    BY <1>1, <1>2, <1>3 DEF RunsInv, Typed, Stores
  <1>7. PhaseOK'
    BY <1>1, <1>2, <1>3 DEF RunsInv, Typed, PhaseOK, OnlyMoves, Updated
  <1>8. RecordOK'
    BY <1>1, <1>2, <1>3 DEF RunsInv, Typed, RecordOK, OnlyMoves, Updated
  <1>9. WorktreeOK'
    BY <1>1, <1>2, <1>3 DEF RunsInv, Typed, WorktreeOK, OnlyMoves, Updated
  <1>10. CleanedIsGone'
    BY <1>1, <1>2, <1>3 DEF RunsInv, Typed, CleanedIsGone, OnlyMoves, Updated
  <1>11. NoFictionalRun'
    BY <1>1, <1>2, <1>3 DEF RunsInv, Typed, PhaseOK, RecordOK, NoFictionalRun, OnlyMoves, Updated
  <1>12. ControlOK'
    BY <1>1, <1>2, <1>3 DEF RunsInv, Typed, ControlOK, OnlyMoves, Updated
  <1>13. AdmitsNone
    BY <1>1, <1>2, <1>3 DEF RunsInv, Typed, PhaseOK, AdmitsNone, OnlyMoves
  <1>14. QED BY <1>5, <1>6, <1>7, <1>8, <1>9, <1>10, <1>11, <1>12, <1>13 DEF RunsInv

\* A review settles a cleanup that was cut off: it reactivates its record, or finds the
\* worktree gone and tells every record of it.
LEMMA ReviewInterruptedCleanupKeeps ==
  ASSUME RunsInv, NEW r \in Runs, ReviewInterruptedCleanup(r)
  PROVE  RunsInv' /\ AdmitsNone
  <1>1. /\ Recorded(r) /\ store[r].status \in Terminal /\ store[r].wstate = "cleanup-pending"
        /\ UNCHANGED <<plan, op, session, active, stale, worktree, changed, stops, paused,
                       mutation, closing, shut, cleanup, faults, restarts>>
    BY DEF ReviewInterruptedCleanup, resolvesPending
  <1>2. /\ store' \in Stores
        /\ \/ /\ Updated(store[r], store'[r], store[r].status, "active")
              /\ \A x \in Runs \ {r} : store'[x] = store[x]
           \/ /\ worktree[store[r].worktree] = "gone"
              /\ \A x \in Runs : IF InWorktree(x, store[r].worktree)
                                 THEN Updated(store[x], store'[x], store[x].status, "cleaned")
                                 ELSE store'[x] = store[x]
    BY <1>1, TransitionUpdates DEF RunsInv, Typed, Stores, Wstates, ReviewInterruptedCleanup
  <1>3. Onward
    BY <1>1, <1>2 DEF RunsInv, Typed, PhaseOK, RecordOK, Onward, Unsettled, Updated
  <1>4. PlanOK' /\ OneHolder' /\ Private' /\ OrphanOK' /\ OneSessionPerWorktree'
    BY <1>3, OnwardKeeps
  <1>5. Typed'
    BY <1>1, <1>2 DEF RunsInv, Typed, Stores
  <1>6. PhaseOK'
    BY <1>1, <1>2 DEF RunsInv, Typed, PhaseOK, Updated
  <1>7. RecordOK'
    BY <1>1, <1>2 DEF RunsInv, Typed, PhaseOK, PlanOK, RecordOK, OneHolder, Updated
  <1>8. WorktreeOK'
    BY <1>1, <1>2 DEF RunsInv, Typed, WorktreeOK, Updated
  <1>9. CleanedIsGone'
    BY <1>1, <1>2 DEF RunsInv, Typed, CleanedIsGone, Updated
  <1>10. NoFictionalRun'
    BY <1>1, <1>2 DEF RunsInv, Typed, NoFictionalRun, Updated
  <1>11. ControlOK'
    BY <1>1, <1>2 DEF RunsInv, Typed, ControlOK, Updated
  <1>12. AdmitsNone
    BY <1>1, <1>2 DEF RunsInv, Typed, PhaseOK, AdmitsNone
  <1>13. QED BY <1>4, <1>5, <1>6, <1>7, <1>8, <1>9, <1>10, <1>11, <1>12 DEF RunsInv

\* A confirmed cleanup closes admissions while nothing runs.
LEMMA ConfirmCleanupKeeps ==
  ASSUME RunsInv, NEW r \in Runs, ConfirmCleanup(r)
  PROVE  RunsInv' /\ AdmitsNone
  <1>1. /\ mutation = "none" /\ Recorded(r) /\ paused' = TRUE /\ cleanup' = [stage |-> "admitted", run |-> r]
        /\ \A x \in Runs : op[x] \notin Tracked \cup {"pending"}
        /\ active = {}
        /\ UNCHANGED <<store, plan, op, session, active, stale, worktree, changed, stops,
                       mutation, closing, shut, faults, restarts>>
    BY DEF ConfirmCleanup, resolvesPending, resolvesActive, Quiet, Pending, InFlight
  <1>2. cleanup' \in Cleanups /\ cleanup'.run = r
    BY <1>1 DEF Cleanups
  <1>3. /\ PhaseOK' /\ PlanOK' /\ RecordOK' /\ OneHolder' /\ Private' /\ OrphanOK'
        /\ OneSessionPerWorktree' /\ WorktreeOK' /\ CleanedIsGone' /\ NoFictionalRun'
    BY <1>1, QuietStepKeeps
  <1>4. Typed'
    BY <1>1, <1>2 DEF RunsInv, Typed, Stores
  <1>5. ControlOK'
    BY <1>1, <1>2 DEF RunsInv, Typed, PhaseOK, ControlOK
  <1>6. AdmitsNone
    BY <1>1, <1>2 DEF RunsInv, Typed, PhaseOK, AdmitsNone
  <1>7. QED BY <1>3, <1>4, <1>5, <1>6 DEF RunsInv

\* A stop refuses newcomers of its owner.
LEMMA StopOwnerKeeps ==
  ASSUME RunsInv, NEW o \in Owners, StopOwner(o)
  PROVE  RunsInv' /\ AdmitsNone
  <1>1. /\ stops' = [stops EXCEPT ![o] = "draining"]
        /\ UNCHANGED <<store, plan, op, session, active, stale, worktree, changed, paused,
                       mutation, closing, shut, cleanup, faults, restarts>>
    BY DEF StopOwner
  <1>2. /\ PhaseOK' /\ PlanOK' /\ RecordOK' /\ OneHolder' /\ Private' /\ OrphanOK'
        /\ OneSessionPerWorktree' /\ WorktreeOK' /\ CleanedIsGone' /\ NoFictionalRun'
    BY <1>1, QuietStepKeeps
  <1>3. Typed'
    BY <1>1 DEF RunsInv, Typed, Stores
  <1>4. ControlOK'
    BY <1>1 DEF RunsInv, Typed, ControlOK
  <1>5. AdmitsNone
    BY <1>1 DEF RunsInv, Typed, PhaseOK, AdmitsNone
  <1>6. QED BY <1>2, <1>3, <1>4, <1>5 DEF RunsInv

\* The operations of the owner have settled.
LEMMA StopDrainedKeeps ==
  ASSUME RunsInv, NEW o \in Owners, StopDrained(o)
  PROVE  RunsInv' /\ AdmitsNone
  <1>1. /\ stops' = [stops EXCEPT ![o] = "stopping"]
        /\ \A r \in Runs : op[r] \in Tracked \ {"expiring"} => plan[r].owner # o
        /\ UNCHANGED <<store, plan, op, session, active, stale, worktree, changed, paused,
                       mutation, closing, shut, cleanup, faults, restarts>>
    BY DEF StopDrained, OwnedBy, InFlight
  <1>2. /\ PhaseOK' /\ PlanOK' /\ RecordOK' /\ OneHolder' /\ Private' /\ OrphanOK'
        /\ OneSessionPerWorktree' /\ WorktreeOK' /\ CleanedIsGone' /\ NoFictionalRun'
    BY <1>1, QuietStepKeeps
  <1>3. Typed'
    BY <1>1 DEF RunsInv, Typed, Stores
  <1>4. ControlOK'
    BY <1>1 DEF RunsInv, Typed, ControlOK
  <1>5. AdmitsNone
    BY <1>1 DEF RunsInv, Typed, PhaseOK, AdmitsNone
  <1>6. QED BY <1>2, <1>3, <1>4, <1>5 DEF RunsInv

\* The stop gives up a plan of its owner.
LEMMA StopPlanKeeps ==
  ASSUME RunsInv, NEW o \in Owners, StopPlan(o)
  PROVE  RunsInv' /\ AdmitsNone
  <1>1. PICK r \in OwnedBy(Pending, o) : store' = GivenUp(store, {r}, "terminated") /\ GiveUp({r}, "dropping")
    BY DEF StopPlan
  <1>2. /\ r \in Runs /\ op[r] = "pending" /\ Recorded(r) /\ ~paused
        /\ UNCHANGED <<plan, session, active, stale, worktree, changed, stops, paused, mutation,
                       closing, shut, cleanup, faults, restarts>>
    BY DEF RunsInv, Typed, RecordOK, OwnedBy, Pending, StopPlan
  <1>3. /\ store' \in Stores
        /\ \A x \in Runs \ {r} : store'[x] = store[x]
        /\ IF OwnsWorktreeCleanup(r)
           THEN Updated(store[r], store'[r], "terminated", "cleanup-pending")
           ELSE Updated(store[r], store'[r], "terminated", store[r].wstate)
    <2>1. store \in Stores /\ "terminated" \in Statuses
      BY DEF RunsInv, Typed, Stores, Statuses
    <2>2. QED BY <1>1, <1>2, <2>1, GiveUpOneUpdates
  <1>4. /\ op' \in [Runs -> Stages]
        /\ \A x \in Runs \ {r} : op'[x] = op[x]
        /\ \/ op'[r] = "over"
           \/ op'[r] = "dropping" /\ OwnsWorktreeCleanup(r)
    BY <1>1, <1>2 DEF RunsInv, Typed, GiveUp, Stages
  <1>5. OnlyMoves(r)
    BY <1>2, <1>3, <1>4 DEF RunsInv, Typed, OnlyMoves
  <1>6. Onward
    BY <1>2, <1>3, <1>4, <1>5 DEF RunsInv, Typed, PhaseOK, RecordOK, Onward, Unsettled, OnlyMoves,
       Updated
  <1>7. PlanOK' /\ OneHolder' /\ Private' /\ OrphanOK' /\ OneSessionPerWorktree'
    BY <1>6, OnwardKeeps
  <1>8. Typed'
    BY <1>2, <1>3, <1>4, <1>5 DEF RunsInv, Typed, Stores
  <1>9. PhaseOK'
    BY <1>2, <1>3, <1>4, <1>5 DEF RunsInv, Typed, PhaseOK, OnlyMoves, Updated
  <1>10. RecordOK'
    BY <1>2, <1>3, <1>4, <1>5, PlanKinds DEF RunsInv, Typed, PhaseOK, PlanOK, RecordOK, OneHolder,
       OnlyMoves, Updated
  <1>11. WorktreeOK'
    BY <1>2, <1>3, <1>4, <1>5 DEF RunsInv, Typed, WorktreeOK, OnlyMoves, Updated
  <1>12. CleanedIsGone'
    BY <1>2, <1>3, <1>4, <1>5 DEF RunsInv, Typed, CleanedIsGone, OnlyMoves, Updated
  <1>13. NoFictionalRun'
    BY <1>2, <1>3, <1>4, <1>5 DEF RunsInv, Typed, NoFictionalRun, OnlyMoves, Updated
  <1>14. ControlOK'
    BY <1>2, <1>3, <1>4, <1>5 DEF RunsInv, Typed, ControlOK, OnlyMoves, Updated
  <1>15. AdmitsNone
    BY <1>2, <1>3, <1>4, <1>5 DEF RunsInv, Typed, PhaseOK, AdmitsNone, OnlyMoves
  <1>16. QED BY <1>7, <1>8, <1>9, <1>10, <1>11, <1>12, <1>13, <1>14, <1>15 DEF RunsInv

\* The stop signals the sessions of its owner.
LEMMA StopSignalsKeeps ==
  ASSUME RunsInv, NEW o \in Owners, StopSignals(o)
  PROVE  RunsInv' /\ AdmitsNone
  <1>1. /\ stops[o] = "stopping" /\ stops' = [stops EXCEPT ![o] = "awaiting"]
        /\ UNCHANGED <<store, plan, op, active, stale, worktree, changed, paused, mutation,
                       closing, shut, cleanup, faults, restarts>>
    BY DEF StopSignals
  <1>2. /\ session' \in [Runs -> Sessions]
        /\ \A r \in Runs : /\ Alive(r)' <=> Alive(r)
                           /\ Exited(r)' <=> Exited(r)
                           /\ session'[r] = "orphan" <=> session[r] = "orphan"
                           /\ session'[r] = "none" <=> session[r] = "none"
    BY DEF RunsInv, Typed, StopSignals, Signalled, Sessions
  <1>3. Onward
    BY <1>1, <1>2 DEF RunsInv, Typed, PhaseOK, RecordOK, Onward, Unsettled
  <1>4. PlanOK' /\ OneHolder' /\ Private' /\ OrphanOK' /\ OneSessionPerWorktree'
    BY <1>3, OnwardKeeps
  <1>5. Typed'
    BY <1>1, <1>2 DEF RunsInv, Typed, Stores
  <1>6. PhaseOK'
    BY <1>1, <1>2 DEF RunsInv, Typed, PhaseOK
  <1>7. RecordOK'
    BY <1>1, <1>2 DEF RunsInv, Typed, RecordOK
  <1>8. WorktreeOK'
    BY <1>1, <1>2 DEF RunsInv, Typed, WorktreeOK
  <1>9. CleanedIsGone'
    BY <1>1, <1>2 DEF RunsInv, Typed, CleanedIsGone
  <1>10. NoFictionalRun'
    BY <1>1, <1>2 DEF RunsInv, Typed, NoFictionalRun
  <1>11. ControlOK'
    BY <1>1, <1>2 DEF RunsInv, Typed, ControlOK
  <1>12. AdmitsNone
    BY <1>1, <1>2 DEF RunsInv, Typed, PhaseOK, AdmitsNone
  <1>13. QED BY <1>4, <1>5, <1>6, <1>7, <1>8, <1>9, <1>10, <1>11, <1>12 DEF RunsInv

\* The stop returns.
LEMMA StopDoneKeeps ==
  ASSUME RunsInv, NEW o \in Owners, StopDone(o)
  PROVE  RunsInv' /\ AdmitsNone
  <1>1. /\ stops' = [stops EXCEPT ![o] = "none"]
        /\ UNCHANGED <<store, plan, op, session, active, stale, worktree, changed, paused,
                       mutation, closing, shut, cleanup, faults, restarts>>
    BY DEF StopDone
  <1>2. /\ PhaseOK' /\ PlanOK' /\ RecordOK' /\ OneHolder' /\ Private' /\ OrphanOK'
        /\ OneSessionPerWorktree' /\ WorktreeOK' /\ CleanedIsGone' /\ NoFictionalRun'
    BY <1>1, QuietStepKeeps
  <1>3. Typed'
    BY <1>1 DEF RunsInv, Typed, Stores
  <1>4. ControlOK'
    BY <1>1 DEF RunsInv, Typed, ControlOK
  <1>5. AdmitsNone
    BY <1>1 DEF RunsInv, Typed, PhaseOK, AdmitsNone
  <1>6. QED BY <1>2, <1>3, <1>4, <1>5 DEF RunsInv

\* A privacy reset closes admissions.
LEMMA ResetForPrivacyKeeps ==
  ASSUME RunsInv, ResetForPrivacy
  PROVE  RunsInv' /\ AdmitsNone
  <1>1. /\ mutation' = "delete" /\ paused' = TRUE /\ closing' = "draining" /\ stale' \subseteq Runs
        /\ mutation = "none" /\ cleanup = Idle
        /\ UNCHANGED <<store, plan, op, session, active, worktree, changed, stops, shut, cleanup,
                       faults, restarts>>
    BY DEF ResetForPrivacy, BeginMutation, Invalidated
  <1>2. /\ PhaseOK' /\ PlanOK' /\ RecordOK' /\ OneHolder' /\ Private' /\ OrphanOK'
        /\ OneSessionPerWorktree' /\ WorktreeOK' /\ CleanedIsGone' /\ NoFictionalRun'
    BY <1>1, QuietStepKeeps
  <1>3. Typed'
    BY <1>1 DEF RunsInv, Typed, Stores
  <1>4. ControlOK'
    BY <1>1 DEF RunsInv, Typed, ControlOK
  <1>5. AdmitsNone
    BY <1>1 DEF RunsInv, Typed, PhaseOK, AdmitsNone
  <1>6. QED BY <1>2, <1>3, <1>4, <1>5 DEF RunsInv

\* So does a quit.
LEMMA PauseForShutdownKeeps ==
  ASSUME RunsInv, PauseForShutdown
  PROVE  RunsInv' /\ AdmitsNone
  <1>1. /\ mutation' = "quit" /\ paused' = TRUE /\ cleanup = Idle /\ mutation = "none"
        /\ UNCHANGED <<store, plan, op, session, active, stale, worktree, changed, stops, closing,
                       shut, cleanup, faults, restarts>>
    BY DEF PauseForShutdown, BeginMutation
  <1>2. /\ PhaseOK' /\ PlanOK' /\ RecordOK' /\ OneHolder' /\ Private' /\ OrphanOK'
        /\ OneSessionPerWorktree' /\ WorktreeOK' /\ CleanedIsGone' /\ NoFictionalRun'
    BY <1>1, QuietStepKeeps
  <1>3. Typed'
    BY <1>1 DEF RunsInv, Typed, Stores
  <1>4. ControlOK'
    BY <1>1 DEF RunsInv, Typed, ControlOK
  <1>5. AdmitsNone
    BY <1>1 DEF RunsInv, Typed, PhaseOK, AdmitsNone
  <1>6. QED BY <1>2, <1>3, <1>4, <1>5 DEF RunsInv

\* The quit goes on once nothing is in flight.
LEMMA DisposeKeeps ==
  ASSUME RunsInv, Dispose
  PROVE  RunsInv' /\ AdmitsNone
  <1>1. /\ mutation = "quit" /\ closing = "none" /\ closing' = "draining" /\ stale' \subseteq Runs
        /\ UNCHANGED <<store, plan, op, session, active, worktree, changed, stops, paused,
                       mutation, shut, cleanup, faults, restarts>>
    BY DEF Dispose, Invalidated
  <1>2. /\ PhaseOK' /\ PlanOK' /\ RecordOK' /\ OneHolder' /\ Private' /\ OrphanOK'
        /\ OneSessionPerWorktree' /\ WorktreeOK' /\ CleanedIsGone' /\ NoFictionalRun'
    BY <1>1, QuietStepKeeps
  <1>3. Typed'
    BY <1>1 DEF RunsInv, Typed, Stores
  <1>4. ControlOK'
    BY <1>1 DEF RunsInv, Typed, ControlOK
  <1>5. AdmitsNone
    BY <1>1 DEF RunsInv, Typed, PhaseOK, AdmitsNone
  <1>6. QED BY <1>2, <1>3, <1>4, <1>5 DEF RunsInv

\* All plans are given up and all sessions signalled.
LEMMA CloseRunsKeeps ==
  ASSUME RunsInv, CloseRuns
  PROVE  RunsInv' /\ AdmitsNone
  <1>1. /\ closing = "draining" /\ closing' = "stopping" /\ shut' = active
        /\ \A r \in Runs : op[r] \notin Tracked
        /\ UNCHANGED <<plan, active, stale, worktree, changed, stops, paused, mutation, cleanup,
                       faults, restarts>>
    BY DEF CloseRuns, Quiet, InFlight, NoFault
  <1>2. /\ session' \in [Runs -> Sessions]
        /\ \A r \in Runs : /\ Alive(r)' <=> Alive(r)
                           /\ Exited(r)' <=> Exited(r)
                           /\ session'[r] = "orphan" <=> session[r] = "orphan"
                           /\ session'[r] = "none" <=> session[r] = "none"
    BY DEF RunsInv, Typed, CloseRuns, Signalled, Sessions
  <1>3. PICK st \in {"lost", "terminated"} : store' = GivenUp(store, Pending, st)
    BY DEF CloseRuns
  <1>4. /\ store' \in Stores
        /\ \A r \in Runs :
             IF op[r] # "pending" THEN store'[r] = store[r]
             ELSE IF OwnsWorktreeCleanup(r) THEN Updated(store[r], store'[r], st, "cleanup-pending")
             ELSE Updated(store[r], store'[r], st, store[r].wstate)
    BY <1>3, GivenUpUpdates DEF RunsInv, Typed, RecordOK, Stores, Pending, Statuses
  <1>5. /\ op' \in [Runs -> Stages]
        /\ \A r \in Runs : op'[r] = IF op[r] # "pending" THEN op[r]
                                   ELSE IF OwnsWorktreeCleanup(r) THEN "closing" ELSE "over"
    BY DEF RunsInv, Typed, CloseRuns, GiveUp, Pending, Stages
  <1>6. Onward
    BY <1>1, <1>2, <1>4, <1>5 DEF RunsInv, Typed, PhaseOK, RecordOK, Onward, Unsettled, Updated
  <1>7. PlanOK' /\ OneHolder' /\ Private' /\ OrphanOK' /\ OneSessionPerWorktree'
    BY <1>6, OnwardKeeps
  <1>8. Typed'
    BY <1>1, <1>2, <1>4, <1>5 DEF RunsInv, Typed, Stores
  <1>9. PhaseOK'
    BY <1>1, <1>2, <1>4, <1>5 DEF RunsInv, Typed, PhaseOK, Updated
  <1>10. RecordOK'
    BY <1>1, <1>2, <1>4, <1>5, PlanKinds DEF RunsInv, Typed, PhaseOK, PlanOK, RecordOK, OneHolder,
       Updated
  <1>11. WorktreeOK'
    BY <1>1, <1>2, <1>4, <1>5 DEF RunsInv, Typed, WorktreeOK, Updated
  <1>12. CleanedIsGone'
    BY <1>1, <1>2, <1>4, <1>5 DEF RunsInv, Typed, PhaseOK, RecordOK, CleanedIsGone, Updated
  <1>13. NoFictionalRun'
    BY <1>1, <1>2, <1>4, <1>5 DEF RunsInv, Typed, NoFictionalRun, Updated
  <1>14. ControlOK'
    BY <1>1, <1>2, <1>4, <1>5 DEF RunsInv, Typed, PhaseOK, RecordOK, ControlOK, Updated, Stages
  <1>15. AdmitsNone
    BY <1>1, <1>2, <1>4, <1>5 DEF RunsInv, Typed, PhaseOK, AdmitsNone
  <1>16. QED BY <1>7, <1>8, <1>9, <1>10, <1>11, <1>12, <1>13, <1>14, <1>15 DEF RunsInv

\* The sessions have ended and their records are terminated.
LEMMA ClosedKeeps ==
  ASSUME RunsInv, Closed
  PROVE  RunsInv' /\ AdmitsNone
  <1>1. /\ closing = "stopping" /\ closing' = "closed" /\ shut' = {} /\ stale' = {}
        /\ \A r \in Runs : op[r] # "closing"
        /\ shut \cap active = {}
        /\ UNCHANGED <<plan, op, session, active, worktree, changed, stops, paused, mutation,
                       cleanup, faults, restarts>>
    BY DEF Closed, InFlight
  <1>2. /\ store' \in Stores
        /\ \A r \in Runs :
             IF r \in shut THEN Updated(store[r], store'[r], "terminated", store[r].wstate)
                           ELSE store'[r] = store[r]
    BY SaveStatusUpdates DEF RunsInv, Typed, ControlOK, Stores, Closed, Statuses
  <1>3. Onward
    BY <1>1, <1>2 DEF RunsInv, Typed, PhaseOK, RecordOK, Onward, Unsettled, Updated, ControlOK
  <1>4. PlanOK' /\ OneHolder' /\ Private' /\ OrphanOK' /\ OneSessionPerWorktree'
    BY <1>3, OnwardKeeps
  <1>5. Typed'
    BY <1>1, <1>2 DEF RunsInv, Typed, Stores
  <1>6. PhaseOK'
    BY <1>1, <1>2 DEF RunsInv, Typed, PhaseOK, RecordOK, Updated, ControlOK
  <1>7. RecordOK'
    BY <1>1, <1>2 DEF RunsInv, Typed, PhaseOK, PlanOK, RecordOK, OneHolder, Updated, ControlOK
  <1>8. WorktreeOK'
    BY <1>1, <1>2 DEF RunsInv, Typed, WorktreeOK, Updated
  <1>9. CleanedIsGone'
    BY <1>1, <1>2 DEF RunsInv, Typed, PhaseOK, PlanOK, RecordOK, Private, CleanedIsGone,
       Unsettled, Updated, ControlOK
  <1>10. NoFictionalRun'
    BY <1>1, <1>2 DEF RunsInv, Typed, NoFictionalRun, Updated
  <1>11. ControlOK'
    BY <1>1, <1>2 DEF RunsInv, Typed, PhaseOK, ControlOK, Updated
  <1>12. AdmitsNone
    BY <1>1, <1>2 DEF RunsInv, Typed, PhaseOK, AdmitsNone
  <1>13. QED BY <1>4, <1>5, <1>6, <1>7, <1>8, <1>9, <1>10, <1>11, <1>12 DEF RunsInv

\* Deleting the history leaves no record of any worktree.
LEMMA DeletionEndsKeeps ==
  ASSUME RunsInv, DeletionEnds
  PROVE  RunsInv' /\ AdmitsNone
  <1>1. /\ closing = "closed" /\ closing' = "none" /\ mutation' = "none" /\ paused' = FALSE
        /\ UNCHANGED <<plan, op, session, active, stale, worktree, changed, stops, shut, cleanup,
                       faults, restarts>>
    BY DEF DeletionEnds
  <1>2. /\ store' \in Stores
        /\ store' = store \/ \A r \in Runs : store'[r] = NoRecord
    BY DEF RunsInv, Typed, Stores, DeletionEnds
  <1>3. Typed'
    BY <1>1, <1>2 DEF RunsInv, Typed, Stores
  <1>4. PhaseOK'
    BY <1>1, <1>2 DEF RunsInv, Typed, PhaseOK, RecordOK, ControlOK
  <1>5. PlanOK'
    BY <1>1, <1>2 DEF RunsInv, Typed, PhaseOK, PlanOK, ControlOK
  <1>6. RecordOK'
    BY <1>1, <1>2 DEF RunsInv, Typed, PhaseOK, PlanOK, RecordOK, OneHolder, ControlOK
  <1>7. OneHolder'
    BY <1>1, <1>2 DEF RunsInv, Typed, OneHolder
  <1>8. Private'
    BY <1>1, <1>2 DEF RunsInv, Typed, Private, Unsettled
  <1>9. OrphanOK'
    BY <1>1, <1>2 DEF RunsInv, Typed, PhaseOK, PlanOK, RecordOK, Private, OrphanOK, ControlOK,
       Unsettled
  <1>10. OneSessionPerWorktree'
    BY <1>1, <1>2 DEF RunsInv, Typed, OneSessionPerWorktree
  <1>11. WorktreeOK'
    BY <1>1, <1>2 DEF RunsInv, Typed, WorktreeOK
  <1>12. CleanedIsGone'
    BY <1>1, <1>2 DEF RunsInv, Typed, CleanedIsGone
  <1>13. NoFictionalRun'
    BY <1>1, <1>2 DEF RunsInv, Typed, PhaseOK, RecordOK, NoFictionalRun, NoRecord
  <1>14. ControlOK'
    BY <1>1, <1>2 DEF RunsInv, Typed, ControlOK
  <1>15. AdmitsNone
    BY <1>1, <1>2 DEF RunsInv, Typed, PhaseOK, AdmitsNone
  <1>16. QED BY <1>3, <1>4, <1>5, <1>6, <1>7, <1>8, <1>9, <1>10, <1>11, <1>12, <1>13, <1>14, <1>15
         DEF RunsInv

\* A quit that is called off changes no run.
LEMMA QuitRefusedKeeps ==
  ASSUME RunsInv, QuitRefused
  PROVE  RunsInv' /\ AdmitsNone
  <1>1. /\ mutation = "quit" /\ closing = "none" /\ mutation' = "none" /\ paused' = FALSE
        /\ UNCHANGED <<store, plan, op, session, active, stale, worktree, changed, stops, closing,
                       shut, cleanup, faults, restarts>>
    BY DEF QuitRefused
  <1>2. /\ PhaseOK' /\ PlanOK' /\ RecordOK' /\ OneHolder' /\ Private' /\ OrphanOK'
        /\ OneSessionPerWorktree' /\ WorktreeOK' /\ CleanedIsGone' /\ NoFictionalRun'
    BY <1>1, QuietStepKeeps
  <1>3. Typed'
    BY <1>1 DEF RunsInv, Typed, Stores
  <1>4. ControlOK'
    BY <1>1 DEF RunsInv, Typed, ControlOK
  <1>5. AdmitsNone
    BY <1>1 DEF RunsInv, Typed, PhaseOK, AdmitsNone
  <1>6. QED BY <1>2, <1>3, <1>4, <1>5 DEF RunsInv

\* A crash turns sessions into orphans and unfinished records into lost ones.
LEMMA RestartKeeps ==
  ASSUME RunsInv, Restart
  PROVE  RunsInv' /\ AdmitsNone
  <1>1. /\ active' = {} /\ stale' = {} /\ stops' = [o \in Owners |-> "none"]
        /\ paused' = FALSE /\ mutation' = "none" /\ closing' = "none" /\ shut' = {} /\ cleanup' = Idle
        /\ restarts' = restarts + 1
        /\ UNCHANGED <<plan, worktree, changed, faults>>
    BY DEF Restart
  <1>2. /\ op' \in [Runs -> Stages] /\ session' \in [Runs -> Sessions]
        /\ \A r \in Runs : /\ op'[r] = IF op[r] = "idle" THEN "idle" ELSE "over"
                           /\ session'[r] = IF Alive(r) \/ session[r] = "orphan" THEN "orphan" ELSE "none"
    BY DEF RunsInv, Typed, Restart, Stages, Sessions
  <1>3. /\ store' \in Stores
        /\ \A r \in Runs : IF Recorded(r) /\ store[r].status \in NonTerminal
                           THEN Updated(store[r], store'[r], "lost", store[r].wstate)
                           ELSE store'[r] = store[r]
    BY RecoveryUpdates DEF RunsInv, Typed, Stores, NoRecord, Restart
  <1>4. Typed'
    <2>1. stops' \in [Owners -> {"none", "draining", "stopping", "awaiting"}] /\ cleanup' \in Cleanups
      BY <1>1 DEF Cleanups
    <2>2. worktree' \in [Runs -> {"none", "intact", "partial", "gone"}] /\ changed' \in [Runs -> BOOLEAN]
          /\ plan' \in [Runs -> Plans \cup {NoPlan}] /\ faults' \in Nat /\ restarts' \in Nat
      BY <1>1 DEF RunsInv, Typed
    <2>3. paused' \in BOOLEAN /\ active' \subseteq Runs /\ stale' \subseteq Runs /\ shut' \subseteq Runs
          /\ mutation' = "none" /\ closing' = "none"
      BY <1>1
    <2>4. QED BY <1>2, <1>3, <2>1, <2>2, <2>3 DEF Typed, Stores
  <1>5. PhaseOK'
    BY <1>1, <1>2, <1>3 DEF RunsInv, Typed, PhaseOK, Updated
  <1>6. PlanOK'
    BY <1>1, <1>2, <1>3 DEF RunsInv, Typed, PlanOK, Updated
  <1>7. RecordOK'
    BY <1>1, <1>2, <1>3 DEF RunsInv, Typed, RecordOK, Updated
  <1>8. OneHolder'
    BY <1>1, <1>2, <1>3 DEF RunsInv, Typed, OneHolder, Updated
  <1>9. Private'
    BY <1>1, <1>2, <1>3 DEF RunsInv, Typed, Private, Unsettled, Updated
  <1>10. OrphanOK'
    BY <1>1, <1>2, <1>3 DEF RunsInv, Typed, PhaseOK, RecordOK, OrphanOK, Updated
  <1>11. OneSessionPerWorktree'
    BY <1>1, <1>2, <1>3 DEF RunsInv, Typed, OneSessionPerWorktree, Updated
  <1>12. WorktreeOK'
    BY <1>1, <1>2, <1>3 DEF RunsInv, Typed, WorktreeOK, Updated
  <1>13. CleanedIsGone'
    BY <1>1, <1>2, <1>3 DEF RunsInv, Typed, CleanedIsGone, Updated
  <1>14. NoFictionalRun'
    BY <1>1, <1>2, <1>3 DEF RunsInv, Typed, PhaseOK, RecordOK, NoFictionalRun, Updated
  <1>15. ControlOK'
    BY <1>1, <1>2, <1>3 DEF RunsInv, Typed, ControlOK, Updated
  <1>16. AdmitsNone
    BY <1>1, <1>2, <1>3 DEF RunsInv, Typed, PhaseOK, AdmitsNone
  <1>17. QED BY <1>4, <1>5, <1>6, <1>7, <1>8, <1>9, <1>10, <1>11, <1>12, <1>13, <1>14, <1>15,
          <1>16 DEF RunsInv

\* A cleanup declares the worktree of a holder to be going.
LEMMA BeginCleanupKeeps ==
  ASSUME RunsInv, BeginCleanup
  PROVE  RunsInv' /\ AdmitsNone
  <1>1. /\ cleanup.run \in Runs /\ cleanup # Idle /\ Recorded(cleanup.run)
    BY DEF RunsInv, Typed, ControlOK, Cleanups, Idle, BeginCleanup
  <1>2. /\ cleanup' \in Cleanups
        /\ cleanup' = Idle \/ (cleanup'.run = cleanup.run /\ paused' = paused)
        /\ paused' \in BOOLEAN
    <2>1. CASE cleanup' = Idle /\ paused' = FALSE
      BY <2>1 DEF Cleanups
    <2>2. CASE /\ \E b \in BOOLEAN : cleanup' = [stage |-> "removing", run |-> cleanup.run, recovery |-> b]
               /\ UNCHANGED paused
      BY <1>1, <2>2 DEF RunsInv, Typed, Cleanups
    <2>3. QED BY <2>1, <2>2 DEF BeginCleanup
  <1>3. UNCHANGED <<plan, op, session, active, stale, worktree, changed, stops, mutation, closing,
                    shut, faults, restarts>>
    BY DEF BeginCleanup
  <1>4. /\ store' \in Stores
        /\ \/ store' = store
           \/ /\ Holds(cleanup.run) /\ store[cleanup.run].status \in Terminal
              /\ Updated(store[cleanup.run], store'[cleanup.run], store[cleanup.run].status, "cleanup-pending")
              /\ \A x \in Runs \ {cleanup.run} : store'[x] = store[x]
    BY <1>1, TransitionUpdates DEF RunsInv, Typed, Stores, Wstates, BeginCleanup, resolvesActive
  <1>5. Onward
    BY <1>1, <1>2, <1>3, <1>4 DEF RunsInv, Typed, PhaseOK, RecordOK, Onward, Unsettled, Updated
  <1>6. PlanOK' /\ OneHolder' /\ Private' /\ OrphanOK' /\ OneSessionPerWorktree'
    BY <1>5, OnwardKeeps
  <1>7. Typed'
    BY <1>1, <1>2, <1>3, <1>4 DEF RunsInv, Typed, Stores
  <1>8. PhaseOK'
    BY <1>1, <1>2, <1>3, <1>4 DEF RunsInv, Typed, PhaseOK, Updated
  <1>9. RecordOK'
    BY <1>1, <1>2, <1>3, <1>4 DEF RunsInv, Typed, RecordOK, Updated
  <1>10. WorktreeOK'
    BY <1>1, <1>2, <1>3, <1>4 DEF RunsInv, Typed, WorktreeOK, Updated
  <1>11. CleanedIsGone'
    BY <1>1, <1>2, <1>3, <1>4 DEF RunsInv, Typed, CleanedIsGone, Updated
  <1>12. NoFictionalRun'
    BY <1>1, <1>2, <1>3, <1>4 DEF RunsInv, Typed, NoFictionalRun, Updated
  <1>13. ControlOK'
    <2>1. paused /\ mutation = "none" /\ closing = "none" /\ shut = {}
      BY <1>1 DEF RunsInv, Typed, ControlOK
    <2>2. \A x \in Runs : op[x] \notin Tracked \cup {"pending", "running"}
      BY <1>1 DEF RunsInv, ControlOK
    <2>3. store'[cleanup.run] # NoRecord
      BY <1>1, <1>5 DEF Onward
    <2>4. cleanup' # Idle => /\ paused' /\ cleanup'.run \in Runs /\ store'[cleanup'.run] # NoRecord
                            /\ \A x \in Runs : op'[x] \notin Tracked \cup {"pending", "running"}
      BY <1>1, <1>2, <1>3, <2>1, <2>2, <2>3
    <2>5. QED BY <1>3, <2>1, <2>2, <2>4 DEF ControlOK
  <1>14. AdmitsNone
    BY <1>1, <1>2, <1>3, <1>4 DEF RunsInv, Typed, PhaseOK, AdmitsNone
  <1>15. QED BY <1>6, <1>7, <1>8, <1>9, <1>10, <1>11, <1>12, <1>13, <1>14 DEF RunsInv

\* The cleanup removes the worktree and tells every record of it.
LEMMA CleanWorktreeKeeps ==
  ASSUME RunsInv, CleanWorktree
  PROVE  RunsInv' /\ AdmitsNone
  <1>1. /\ cleanup.run \in Runs /\ cleanup # Idle /\ Recorded(cleanup.run)
    BY DEF RunsInv, Typed, ControlOK, Cleanups, Idle, CleanWorktree
  <1>2. /\ store[cleanup.run].worktree \in Runs
        /\ worktree' \in [Runs -> {"none", "intact", "partial", "gone"}]
        /\ \A w \in Runs : worktree[w] = "gone" => worktree'[w] = "gone"
        /\ faults' \in Nat /\ (faults' = 0 => faults = 0)
    BY <1>1, RecordKinds DEF RunsInv, Typed, CleanWorktree, NoFault, Fault, Undisturbed
  <1>3. /\ cleanup' \in Cleanups
        /\ cleanup' = Idle \/ (cleanup' = cleanup /\ paused' = paused)
        /\ paused' \in BOOLEAN
        /\ UNCHANGED <<plan, op, session, active, stale, changed, stops, mutation, closing, shut,
                       restarts>>
    BY <1>1 DEF RunsInv, Typed, Cleanups, CleanWorktree
  <1>4. /\ store' \in Stores
        /\ \/ store' = store
           \/ /\ worktree'[store[cleanup.run].worktree] = "gone"
              /\ store[cleanup.run].wstate = "cleanup-pending"
              /\ store' = transitionRunWorktreeState(store, cleanup.run, "cleaned")
    BY <1>1, <1>2, TransitionUpdates DEF RunsInv, Typed, Stores, Wstates, CleanWorktree
  <1>5. store' = store \/ \A x \in Runs :
          IF InWorktree(x, store[cleanup.run].worktree)
          THEN Updated(store[x], store'[x], store[x].status, "cleaned") ELSE store'[x] = store[x]
    BY <1>1, <1>4, TransitionUpdates DEF RunsInv, Typed, Stores, Wstates
  <1>6. Onward
    BY <1>1, <1>2, <1>3, <1>4, <1>5 DEF RunsInv, Typed, PhaseOK, RecordOK, Onward, Unsettled,
       Updated
  <1>7. PlanOK' /\ OneHolder' /\ Private' /\ OrphanOK' /\ OneSessionPerWorktree'
    BY <1>6, OnwardKeeps
  <1>8. Typed'
    BY <1>1, <1>2, <1>3, <1>4, <1>5 DEF RunsInv, Typed, Stores
  <1>9. PhaseOK'
    BY <1>1, <1>2, <1>3, <1>4, <1>5 DEF RunsInv, Typed, PhaseOK, Updated
  <1>10. RecordOK'
    BY <1>1, <1>2, <1>3, <1>4, <1>5 DEF RunsInv, Typed, PhaseOK, PlanOK, RecordOK, OneHolder,
       Updated, ControlOK
  <1>11. WorktreeOK'
    BY <1>1, <1>2, <1>3, <1>4, <1>5 DEF RunsInv, Typed, PhaseOK, PlanOK, RecordOK, Private,
       WorktreeOK, ControlOK, Unsettled, Updated
  <1>12. CleanedIsGone'
    BY <1>1, <1>2, <1>3, <1>4, <1>5, RecordKinds DEF RunsInv, Typed, PhaseOK, PlanOK, RecordOK,
       Private, CleanedIsGone, Unsettled, Updated
  <1>13. NoFictionalRun'
    BY <1>1, <1>2, <1>3, <1>4, <1>5 DEF RunsInv, Typed, NoFictionalRun, Updated
  <1>14. ControlOK'
    <2>1. paused /\ mutation = "none" /\ closing = "none" /\ shut = {}
      BY <1>1 DEF RunsInv, Typed, ControlOK
    <2>2. \A x \in Runs : op[x] \notin Tracked \cup {"pending", "running"}
      BY <1>1 DEF RunsInv, ControlOK
    <2>3. store'[cleanup.run] # NoRecord
      BY <1>1, <1>6 DEF Onward
    <2>4. cleanup' # Idle => /\ paused' /\ cleanup'.run \in Runs /\ store'[cleanup'.run] # NoRecord
                            /\ \A x \in Runs : op'[x] \notin Tracked \cup {"pending", "running"}
      BY <1>1, <1>3, <2>1, <2>2, <2>3
    <2>5. QED BY <1>3, <2>1, <2>2, <2>4 DEF ControlOK
  <1>15. AdmitsNone
    BY <1>1, <1>2, <1>3, <1>4, <1>5 DEF RunsInv, Typed, PhaseOK, AdmitsNone
  <1>16. QED BY <1>7, <1>8, <1>9, <1>10, <1>11, <1>12, <1>13, <1>14, <1>15 DEF RunsInv

\* A failed cleanup reactivates only an untouched worktree.
LEMMA CleanupFailsKeeps ==
  ASSUME RunsInv, CleanupFails
  PROVE  RunsInv' /\ AdmitsNone
  <1>1. /\ cleanup.run \in Runs /\ cleanup # Idle /\ Recorded(cleanup.run)
    BY DEF RunsInv, Typed, ControlOK, Cleanups, Idle, CleanupFails
  <1>2. /\ cleanup' = Idle /\ paused' = FALSE /\ faults' \in Nat /\ faults' # 0
        /\ UNCHANGED <<plan, op, session, active, stale, worktree, changed, stops, mutation,
                       closing, shut, restarts>>
    BY DEF RunsInv, Typed, CleanupFails, Fault, Undisturbed
  <1>3. /\ store' \in Stores
        /\ \/ store' = store
           \/ /\ Updated(store[cleanup.run], store'[cleanup.run], store[cleanup.run].status, "active")
              /\ \A x \in Runs \ {cleanup.run} : store'[x] = store[x]
    BY <1>1, TransitionUpdates DEF RunsInv, Typed, Stores, Wstates, CleanupFails
  <1>4. Onward
    BY <1>1, <1>2, <1>3 DEF RunsInv, Typed, PhaseOK, RecordOK, Onward, Unsettled, Updated
  <1>5. PlanOK' /\ OneHolder' /\ Private' /\ OrphanOK' /\ OneSessionPerWorktree'
    BY <1>4, OnwardKeeps
  <1>6. Typed'
    BY <1>1, <1>2, <1>3 DEF RunsInv, Typed, Stores, Updated, Cleanups
  <1>7. PhaseOK'
    BY <1>1, <1>2, <1>3 DEF RunsInv, Typed, PhaseOK, Updated
  <1>8. RecordOK'
    BY <1>1, <1>2, <1>3 DEF RunsInv, Typed, RecordOK, Updated
  <1>9. WorktreeOK'
    BY <1>1, <1>2, <1>3 DEF RunsInv, Typed, WorktreeOK, Updated
  <1>10. CleanedIsGone'
    BY <1>1, <1>2, <1>3 DEF RunsInv, Typed, CleanedIsGone, Updated
  <1>11. NoFictionalRun'
    BY <1>1, <1>2, <1>3 DEF RunsInv, Typed, NoFictionalRun, Updated
  <1>12. ControlOK'
    BY <1>1, <1>2, <1>3 DEF RunsInv, Typed, ControlOK, Updated
  <1>13. AdmitsNone
    BY <1>1, <1>2, <1>3 DEF RunsInv, Typed, PhaseOK, AdmitsNone
  <1>14. QED BY <1>5, <1>6, <1>7, <1>8, <1>9, <1>10, <1>11, <1>12, <1>13 DEF RunsInv

-----------------------------------------------------------------------------
(* The invariant, and what follows from it.                                *)

\* The history of an earlier process satisfies the invariant.
LEMMA InitKeeps == RunsInit => RunsInv
  <1> SUFFICES ASSUME RunsInit PROVE RunsInv
    OBVIOUS
  <1>1. \A r \in Runs : IF r \in History THEN store[r] = InterruptedRun(r) ELSE store[r] = NoRecord
    BY DEF RunsInit
  <1>2. \A r \in History : /\ InterruptedRun(r) \in Records /\ InterruptedRun(r) # NoRecord
                           /\ InterruptedRun(r).worktree = r
                           /\ InterruptedRun(r).status = "interrupted"
                           /\ InterruptedRun(r).wstate = "active"
    BY DEF InterruptedRun, Records, NoRecord
  <1>3. /\ store \in Stores
        /\ \A r \in Runs : Recorded(r) <=> r \in History
        /\ \A r \in Runs : Recorded(r) => /\ store[r].worktree = r /\ store[r].wstate = "active"
                                          /\ store[r].status = "interrupted"
    <2>1. store = [r \in Runs |-> store[r]]
      BY DEF RunsInit
    <2>2. \A r \in Runs : store[r] \in Records \cup {NoRecord}
      BY <1>1, <1>2
    <2>3. QED BY <1>1, <1>2, <2>1, <2>2 DEF Stores
  <1>4. /\ plan = [r \in Runs |-> NoPlan] /\ session = [r \in Runs |-> "none"] /\ active = {}
        /\ op = [r \in Runs |-> IF r \in History THEN "over" ELSE "idle"]
        /\ closing = "none" /\ mutation = "none" /\ shut = {} /\ cleanup = Idle
        /\ stops = [o \in Owners |-> "none"]
    BY DEF RunsInit
  <1>5. Typed
    <2>1. op \in [Runs -> Stages] /\ session \in [Runs -> Sessions]
      BY <1>4 DEF Stages, Sessions
    <2>2. cleanup \in Cleanups /\ plan \in [Runs -> Plans \cup {NoPlan}]
      BY <1>4 DEF Cleanups
    <2>3. /\ stops \in [Owners -> {"none", "draining", "stopping", "awaiting"}]
          /\ worktree \in [Runs -> {"none", "intact", "partial", "gone"}]
          /\ changed \in [Runs -> BOOLEAN] /\ paused \in BOOLEAN /\ stale = {}
          /\ faults \in Nat /\ restarts \in Nat
      BY DEF RunsInit
    <2>4. QED BY <1>3, <1>4, <2>1, <2>2, <2>3 DEF Typed, Stores
  <1>6. PhaseOK /\ PlanOK /\ RecordOK
    BY <1>3, <1>4 DEF PhaseOK, PlanOK, RecordOK
  <1>7. OneHolder /\ Private /\ OrphanOK /\ OneSessionPerWorktree
    BY <1>3, <1>4 DEF OneHolder, Private, OrphanOK, OneSessionPerWorktree
  <1>8. WorktreeOK /\ CleanedIsGone /\ ControlOK
    BY <1>3, <1>4 DEF WorktreeOK, CleanedIsGone, ControlOK
  <1>9. NoFictionalRun
    BY <1>1, <1>2 DEF NoFictionalRun, NoRecord
  <1>10. QED BY <1>5, <1>6, <1>7, <1>8, <1>9 DEF RunsInv

\* Only Prepare and Launch admit somebody.
LEMMA NextKeeps ==
  ASSUME RunsInv, RunsNext
  PROVE  /\ RunsInv'
         /\ \/ AdmitsNone
            \/ \E r \in Runs : Launch(r)
            \/ \E r \in Runs, o \in Owners, a \in {"launch", "resume", "retry"},
                  p \in Runs \cup {NoRun} : Prepare(r, o, a, p)
  <1>1. ASSUME NEW r \in Runs, Step(r)
        PROVE  /\ RunsInv'
               /\ \/ AdmitsNone
                  \/ Launch(r)
                  \/ \E o \in Owners, a \in {"launch", "resume", "retry"},
                        p \in Runs \cup {NoRun} : Prepare(r, o, a, p)
    BY <1>1, PrepareKeeps, ChooseTargetKeeps, SavePlanKeeps, PrepareFailsKeeps, LaunchKeeps,
       AuthorizeKeeps, SpawnKeeps, RegisterKeeps, LaunchFailsKeeps, PauseOrContinueKeeps,
       SessionExitsKeeps, TrackKeeps, TerminateSessionKeeps, DiscardKeeps,
       RemoveOwnWorktreeKeeps, RemovalFailsKeeps, ReviewInterruptedCleanupKeeps,
       ConfirmCleanupKeeps, Zenon DEF Step
  <1>2. ASSUME NEW o \in Owners,
               StopOwner(o) \/ StopDrained(o) \/ StopPlan(o) \/ StopSignals(o) \/ StopDone(o)
        PROVE  RunsInv' /\ AdmitsNone
    BY <1>2, StopOwnerKeeps, StopDrainedKeeps, StopPlanKeeps, StopSignalsKeeps, StopDoneKeeps, Zenon
  <1>3. ASSUME \/ ResetForPrivacy \/ PauseForShutdown \/ Dispose \/ CloseRuns \/ Closed
               \/ DeletionEnds \/ QuitRefused \/ Restart
               \/ BeginCleanup \/ CleanWorktree \/ CleanupFails
        PROVE  RunsInv' /\ AdmitsNone
    BY <1>3, ResetForPrivacyKeeps, PauseForShutdownKeeps, DisposeKeeps, CloseRunsKeeps, ClosedKeeps,
       DeletionEndsKeeps, QuitRefusedKeeps, RestartKeeps, BeginCleanupKeeps, CleanWorktreeKeeps,
       CleanupFailsKeeps, Zenon
  <1>4. QED BY <1>1, <1>2, <1>3, Zenon DEF RunsNext

\* Doing nothing keeps the invariant.
LEMMA StutterKeeps == RunsInv /\ UNCHANGED vars => RunsInv'
  <1> SUFFICES ASSUME RunsInv, UNCHANGED vars PROVE RunsInv'
    OBVIOUS
  <1>1. Typed' /\ ControlOK'
    BY DEF RunsInv, Typed, ControlOK
  <1>2. QED BY <1>1, QuietStepKeeps DEF RunsInv

\* RunsInv holds in every state the runtime can reach.
THEOREM RunsInvariant == RunsSpec => []RunsInv
  <1>1. RunsInv /\ [RunsNext]_vars => RunsInv'
    <2> SUFFICES ASSUME RunsInv, [RunsNext]_vars PROVE RunsInv'
      OBVIOUS
    <2>1. CASE RunsNext
      BY <2>1, NextKeeps
    <2>2. CASE UNCHANGED vars
      BY <2>2, StutterKeeps
    <2>3. QED BY <2>1, <2>2
  <1>2. QED BY <1>1, InitKeeps, PTL DEF RunsSpec

\* No two agent processes ever work in one managed worktree, however many attempts,
\* resumes, crashes and orphans there are.
THEOREM OneSessionPerWorktreeAlways == RunsSpec => []OneSessionPerWorktree
  <1>1. RunsInv => OneSessionPerWorktree
    BY DEF RunsInv
  <1>2. QED BY <1>1, RunsInvariant, PTL

\* Every supervised process is reachable, its record holds the authority over its
\* worktree, and without a refused write or Git command that worktree is whole.
THEOREM SessionsAreAlwaysHeld == RunsSpec => []SessionsAreHeld
  <1>1. RunsInv => SessionsAreHeld
    <2> SUFFICES ASSUME RunsInv, NEW r \in Runs, Alive(r)
                 PROVE  /\ r \in active \/ op[r] \in {"spawned", "aborting"}
                        /\ store[r] # NoRecord
                        /\ store[r].authority = "owned" /\ store[r].superseded = NoRun
                        /\ store[r].wstate = "active"
                        /\ faults = 0 => worktree[Target(r)] = "intact"
      BY DEF SessionsAreHeld
    <2>1. op[r] \in WithProcess /\ (op[r] \in {"running", "unsaved"} => r \in active)
      BY DEF RunsInv, PhaseOK
    <2>2. QED BY <2>1 DEF RunsInv, RecordOK, WorktreeOK
  <1>2. QED BY <1>1, RunsInvariant, PTL

\* Without a refused write no record claims a prepared, running or paused run that
\* has no plan, operation or process behind it.
THEOREM NoRunIsFictional == RunsSpec => []NoFictionalRun
  <1>1. RunsInv => NoFictionalRun
    BY DEF RunsInv
  <1>2. QED BY <1>1, RunsInvariant, PTL

\* A worktree the history calls cleaned is gone, whoever removed it.
THEOREM CleanedIsAlwaysGone == RunsSpec => []CleanedIsGone
  <1>1. RunsInv => CleanedIsGone
    BY DEF RunsInv
  <1>2. QED BY <1>1, RunsInvariant, PTL

\* The stop of an owner returns only through StopDone, or ends with the application.
LEMMA StopReturns ==
  ASSUME RunsNext, NEW o \in Owners, stops[o] = "awaiting", stops'[o] = "none", RunsInv
  PROVE  StopDone(o) \/ Restart
  <1>1. ASSUME NEW r \in Runs, Step(r) PROVE stops' = stops
    BY <1>1 DEF Step, Prepare, ChooseTarget, SavePlan, PrepareFails, Launch, Authorize, Spawn,
       Register, LaunchFails, LaunchFailure, PauseOrContinue, SessionExits, Track, TerminateSession,
       Discard, RemoveOwnWorktree, RemovalFails, ReviewInterruptedCleanup, ConfirmCleanup, control
  <1>2. ASSUME NEW q \in Owners, StopOwner(q) \/ StopDrained(q) \/ StopPlan(q) \/ StopSignals(q)
        PROVE  stops' = stops \/ \E s \in {"draining", "stopping", "awaiting"} :
                                   stops' = [stops EXCEPT ![q] = s]
    BY <1>2 DEF StopOwner, StopDrained, StopPlan, StopSignals, control
  <1>3. ASSUME NEW q \in Owners, StopDone(q) PROVE stops' = [stops EXCEPT ![q] = "none"]
    BY <1>3 DEF StopDone
  <1>4. ASSUME \/ ResetForPrivacy \/ PauseForShutdown \/ Dispose \/ CloseRuns \/ Closed
               \/ DeletionEnds \/ QuitRefused
               \/ BeginCleanup \/ CleanWorktree \/ CleanupFails
        PROVE  stops' = stops
    BY <1>4 DEF ResetForPrivacy, PauseForShutdown, Dispose, CloseRuns, Closed, DeletionEnds,
       QuitRefused, BeginCleanup, CleanWorktree, CleanupFails, control
  <1>5. stops' # stops /\ stops \in [Owners -> {"none", "draining", "stopping", "awaiting"}]
    BY DEF RunsInv, Typed
  <1>6. ASSUME NEW q \in Owners, StopOwner(q) \/ StopDrained(q) \/ StopPlan(q) \/ StopSignals(q)
        PROVE  FALSE
    BY <1>2, <1>5, <1>6
  <1>7. ASSUME NEW q \in Owners, StopDone(q) PROVE q = o
    BY <1>3, <1>5, <1>7
  <1>8. QED BY <1>1, <1>4, <1>5, <1>6, <1>7 DEF RunsNext

\* Once resetForPrivacy or dispose has returned no supervised process runs and no
\* plan can be launched; once the stop of an owner has returned none of its
\* processes runs.
THEOREM NothingOutlives == RunsSpec => NothingOutlivesItsOwner
  <1> DEFINE Left == /\ closing' = "closed" =>
                          \A r \in Runs : ~Alive(r)' /\ op'[r] \in {"idle", "over", "dropping"}
                     /\ \A o \in Owners : stops[o] = "awaiting" /\ stops'[o] = "none" =>
                          \A r \in Runs : plan[r] # NoPlan /\ plan[r].owner = o => ~Alive(r)'
  <1>1. RunsInv /\ RunsInv' /\ [RunsNext]_vars => [Left]_vars
    <2> SUFFICES ASSUME RunsInv, RunsInv', RunsNext PROVE Left
      OBVIOUS
    <2>1. closing' = "closed" =>
            \A r \in Runs : ~Alive(r)' /\ op'[r] \in {"idle", "over", "dropping"}
      BY DEF RunsInv, PhaseOK, ControlOK, WithProcess, Held, Claimed
    <2>2. ASSUME NEW o \in Owners, stops[o] = "awaiting", stops'[o] = "none",
                 NEW r \in Runs, plan[r] # NoPlan, plan[r].owner = o
          PROVE  ~Alive(r)'
      <3>1. StopDone(o) \/ Restart
        BY <2>2, StopReturns
      <3>2. CASE StopDone(o)
        <4>1. r \notin active /\ session' = session
          BY <2>2, <3>2 DEF StopDone, OwnedBy
        <4>2. op[r] \notin Tracked \ {"expiring"}
          BY <2>2 DEF RunsInv, ControlOK
        <4>3. ~Alive(r)
          BY <2>2, <4>1, <4>2 DEF RunsInv, PhaseOK, WithProcess, Held, Claimed, Tracked, Launching
        <4>4. QED BY <4>1, <4>3
      <3>3. CASE Restart
        BY <3>3 DEF Restart
      <3>4. QED BY <3>1, <3>2, <3>3
    <2>3. QED BY <2>1, <2>2
  <1>2. QED BY <1>1, RunsInvariant, PTL DEF RunsSpec, NothingOutlivesItsOwner, Left

-----------------------------------------------------------------------------
(* Admission.                                                              *)

Plannings == Pending \cup InFlight(Preparing)
Launches == active \cup InFlight(Launching)

\* The admission limits, on sets that are finite because they grow one by one.
AdmissionOK ==
  /\ IsFiniteSet(Plannings) /\ IsFiniteSet(Launches)
  /\ Cardinality(Plannings) <= MaxPending /\ Cardinality(Launches) <= MaxActive
  /\ \A o \in Owners : /\ Cardinality(OwnedBy(Plannings, o)) <= MaxPendingPerOwner
                       /\ Cardinality(OwnedBy(Launches, o)) <= MaxActivePerOwner

\* A subset of a finite set is finite and not larger.
LEMMA Smaller ==
  ASSUME NEW S, NEW Q, IsFiniteSet(S), Q \subseteq S, NEW n \in Nat, Cardinality(S) <= n
  PROVE  IsFiniteSet(Q) /\ Cardinality(Q) <= n
  <1>1. IsFiniteSet(Q) /\ Cardinality(Q) <= Cardinality(S)
    BY FS_Subset
  <1>2. Cardinality(Q) \in Nat /\ Cardinality(S) \in Nat
    BY <1>1, FS_CardinalityType
  <1>3. QED BY <1>1, <1>2

\* A set below its limit takes one more.
LEMMA OneMore ==
  ASSUME NEW S, NEW Q, NEW x, IsFiniteSet(S), Q \subseteq S \cup {x}, NEW n \in Nat,
         Cardinality(S) < n
  PROVE  IsFiniteSet(Q) /\ Cardinality(Q) <= n
  <1>1. IsFiniteSet(S \cup {x}) /\ Cardinality(S) \in Nat
        /\ Cardinality(S \cup {x}) \in {Cardinality(S), Cardinality(S) + 1}
    BY FS_AddElement, FS_CardinalityType
  <1>2. QED BY <1>1, Smaller

\* A step that admits nobody keeps the limits.
LEMMA AdmitsNoneKeeps ==
  ASSUME Typed, Typed', AdmissionOK, AdmitsNone
  PROVE  AdmissionOK'
  <1>1. Plannings' \subseteq Plannings /\ Launches' \subseteq Launches
    BY DEF Typed, AdmitsNone, Plannings, Launches, Pending, InFlight
  <1>2. \A o \in Owners : /\ OwnedBy(Plannings, o)' \subseteq OwnedBy(Plannings, o)
                          /\ OwnedBy(Launches, o)' \subseteq OwnedBy(Launches, o)
    BY <1>1 DEF OwnedBy, AdmitsNone
  <1>3. \A o \in Owners : IsFiniteSet(OwnedBy(Plannings, o)) /\ IsFiniteSet(OwnedBy(Launches, o))
    <2>1. \A o \in Owners : /\ OwnedBy(Plannings, o) \subseteq Plannings
                            /\ OwnedBy(Launches, o) \subseteq Launches
      BY DEF OwnedBy
    <2>2. QED BY <2>1, FS_Subset DEF AdmissionOK
  <1>4. /\ IsFiniteSet(Plannings') /\ Cardinality(Plannings') <= MaxPending
        /\ IsFiniteSet(Launches') /\ Cardinality(Launches') <= MaxActive
    BY <1>1, Smaller, AgentRunsAssumption DEF AdmissionOK
  <1>5. ASSUME NEW o \in Owners
        PROVE  /\ Cardinality(OwnedBy(Plannings, o)') <= MaxPendingPerOwner
               /\ Cardinality(OwnedBy(Launches, o)') <= MaxActivePerOwner
    BY <1>2, <1>3, Smaller, AgentRunsAssumption DEF AdmissionOK
  <1>6. QED BY <1>4, <1>5 DEF AdmissionOK

\* The plans and the launches of an owner are among all of them.
LEMMA OwnedIsFinite ==
  ASSUME AdmissionOK, NEW o \in Owners
  PROVE  IsFiniteSet(OwnedBy(Plannings, o)) /\ IsFiniteSet(OwnedBy(Launches, o))
  <1>1. OwnedBy(Plannings, o) \subseteq Plannings /\ OwnedBy(Launches, o) \subseteq Launches
    BY DEF OwnedBy
  <1>2. QED BY <1>1, FS_Subset DEF AdmissionOK

\* prepare counts the plans being prepared together with those that are pending.
LEMMA PrepareAdmits ==
  ASSUME RunsInv, AdmissionOK, NEW r \in Runs, NEW o \in Owners,
         NEW a \in {"launch", "resume", "retry"}, NEW p \in Runs \cup {NoRun}, Prepare(r, o, a, p)
  PROVE  AdmissionOK'
  <1>1. /\ \A x \in Runs \ {r} : plan'[x] = plan[x] /\ op'[x] = op[x]
        /\ active' = active /\ op[r] = "idle" /\ op'[r] = "preparing" /\ plan'[r].owner = o
    BY DEF RunsInv, Typed, Prepare, Become
  <1>2. r \notin Launches /\ active \subseteq Runs
    BY <1>1 DEF RunsInv, Typed, PhaseOK, Launches, InFlight, Launching
  <1>3. Plannings' = Plannings \cup {r} /\ Launches' = Launches
    BY <1>1, <1>2 DEF Plannings, Launches, Pending, InFlight, Preparing, Launching
  <1>4. /\ r \notin Plannings /\ Plannings \subseteq Runs /\ Launches \subseteq Runs
    BY <1>1, <1>2 DEF Plannings, Launches, Pending, InFlight, Preparing
  <1>5. /\ OwnedBy(Plannings, o)' \subseteq OwnedBy(Plannings, o) \cup {r}
        /\ \A q \in Owners \ {o} : OwnedBy(Plannings, q)' = OwnedBy(Plannings, q)
        /\ \A q \in Owners : OwnedBy(Launches, q)' = OwnedBy(Launches, q)
    BY <1>1, <1>2, <1>3, <1>4 DEF OwnedBy
  <1>6. /\ Cardinality(Plannings) < MaxPending
        /\ Cardinality(OwnedBy(Plannings, o)) < MaxPendingPerOwner
    BY DEF Prepare, reservePreparation, Plannings
  <1>7. IsFiniteSet(Plannings') /\ Cardinality(Plannings') <= MaxPending
    BY <1>3, <1>6, OneMore, AgentRunsAssumption DEF AdmissionOK
  <1>8. Cardinality(OwnedBy(Plannings, o)') <= MaxPendingPerOwner
    BY <1>5, <1>6, OneMore, OwnedIsFinite, AgentRunsAssumption
  <1>9. QED BY <1>3, <1>5, <1>7, <1>8 DEF AdmissionOK

\* launch counts the launches in flight together with the runs in #active.
LEMMA LaunchAdmits ==
  ASSUME RunsInv, AdmissionOK, NEW r \in Runs, Launch(r)
  PROVE  AdmissionOK'
  <1>1. /\ \A x \in Runs \ {r} : op'[x] = op[x]
        /\ active' = active /\ plan' = plan /\ op[r] = "pending" /\ op'[r] = "launching"
    BY DEF RunsInv, Typed, Launch, Become
  <1>2. PICK o \in Owners : o = plan[r].owner
    BY <1>1, PlanKinds DEF RunsInv, Typed, PhaseOK
  <1>3. Launches' = Launches \cup {r} /\ Plannings' \subseteq Plannings
    BY <1>1 DEF Plannings, Launches, Pending, InFlight, Preparing, Launching
  <1>4. /\ OwnedBy(Launches, o)' \subseteq OwnedBy(Launches, o) \cup {r}
        /\ \A q \in Owners : q # o => OwnedBy(Launches, q)' = OwnedBy(Launches, q)
        /\ \A q \in Owners : OwnedBy(Plannings, q)' \subseteq OwnedBy(Plannings, q)
    BY <1>1, <1>3, <1>2 DEF OwnedBy
  <1>5. Cardinality(Launches) < MaxActive /\ Cardinality(OwnedBy(Launches, o)) < MaxActivePerOwner
    BY <1>2 DEF Launch, reserveLaunch, Launches
  <1>6. IsFiniteSet(Launches') /\ Cardinality(Launches') <= MaxActive
    BY <1>3, <1>5, OneMore, AgentRunsAssumption DEF AdmissionOK
  <1>7. Cardinality(OwnedBy(Launches, o)') <= MaxActivePerOwner
    BY <1>4, <1>5, OneMore, OwnedIsFinite, AgentRunsAssumption
  <1>8. IsFiniteSet(Plannings') /\ Cardinality(Plannings') <= MaxPending
    BY <1>3, Smaller, AgentRunsAssumption DEF AdmissionOK
  <1>9. \A q \in Owners : Cardinality(OwnedBy(Plannings, q)') <= MaxPendingPerOwner
    BY <1>4, Smaller, OwnedIsFinite, AgentRunsAssumption DEF AdmissionOK
  <1>10. QED BY <1>4, <1>6, <1>7, <1>8, <1>9 DEF AdmissionOK

\* The admission limits hold in every state.
THEOREM AdmissionHolds == RunsSpec => []AdmissionOK
  <1>1. RunsInit => AdmissionOK
    <2> SUFFICES ASSUME RunsInit PROVE AdmissionOK
      OBVIOUS
    <2>1. Plannings = {} /\ Launches = {}
      BY DEF RunsInit, Plannings, Launches, Pending, InFlight, Preparing, Launching
    <2>2. \A o \in Owners : OwnedBy(Plannings, o) = {} /\ OwnedBy(Launches, o) = {}
      BY <2>1 DEF OwnedBy
    <2>3. IsFiniteSet({}) /\ Cardinality({}) = 0
      BY FS_EmptySet
    <2>4. QED BY <2>1, <2>2, <2>3, AgentRunsAssumption DEF AdmissionOK
  <1>2. RunsInv /\ RunsInv' /\ AdmissionOK /\ [RunsNext]_vars => AdmissionOK'
    <2> SUFFICES ASSUME RunsInv, RunsInv', AdmissionOK, [RunsNext]_vars PROVE AdmissionOK'
      OBVIOUS
    <2>1. CASE RunsNext
      <3>1. CASE AdmitsNone
        BY <3>1, AdmitsNoneKeeps DEF RunsInv
      <3>2. QED BY <2>1, <3>1, NextKeeps, PrepareAdmits, LaunchAdmits
    <2>2. CASE UNCHANGED vars
      BY <2>2, AdmitsNoneKeeps DEF RunsInv, AdmitsNone, vars, runtime
    <2>3. QED BY <2>1, <2>2
  <1>3. QED BY <1>1, <1>2, RunsInvariant, PTL DEF RunsSpec

\* Every variable keeps its shape, and no interleaving of preparations and launches
\* admits more than the limits allow, in total or for one owner.
THEOREM RunsTypeCorrect == RunsSpec => []RunsTypeOK
  <1>1. RunsInv /\ AdmissionOK => RunsTypeOK
    <2> SUFFICES ASSUME RunsInv, AdmissionOK PROVE RunsTypeOK
      OBVIOUS
    <2>1. \A r \in Runs : /\ op[r] \notin {"idle", "over"} => plan[r] # NoPlan
                          /\ Alive(r) => plan[r] # NoPlan
      BY DEF RunsInv, PhaseOK
    <2>2. QED BY <2>1 DEF RunsInv, Typed, AdmissionOK, Plannings, Launches, RunsTypeOK
  <1>2. QED BY <1>1, RunsInvariant, AdmissionHolds, PTL

=============================================================================
