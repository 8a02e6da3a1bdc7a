------------------------------ MODULE AgentRuns ------------------------------
(***************************************************************************)
(* The agent execution runtime of the desktop main process, the run        *)
(* history it writes, and the managed Git worktrees its sessions live in.  *)
(*                                                                         *)
(*   agent-execution/runtime.ts      prepare, launch, terminate, owner     *)
(*                                   stop, privacy reset, dispose, expiry  *)
(*   agent-execution/continuation/   who may be resumed or retried         *)
(*   storage/runs-audit.ts           authority transfer, worktree states,  *)
(*                                   recovery of interrupted runs          *)
(*   git/lifecycle/worktree-cleanup  the user's own cleanup of a worktree, *)
(*                                   under process quiescence              *)
(*   lifecycle/*                     the gate and the quiescence           *)
(*                                                                         *)
(* Every step between two awaits is one action.  A run of this model gets  *)
(* a writable profile: each launch and each retry provisions a worktree of *)
(* its own (named after the run), a resume takes over its parent's.        *)
(***************************************************************************)
EXTENDS Naturals, FiniteSets

CONSTANTS
  Runs,              \* run ids; a plan has the id of its run
  History,           \* runs an earlier process left interrupted, with their worktree
  Owners,            \* windows and workflow hosts that own plans and runs
  NoRun,             \* the null of parentRunId and supersededByRunId
  MaxPending, MaxPendingPerOwner,   \* admission limits of prepare
  MaxActive, MaxActivePerOwner,     \* admission limits of launch
  MaxDisturbances    \* storage writes and Git commands that fail, and restarts

ASSUME AgentRunsAssumption ==
  /\ NoRun \notin Runs /\ History \subseteq Runs
  /\ {MaxPending, MaxPendingPerOwner, MaxActive, MaxActivePerOwner} \subseteq Nat \ {0}
  /\ MaxDisturbances \in Nat

VARIABLES
  store,      \* agent_runs: the persisted record of each run
  plan,       \* what was asked for: owner, action, parent and worktree of a run
  op,         \* where the run's operation in the runtime stands
  session,    \* the child process behind the run
  active,     \* #active
  stale,      \* runs whose captured generation is no longer the current one
  worktree,   \* each managed worktree on disk with its ownership file
  changed,    \* worktrees holding work that is not merged
  stops,      \* #ownerStops: how far the stop of an owner is
  paused,     \* #privacyResetting: admissions are closed
  mutation,   \* DataOperationGate: the exclusive mutation in progress
  closing,    \* how far resetForPrivacy or dispose is
  shut,       \* the runs resetForPrivacy or dispose found active
  cleanup,    \* the worktree cleanup the user confirmed
  faults, restarts

runtime == <<plan, op, session, active, stale>>
disk == <<worktree, changed>>
control == <<stops, paused, mutation, closing, shut, cleanup>>
bounds == <<faults, restarts>>
vars == <<store, runtime, disk, control, bounds>>

NoRecord == [status |-> "none"]
NoPlan == [action |-> "none"]
Idle == [stage |-> "idle"]

Terminal == {"succeeded", "failed", "interrupted", "terminated", "lost"}
NonTerminal == {"prepared", "running", "paused"}

\* Operations in #operations; all but the expiry timer's also have an owner.
Preparing == {"preparing", "targeted", "releasing"}
Launching == {"launching", "authorized", "spawned", "aborting", "unsaved", "failing"}
Tracked == Preparing \cup Launching \cup {"discarding", "expiring"}
\* Stages in which the runtime removes the worktree it provisioned itself.
Removing == {"releasing", "failing", "discarding", "expiring", "dropping", "closing"}

Pending == {r \in Runs : op[r] = "pending"}
InFlight(stages) == {r \in Runs : op[r] \in stages}
OwnedBy(S, o) == {r \in S : plan[r].owner = o}
OwnerAccepting(r) == stops[plan[r].owner] = "none"

Alive(r) == session[r] \in {"live", "paused", "terminating"}
Exited(r) == session[r] \in {"succeeded", "failed", "interrupted", "terminated"}
Signalled(s) == IF s \in {"live", "paused"} THEN "terminating" ELSE s

Target(r) == plan[r].worktree
OwnsWorktreeCleanup(r) == plan[r].action # "resume"

Become(r, stage) == op' = [op EXCEPT ![r] = stage]
Undisturbed == faults + restarts < MaxDisturbances
Fault == Undisturbed /\ faults' = faults + 1
NoFault == UNCHANGED faults

-----------------------------------------------------------------------------
(* The persisted records.                                                  *)

Prepared(r) ==
  [status |-> "prepared", superseded |-> NoRun, worktree |-> Target(r), wstate |-> "active",
   authority |-> IF plan[r].action = "resume" THEN "pending-transfer" ELSE "owned"]

saveStatus(s, S, status) ==
  [r \in Runs |-> IF r \in S THEN [s[r] EXCEPT !.status = status] ELSE s[r]]

\* transitionRunWorktreeState: 'cleaned' reaches every run of the worktree.
transitionRunWorktreeState(s, r, next) ==
  [x \in Runs |->
     IF x = r \/ (next = "cleaned" /\ s[x] # NoRecord /\ s[x].worktree = s[r].worktree)
     THEN [s[x] EXCEPT !.wstate = next] ELSE s[x]]

requireContinuationParent(action, p) ==
  /\ store[p] # NoRecord
  /\ store[p].status \in Terminal
  /\ store[p].superseded = NoRun
  /\ store[p].authority = "owned"
  /\ action = "retry" => store[p].status # "succeeded"
  /\ action = "resume" => store[p].status = "interrupted" /\ store[p].wstate = "active"

\* Mutant: the parent may already have been continued by another attempt.
transferUnchecked(r) ==
  /\ store[plan[r].parent] # NoRecord
  /\ store[plan[r].parent].status = "interrupted"
  /\ store[r].status = "prepared"

canTransferAuthority(r) ==
  LET p == plan[r].parent IN
  /\ store[p] # NoRecord
  /\ store[p].superseded = NoRun
  /\ store[p].status = "interrupted"
  /\ store[p].authority = "owned"
  /\ store[p].wstate = "active"
  /\ store[r].status = "prepared"
  /\ store[r].authority = "pending-transfer"
  /\ store[r].wstate = "active"

transferRunWorktreeAuthority(r) ==
  [store EXCEPT ![plan[r].parent].superseded = r, ![r].authority = "owned"]

\* Mutant: a paused run is not among the records a start looks at.
recoverRunningOnly(s) ==
  [r \in Runs |-> IF s[r].status \in {"prepared", "running"}
                  THEN [s[r] EXCEPT !.status = "lost"] ELSE s[r]]

recoverInterruptedRuns(s) ==
  [r \in Runs |-> IF s[r].status \in NonTerminal THEN [s[r] EXCEPT !.status = "lost"] ELSE s[r]]

-----------------------------------------------------------------------------
InterruptedRun(r) ==
  [status |-> "interrupted", superseded |-> NoRun, worktree |-> r, wstate |-> "active",
   authority |-> "owned"]

RunsInit ==
  /\ store = [r \in Runs |-> IF r \in History THEN InterruptedRun(r) ELSE NoRecord]
  /\ plan = [r \in Runs |-> NoPlan]
  /\ op = [r \in Runs |-> IF r \in History THEN "over" ELSE "idle"]
  /\ session = [r \in Runs |-> "none"]
  /\ active = {} /\ stale = {}
  /\ worktree = [r \in Runs |-> IF r \in History THEN "intact" ELSE "none"]
  /\ changed = [r \in Runs |-> FALSE]
  /\ stops = [o \in Owners |-> "none"]
  /\ paused = FALSE
  /\ mutation = "none" /\ closing = "none" /\ shut = {}
  /\ cleanup = Idle
  /\ faults = 0 /\ restarts = 0

-----------------------------------------------------------------------------
(* prepare, prepareResume, prepareRetry.                                   *)

\* Mutant: plans being prepared are not counted.
pendingWithoutReservations(o) ==
  /\ Cardinality(Pending) < MaxPending
  /\ Cardinality(OwnedBy(Pending, o)) < MaxPendingPerOwner

reservePreparation(o) ==
  LET admitted == Pending \cup InFlight(Preparing) IN
  /\ Cardinality(admitted) < MaxPending
  /\ Cardinality(OwnedBy(admitted, o)) < MaxPendingPerOwner

Prepare(r, o, action, p) ==
  /\ op[r] = "idle" /\ ~paused /\ stops[o] = "none"
  /\ reservePreparation(o)
  /\ IF action = "launch" THEN p = NoRun ELSE p # NoRun /\ requireContinuationParent(action, p)
  /\ plan' = [plan EXCEPT ![r] =
       IF action = "resume"
       THEN [owner |-> o, action |-> "resume", parent |-> p, worktree |-> store[p].worktree]
       ELSE [owner |-> o, action |-> "launch", parent |-> NoRun, worktree |-> r]]
  /\ Become(r, "preparing")
  /\ UNCHANGED <<store, session, active, stale, disk, control, bounds>>

\* assertContinuationNotInUse: plans and runs, but no operation in flight.
continuationNotInUse(r) ==
  \A s \in Pending \cup active :
    /\ plan[s].action = "resume" => plan[s].parent # plan[r].parent
    /\ Target(s) # Target(r)

ChooseTarget(r) ==
  /\ op[r] = "preparing" /\ OwnerAccepting(r)
  /\ IF plan[r].action = "resume"
     THEN continuationNotInUse(r) /\ worktree[Target(r)] = "intact" /\ UNCHANGED worktree
     ELSE worktree' = [worktree EXCEPT ![r] = "intact"]
  /\ Become(r, "targeted")
  /\ UNCHANGED <<store, plan, session, active, stale, changed, control, bounds>>

SavePlan(r) ==
  /\ op[r] = "targeted"
  /\ r \notin stale /\ OwnerAccepting(r)
  /\ store' = [store EXCEPT ![r] = Prepared(r)]
  /\ Become(r, "pending")
  /\ UNCHANGED <<plan, session, active, stale, disk, control, bounds>>

\* Any check, probe or write of a preparation may fail.
PrepareFails(r) ==
  /\ op[r] \in {"preparing", "targeted"}
  /\ Become(r, IF op[r] = "targeted" /\ OwnsWorktreeCleanup(r) THEN "releasing" ELSE "over")
  /\ UNCHANGED <<store, plan, session, active, stale, disk, control, bounds>>

-----------------------------------------------------------------------------
(* launch.                                                                 *)

reserveLaunch(o) ==
  LET admitted == active \cup InFlight(Launching) IN
  /\ Cardinality(admitted) < MaxActive
  /\ Cardinality(OwnedBy(admitted, o)) < MaxActivePerOwner

Launch(r) ==
  /\ op[r] = "pending" /\ ~paused /\ OwnerAccepting(r) /\ r \notin stale
  /\ reserveLaunch(plan[r].owner)
  /\ Become(r, "launching")
  /\ UNCHANGED <<store, plan, session, active, stale, disk, control, bounds>>

\* revalidateWorkspace, the context snapshot, then the authority of a resume.  The
\* generation was compared in Launch and is not compared again before the spawn.
Authorize(r) ==
  /\ op[r] = "launching"
  /\ worktree[Target(r)] = "intact"
  /\ IF plan[r].action = "resume"
     THEN canTransferAuthority(r) /\ store' = transferRunWorktreeAuthority(r)
     ELSE UNCHANGED store
  /\ Become(r, "authorized")
  /\ UNCHANGED <<plan, session, active, stale, disk, control, bounds>>

\* The callback adapter.launch runs immediately before the spawn.
Spawn(r) ==
  /\ op[r] = "authorized" /\ OwnerAccepting(r)
  /\ session' = [session EXCEPT ![r] = "live"]
  /\ Become(r, "spawned")
  /\ UNCHANGED <<store, plan, active, stale, disk, control, bounds>>

\* The session is ended again when its generation is stale, its owner is being
\* stopped, or its process reference does not parse, which may always happen.
Register(r) ==
  /\ op[r] = "spawned"
  /\ \/ /\ session' = [session EXCEPT ![r] = Signalled(@)]
        /\ Become(r, "aborting")
        /\ NoFault /\ UNCHANGED <<store, active>>
     \/ /\ r \notin stale /\ OwnerAccepting(r)
        /\ active' = active \cup {r}
        /\ \/ /\ store' = saveStatus(store, {r}, "running") /\ Become(r, "running")
              /\ NoFault /\ UNCHANGED session
           \/ /\ Fault
              /\ session' = [session EXCEPT ![r] = Signalled(@)]
              /\ Become(r, "unsaved") /\ UNCHANGED store
  /\ UNCHANGED <<plan, stale, disk, control, restarts>>

\* recordLaunchFailure up to its first await.
launchFailureSaved(s, r) ==
  IF OwnsWorktreeCleanup(r) THEN transitionRunWorktreeState(s, r, "cleanup-pending")
                            ELSE saveStatus(s, {r}, "failed")
launchFailureStage(r) == IF OwnsWorktreeCleanup(r) THEN "failing" ELSE "over"

LaunchFailure(r) ==
  /\ store' = launchFailureSaved(store, r)
  /\ Become(r, launchFailureStage(r))
  /\ session' = [session EXCEPT ![r] = IF Exited(r) THEN "none" ELSE @]
  /\ UNCHANGED <<plan, active, stale, disk, control, bounds>>

\* Mutant: the worktree is released without waiting for the process to end.
LaunchFailsAtOnce(r) ==
  /\ op[r] \in {"launching", "authorized", "aborting"}
  /\ LaunchFailure(r)

LaunchFails(r) ==
  /\ op[r] \in {"launching", "authorized"} \/ (op[r] = "aborting" /\ Exited(r))
  /\ LaunchFailure(r)

-----------------------------------------------------------------------------
(* The session and #track.                                                 *)

PauseOrContinue(r) ==
  /\ r \in active /\ ~paused
  /\ \/ session[r] = "live" /\ store[r].status = "running"
        /\ session' = [session EXCEPT ![r] = "paused"]
        /\ store' = saveStatus(store, {r}, "paused")
     \/ session[r] = "paused"
        /\ session' = [session EXCEPT ![r] = "live"]
        /\ store' = saveStatus(store, {r}, "running")
  /\ UNCHANGED <<plan, op, active, stale, disk, control, bounds>>

\* A session ends by itself or after a signal; the last signal names the outcome,
\* and only a registered session can be interrupted.
SessionExits(r) ==
  /\ session[r] \in {"live", "terminating"}
  /\ \E outcome \in (IF session[r] = "live" THEN {"succeeded", "failed"} ELSE {"terminated"})
                    \cup (IF r \in active THEN {"interrupted"} ELSE {}) :
       session' = [session EXCEPT ![r] = outcome]
  /\ \E dirty \in BOOLEAN :
       changed' = [changed EXCEPT ![Target(r)] = @ \/ dirty]
  /\ UNCHANGED <<store, plan, op, active, stale, worktree, control, bounds>>

\* The final status, 'failed' when that write is refused, or nothing at all.  The
\* launch that could not save its run goes on with its failure at once.
Track(r) ==
  /\ r \in active /\ Exited(r)
  /\ \E saved \in {session[r], "failed", store[r].status} :
       /\ IF saved = session[r] THEN NoFault ELSE Fault
       /\ LET ended == saveStatus(store, {r}, saved) IN
          store' = IF op[r] = "unsaved" THEN launchFailureSaved(ended, r) ELSE ended
  /\ Become(r, IF op[r] = "unsaved" THEN launchFailureStage(r) ELSE "over")
  /\ active' = active \ {r}
  /\ session' = [session EXCEPT ![r] = "none"]
  /\ UNCHANGED <<plan, stale, disk, control, restarts>>

TerminateSession(r) ==
  /\ r \in active /\ ~paused /\ OwnerAccepting(r) /\ session[r] \in {"live", "paused"}
  /\ session' = [session EXCEPT ![r] = "terminating"]
  /\ UNCHANGED <<store, plan, op, active, stale, disk, control, bounds>>

-----------------------------------------------------------------------------
(* Plans that are given up, and the worktrees provisioned for them.        *)

\* The status is saved, then the worktree is declared to be going.
GivenUp(s, S, status) ==
  [r \in Runs |-> IF r \notin S THEN s[r]
                  ELSE [s[r] EXCEPT !.status = status,
                          !.wstate = IF OwnsWorktreeCleanup(r) THEN "cleanup-pending" ELSE @]]

GiveUp(S, stage) ==
  op' = [r \in Runs |-> IF r \notin S THEN op[r]
                        ELSE IF OwnsWorktreeCleanup(r) THEN stage ELSE "over"]

\* terminate() of a prepared run, and the expiry of its approval.
Discard(r) ==
  /\ op[r] = "pending" /\ ~paused
  /\ store' = GivenUp(store, {r}, "terminated")
  /\ \/ OwnerAccepting(r) /\ GiveUp({r}, "discarding")
     \/ GiveUp({r}, "expiring")
  /\ UNCHANGED <<plan, session, active, stale, disk, control, bounds>>

\* What follows once cleanupUnusedWorktree has settled.  A row whose state is
\* no longer 'cleanup-pending' refuses the transition and the write after it.
RemovalSettles(r, next) ==
  /\ Become(r, "over")
  /\ store' = IF store[r] = NoRecord \/ store[r].wstate # "cleanup-pending" THEN store
              ELSE saveStatus(transitionRunWorktreeState(store, r, next), {r},
                              IF op[r] = "failing" THEN "failed" ELSE store[r].status)

\* Mutant: the record is settled before the ownership file is gone.
RemoveOwnWorktreeEarly(r) ==
  /\ op[r] \in Removing
  /\ worktree[r] = "intact" /\ ~changed[r]
  /\ worktree' = [worktree EXCEPT ![r] = "partial"]
  /\ RemovalSettles(r, "cleaned")
  /\ UNCHANGED <<plan, session, active, stale, changed, control, bounds>>

\* WorktreeService.cleanup marks the ownership file and removes directory and
\* branch piece by piece ("partial"), then unlinks the ownership file ("gone").
RemoveOwnWorktree(r) ==
  /\ op[r] \in Removing
  /\ \/ /\ worktree[r] = "intact" /\ ~changed[r]
        /\ worktree' = [worktree EXCEPT ![r] = "partial"] /\ UNCHANGED <<store, op>>
     \/ /\ worktree[r] = "partial"
        /\ worktree' = [worktree EXCEPT ![r] = "gone"] /\ RemovalSettles(r, "cleaned")
  /\ UNCHANGED <<plan, session, active, stale, changed, control, bounds>>

\* Changes are kept; a failed removal returns the record to 'active' whatever
\* is left of the worktree.
RemovalFails(r) ==
  /\ op[r] \in Removing
  /\ \/ worktree[r] = "intact" /\ changed[r] /\ NoFault
     \/ worktree[r] = "gone" /\ NoFault
     \/ Fault
  /\ RemovalSettles(r, "active")
  /\ UNCHANGED <<plan, session, active, stale, disk, control, restarts>>

-----------------------------------------------------------------------------
(* stopOwner.                                                              *)

StopOwner(o) ==
  /\ ~paused /\ stops[o] = "none"
  /\ stops' = [stops EXCEPT ![o] = "draining"]
  /\ UNCHANGED <<store, runtime, disk, paused, mutation, closing, shut, cleanup, bounds>>

StopDrained(o) ==
  /\ stops[o] = "draining"
  /\ OwnedBy(InFlight(Tracked \ {"expiring"}), o) = {}
  /\ stops' = [stops EXCEPT ![o] = "stopping"]
  /\ UNCHANGED <<store, runtime, disk, paused, mutation, closing, shut, cleanup, bounds>>

\* One plan after the other; #terminate refuses once admissions are closed.
StopPlan(o) ==
  /\ stops[o] = "stopping" /\ ~paused
  /\ OwnedBy(InFlight({"dropping"}), o) = {}
  /\ \E r \in OwnedBy(Pending, o) :
       store' = GivenUp(store, {r}, "terminated") /\ GiveUp({r}, "dropping")
  /\ UNCHANGED <<plan, session, active, stale, disk, control, bounds>>

\* Mutant: also waits for plans that #terminate refuses to give up.
StopSignalsAfterPlans(o) ==
  /\ stops[o] = "stopping"
  /\ OwnedBy(InFlight({"dropping"}), o) = {}
  /\ OwnedBy(Pending, o) = {}
  /\ session' = [r \in Runs |-> IF r \in OwnedBy(active, o) THEN Signalled(session[r])
                                                            ELSE session[r]]
  /\ stops' = [stops EXCEPT ![o] = "awaiting"]
  /\ UNCHANGED <<store, plan, op, active, stale, disk, paused, mutation, closing, shut,
                 cleanup, bounds>>

StopSignals(o) ==
  /\ stops[o] = "stopping"
  /\ OwnedBy(InFlight({"dropping"}), o) = {}
  /\ paused \/ OwnedBy(Pending, o) = {}
  /\ session' = [r \in Runs |-> IF r \in OwnedBy(active, o) THEN Signalled(session[r])
                                                            ELSE session[r]]
  /\ stops' = [stops EXCEPT ![o] = "awaiting"]
  /\ UNCHANGED <<store, plan, op, active, stale, disk, paused, mutation, closing, shut,
                 cleanup, bounds>>

StopDone(o) ==
  /\ stops[o] = "awaiting" /\ OwnedBy(active, o) = {}
  /\ stops' = [stops EXCEPT ![o] = "none"]
  /\ UNCHANGED <<store, runtime, disk, paused, mutation, closing, shut, cleanup, bounds>>

-----------------------------------------------------------------------------
(* resetForPrivacy and dispose, behind the exclusive mutations of the gate. *)

Quiet == InFlight(Tracked) = {}

\* beginMutation waits for the ordinary operations, the quiescence included.
BeginMutation(kind) ==
  /\ mutation = "none" /\ cleanup = Idle /\ ~paused
  /\ mutation' = kind /\ paused' = TRUE

\* generation + 1
Invalidated == {r \in Runs : op[r] \notin {"idle", "over"}}

ResetForPrivacy ==
  /\ BeginMutation("delete")
  /\ closing' = "draining" /\ stale' = Invalidated
  /\ UNCHANGED <<store, plan, op, session, active, disk, stops, shut, cleanup, bounds>>

PauseForShutdown ==
  /\ BeginMutation("quit")
  /\ UNCHANGED <<store, runtime, disk, stops, closing, shut, cleanup, bounds>>

Dispose ==
  /\ mutation = "quit" /\ closing = "none" /\ Quiet
  /\ closing' = "draining" /\ stale' = Invalidated
  /\ UNCHANGED <<store, plan, op, session, active, disk, stops, paused, mutation, shut,
                 cleanup, bounds>>

\* Mutant: the operations that were admitted before are not waited for.
CloseRunsAtOnce ==
  /\ closing = "draining"
  /\ \A o \in Owners : stops[o] = "none"
  /\ closing' = "stopping" /\ shut' = active
  /\ session' = [r \in Runs |-> IF r \in active THEN Signalled(session[r]) ELSE session[r]]
  /\ store' = GivenUp(store, Pending, IF mutation = "quit" THEN "lost" ELSE "terminated")
  /\ GiveUp(Pending, "closing")
  /\ NoFault
  /\ UNCHANGED <<plan, active, stale, disk, stops, paused, mutation, cleanup, restarts>>

CloseRuns ==
  /\ closing = "draining" /\ Quiet
  /\ \A o \in Owners : stops[o] = "none"
  /\ closing' = "stopping" /\ shut' = active
  /\ session' = [r \in Runs |-> IF r \in active THEN Signalled(session[r]) ELSE session[r]]
  /\ store' = GivenUp(store, Pending, IF mutation = "quit" THEN "lost" ELSE "terminated")
  /\ GiveUp(Pending, "closing")
  /\ NoFault
  /\ UNCHANGED <<plan, active, stale, disk, stops, paused, mutation, cleanup, restarts>>

\* Every run that was active is saved as terminated, however it ended.
Closed ==
  /\ closing = "stopping" /\ InFlight({"closing"}) = {}
  /\ shut \cap active = {}
  /\ store' = saveStatus(store, shut, "terminated")
  /\ closing' = "closed" /\ shut' = {} /\ stale' = {}
  /\ UNCHANGED <<plan, op, session, active, disk, stops, paused, mutation, cleanup, bounds>>

\* performPrivacyDeletion deletes the data, or its window was gone meanwhile.
DeletionEnds ==
  /\ closing = "closed" /\ mutation = "delete"
  /\ store' \in {store, [r \in Runs |-> NoRecord]}
  /\ closing' = "none" /\ mutation' = "none" /\ paused' = FALSE
  /\ UNCHANGED <<runtime, disk, stops, shut, cleanup, bounds>>

\* The backup before quitting failed: everything is resumed.
QuitRefused ==
  /\ mutation = "quit" /\ closing = "none" /\ Quiet
  /\ mutation' = "none" /\ paused' = FALSE
  /\ UNCHANGED <<store, runtime, disk, stops, closing, shut, cleanup, bounds>>

\* A crash at any point, or the start that follows a quit.  A child process may
\* outlive the one that started it; its run is recovered as lost.
Restart ==
  /\ Undisturbed /\ restarts' = restarts + 1
  /\ store' = recoverInterruptedRuns(store)
  /\ op' = [r \in Runs |-> IF op[r] = "idle" THEN "idle" ELSE "over"]
  /\ session' = [r \in Runs |-> IF Alive(r) \/ session[r] = "orphan" THEN "orphan" ELSE "none"]
  /\ active' = {} /\ stale' = {}
  /\ stops' = [o \in Owners |-> "none"]
  /\ paused' = FALSE /\ mutation' = "none" /\ closing' = "none" /\ shut' = {}
  /\ cleanup' = Idle
  /\ UNCHANGED <<plan, disk, faults>>

-----------------------------------------------------------------------------
(* WorktreeCleanupService: what the user reviews and confirms.             *)

\* GitTargetResolver.resolve with a terminal run, and a safe impact.
resolvesActive(r) ==
  /\ store[r] # NoRecord
  /\ store[r].superseded = NoRun /\ store[r].authority = "owned"
  /\ store[r].status \in Terminal /\ store[r].wstate = "active"
  /\ worktree[store[r].worktree] = "intact" /\ ~changed[store[r].worktree]

\* WorktreeCleanupRecoveryResolver.resolvePending.
resolvesPending(r) ==
  store[r] # NoRecord /\ store[r].status \in Terminal /\ store[r].wstate = "cleanup-pending"

\* Reviewing an interrupted cleanup settles what it left; no gate, no pause.
ReviewInterruptedCleanup(r) ==
  /\ cleanup = Idle /\ closing # "closed" /\ resolvesPending(r)
  /\ \/ worktree[store[r].worktree] = "intact"
        /\ store' = transitionRunWorktreeState(store, r, "active")
     \/ worktree[store[r].worktree] = "gone"
        /\ store' = transitionRunWorktreeState(store, r, "cleaned")
  /\ UNCHANGED <<runtime, disk, control, bounds>>

\* The gate, then pauseForDataMutation of the runtime.
ConfirmCleanup(r) ==
  /\ cleanup = Idle /\ mutation = "none" /\ ~paused
  /\ resolvesActive(r) \/ resolvesPending(r)
  /\ Quiet /\ Pending = {} /\ active = {}
  /\ paused' = TRUE
  /\ cleanup' = [stage |-> "admitted", run |-> r]
  /\ UNCHANGED <<store, runtime, disk, stops, mutation, closing, shut, bounds>>

\* The target is resolved again before anything is touched.
BeginCleanup ==
  /\ cleanup.stage = "admitted"
  /\ \/ /\ resolvesActive(cleanup.run)
        /\ store' = transitionRunWorktreeState(store, cleanup.run, "cleanup-pending")
        /\ cleanup' = [stage |-> "removing", run |-> cleanup.run, recovery |-> FALSE]
        /\ UNCHANGED paused
     \/ /\ resolvesPending(cleanup.run) /\ ~changed[store[cleanup.run].worktree]
        /\ worktree[store[cleanup.run].worktree] = "partial"
        /\ cleanup' = [stage |-> "removing", run |-> cleanup.run, recovery |-> TRUE]
        /\ UNCHANGED <<store, paused>>
     \/ /\ cleanup' = Idle /\ paused' = FALSE /\ UNCHANGED store
  /\ UNCHANGED <<runtime, disk, stops, mutation, closing, shut, bounds>>

CleanWorktree ==
  /\ cleanup.stage = "removing"
  /\ LET w == store[cleanup.run].worktree IN
     \/ /\ worktree[w] = "intact"
        /\ worktree' = [worktree EXCEPT ![w] = "partial"]
        /\ NoFault /\ UNCHANGED <<store, paused, cleanup>>
     \/ /\ worktree[w] \in {"partial", "gone"}
        /\ worktree' = [worktree EXCEPT ![w] = "gone"]
        /\ \/ NoFault /\ store' = IF store[cleanup.run].wstate # "cleanup-pending" THEN store
                                  ELSE transitionRunWorktreeState(store, cleanup.run, "cleaned")
           \/ Fault /\ UNCHANGED store
        /\ paused' = FALSE /\ cleanup' = Idle
  /\ UNCHANGED <<runtime, changed, stops, mutation, closing, shut, restarts>>

\* Only an untouched worktree goes back to 'active'; anything else stays hidden.
CleanupFails ==
  /\ cleanup.stage = "removing" /\ Fault
  /\ store' = IF ~cleanup.recovery /\ worktree[store[cleanup.run].worktree] = "intact"
                 /\ store[cleanup.run].wstate = "cleanup-pending"
              THEN transitionRunWorktreeState(store, cleanup.run, "active") ELSE store
  /\ paused' = FALSE /\ cleanup' = Idle
  /\ UNCHANGED <<runtime, disk, stops, mutation, closing, shut, restarts>>

-----------------------------------------------------------------------------
Step(r) ==
  \/ /\ op[r] = "idle"
     /\ \E o \in Owners, a \in {"launch", "resume", "retry"}, p \in Runs \cup {NoRun} :
          Prepare(r, o, a, p)
  \/ ChooseTarget(r) \/ SavePlan(r) \/ PrepareFails(r)
  \/ Launch(r) \/ Authorize(r) \/ Spawn(r) \/ Register(r) \/ LaunchFails(r)
  \/ PauseOrContinue(r) \/ SessionExits(r) \/ Track(r) \/ TerminateSession(r)
  \/ Discard(r) \/ RemoveOwnWorktree(r) \/ RemovalFails(r)
  \/ ReviewInterruptedCleanup(r) \/ ConfirmCleanup(r)

RunsNext ==
  \/ \E r \in Runs : Step(r)
  \/ \E o \in Owners : StopOwner(o) \/ StopDrained(o) \/ StopPlan(o) \/ StopSignals(o) \/ StopDone(o)
  \/ ResetForPrivacy \/ PauseForShutdown \/ Dispose \/ CloseRuns \/ Closed
  \/ DeletionEnds \/ QuitRefused \/ Restart
  \/ BeginCleanup \/ CleanWorktree \/ CleanupFails

RunsSpec == RunsInit /\ [][RunsNext]_vars

-----------------------------------------------------------------------------
(* Properties.                                                             *)

Records ==
  [status : Terminal \cup NonTerminal, superseded : Runs \cup {NoRun}, worktree : Runs,
   wstate : {"active", "cleanup-pending", "cleaned"}, authority : {"owned", "pending-transfer"}]

Plans ==
  [owner : Owners, action : {"launch", "resume"}, parent : Runs \cup {NoRun}, worktree : Runs]

\* Every variable keeps its shape, and the admission limits of prepare and launch
\* hold: a plan counts from the moment it is admitted, before it is visible in
\* #pending, and a launch counts before its run is visible in #active.
RunsTypeOK ==
  /\ store \in [Runs -> Records \cup {NoRecord}]
  /\ plan \in [Runs -> Plans \cup {NoPlan}]
  /\ \A r \in Runs : op[r] \notin {"idle", "over"} => plan[r] # NoPlan
  /\ \A r \in Runs : Alive(r) => plan[r] # NoPlan
  /\ active \subseteq Runs /\ stale \subseteq Runs /\ shut \subseteq Runs
  /\ worktree \in [Runs -> {"none", "intact", "partial", "gone"}]
  /\ changed \in [Runs -> BOOLEAN]
  /\ stops \in [Owners -> {"none", "draining", "stopping", "awaiting"}]
  /\ LET plans == Pending \cup InFlight(Preparing)
         running == active \cup InFlight(Launching)
     IN /\ Cardinality(plans) <= MaxPending /\ Cardinality(running) <= MaxActive
        /\ \A o \in Owners : /\ Cardinality(OwnedBy(plans, o)) <= MaxPendingPerOwner
                             /\ Cardinality(OwnedBy(running, o)) <= MaxActivePerOwner

\* No two agent processes ever work in one managed worktree: not when two
\* attempts resume the same parent at once, not when a resume is prepared while
\* another one is being launched, and not when a process outlived the
\* application and its run was recovered as lost.
OneSessionPerWorktree ==
  \A r, s \in Runs :
    /\ r # s
    /\ Alive(r) \/ session[r] = "orphan"
    /\ Alive(s) \/ session[s] = "orphan"
    => Target(r) # Target(s)

\* A process the runtime supervises is reachable: it is in #active, or the launch
\* that started it is still there to register or to end it.  Its record holds the
\* authority over its worktree, and as long as no write and no Git command was
\* refused the worktree is whole: nobody removes it, neither the failure of
\* another launch nor a cleanup the user confirmed.
SessionsAreHeld ==
  \A r \in Runs : Alive(r) =>
    /\ r \in active \/ op[r] \in {"spawned", "aborting"}
    /\ store[r] # NoRecord
    /\ store[r].authority = "owned" /\ store[r].superseded = NoRun
    /\ store[r].wstate = "active"
    /\ faults = 0 => worktree[Target(r)] = "intact"

\* A record in the history that claims a prepared, running or paused run has a
\* plan, an operation or a process behind it, unless a write was refused: runs
\* that a crash cut off are recovered as lost, and a plan that is given up, or
\* whose owner or data is gone meanwhile, leaves no record that waits for it.
NoFictionalRun ==
  \A r \in Runs :
    store[r].status \in NonTerminal /\ faults = 0 =>
      \/ op[r] \in {"pending"} \cup Launching
      \/ r \in active

\* The history calls a worktree cleaned only when it, its branch and its ownership
\* file are gone, whoever removed it: the runtime that provisioned it, the cleanup
\* the user confirmed, or the review of a cleanup that a crash interrupted.
CleanedIsGone ==
  \A r \in Runs :
    store[r] # NoRecord /\ store[r].wstate = "cleaned" => worktree[store[r].worktree] = "gone"

\* While the data is being deleted or the application quits nothing of the runtime
\* is left behind: once resetForPrivacy or dispose has returned no supervised
\* process runs and no plan can be launched.  The same holds for the processes of
\* an owner whose stop has returned.
NothingOutlivesItsOwner ==
  [][/\ closing' = "closed" => \A r \in Runs : ~Alive(r)' /\ op'[r] \in {"idle", "over", "dropping"}
     /\ \A o \in Owners : stops[o] = "awaiting" /\ stops'[o] = "none" =>
          \A r \in Runs : plan[r] # NoPlan /\ plan[r].owner = o => ~Alive(r)']_vars

\* What the runtime does by itself: admitted operations go on until they settle,
\* and terminate() escalates from SIGTERM to SIGKILL.
Progress ==
  \/ \E r \in Runs :
       \/ ChooseTarget(r) \/ SavePlan(r) \/ PrepareFails(r) \/ Authorize(r) \/ Spawn(r)
       \/ Register(r) \/ LaunchFails(r) \/ Track(r) \/ RemoveOwnWorktree(r) \/ RemovalFails(r)
       \/ session[r] = "terminating" /\ SessionExits(r)
  \/ \E o \in Owners : StopDrained(o) \/ StopPlan(o) \/ StopSignals(o) \/ StopDone(o)
  \/ CloseRuns \/ Closed

\* An owner stop, a privacy reset and a quit wait for operations, for each other
\* and for processes; there is always something they wait for that can still move,
\* so none of them waits for ever (every step of Progress brings one of them or an
\* operation nearer to its end).
NobodyWaitsForEver ==
  closing \in {"draining", "stopping"} \/ (\E o \in Owners : stops[o] # "none") => ENABLED Progress

\* Once nothing is left to be removed, a worktree the history calls active is
\* intact: only an untouched one is reactivated.
ReactivatedIsIntact ==
  \A r \in Runs :
    (/\ op[r] = "over" /\ store[r] # NoRecord /\ store[r].wstate = "active"
     /\ store[r].authority = "owned" /\ store[r].superseded = NoRun)
      => worktree[store[r].worktree] = "intact"

=============================================================================
