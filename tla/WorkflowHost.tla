---------------------------- MODULE WorkflowHost ----------------------------
(***************************************************************************)
(* The workflow host (apps/desktop/src/main/workflow/host/service.ts): it  *)
(* drives one execution of WorkflowRuntime. Every operation runs under the *)
(* execution's lock, but awaits executors and persists several times on    *)
(* the way, so processes end, deadlines pass and the program may die       *)
(* between any two of its steps. An action is the code from one persisted  *)
(* mutation (or await of an executor) to the next.                         *)
(*                                                                         *)
(* rt and binding are stored together, in one transaction per mutation;    *)
(* prepared, process, active, wake and lock die with the program. A node's *)
(* executor always exists: start refuses a canvas it cannot host.          *)
(***************************************************************************)
EXTENDS WorkflowRuntime

CONSTANT MaxCrashes        \* bound of the model on how often the program dies

ASSUME HostAssumption == MaxCrashes \in Nat

VARIABLES
  binding,    \* workflow_node_bindings: node -> phase and attempt of its launch
  prepared,   \* #prepared: node -> attempt of the plan held for it, 0 for none
  process,    \* the executor's process for a node and how it ended
  active,     \* #active: node -> attempt of the handle watched, 0 for none
  wake,       \* #revisionWakes: a timer for the next due revision is set
  lock,       \* the operation holding the execution's lock, and its progress
  crashes

hostVars == <<rt, binding, prepared, process, active, wake, lock, crashes>>

Phases == {"none", "waiting-approval", "waiting-delegate-approval", "launching",
           "running", "failed"}

\* expired: the expiresAt time of the preparation has passed.
Bound(phase, attempt) == [phase |-> phase, attempt |-> attempt, expired |-> FALSE]
Unbound == Bound("none", 0)

\* stopAsked: the host called cancel on the handle of a running process, and for a
\* process it goes on watching the call did not throw.
NoProcess == [attempt |-> 0, alive |-> FALSE, stopAsked |-> FALSE,
              result |-> [status |-> "lost", evidence |-> "none", verdict |-> "approved"]]

\* fresh: the nodes the current pump prepared, deferred: those it put off.
Idle == [at |-> "idle", node |-> NoNode, todo |-> {}, fresh |-> {}, deferred |-> {},
         progressed |-> FALSE]
pumpLocked == [Idle EXCEPT !.at = "reconcile"]

\* Exact checks run without a separate launch approval.
launchesWithoutApproval(n) == n \in Tests

HostInit ==
  /\ Init
  /\ binding = [n \in Nodes |-> Unbound]
  /\ prepared = [n \in Nodes |-> 0]
  /\ process = [n \in Nodes |-> NoProcess]
  /\ active = [n \in Nodes |-> 0]
  /\ wake = FALSE
  /\ lock = pumpLocked
  /\ crashes = 0

-----------------------------------------------------------------------------
(* The pump: reconcile, revise, schedule, dispatch, until nothing changes    *)

\* #settledState arms a timer for the next revision the back-off delays.
scheduleRevisionWake(r) ==
  \E l \in Loops : r.loop[l].status = "revision-required" /\ NodeOf[LoopOf[l].review].backoff

nextIteration(settled, progressed) ==
  IF progressed THEN lock' = [lock EXCEPT !.at = "reconcile", !.progressed = FALSE] /\ UNCHANGED wake
  ELSE lock' = Idle /\ wake' = scheduleRevisionWake(settled)

PumpReconcile ==
  /\ lock.at = "reconcile"
  /\ rt' = reconcile(rt)
  /\ lock' = [lock EXCEPT !.at = "revise", !.progressed = (rt' # rt)]
  /\ UNCHANGED <<binding, prepared, process, active, wake, crashes>>

PumpRevise ==
  /\ lock.at = "revise"
  /\ IF canQueueEligibleRevisionAttempts(rt)
     THEN /\ rt' = queueEligibleRevisionAttempts(rt)
          /\ lock' = [lock EXCEPT !.at = "schedule", !.progressed = TRUE]
     ELSE /\ UNCHANGED rt
          /\ lock' = IF DueLoops(rt) = {} THEN [lock EXCEPT !.at = "schedule"]
                     ELSE Idle       \* queueRevisionAttempt throws
  /\ UNCHANGED <<binding, prepared, process, active, wake, crashes>>

Expired(n) == binding[n].phase = "waiting-approval" /\ binding[n].expired

\* Settles the schedule, then drops expired preparations if something can run.
PumpSchedule ==
  /\ lock.at = "schedule"
  /\ rt' = markWaitingForApprovals(settleBlockedWorkflowNodes(rt))
  /\ \E runnable \in {runnableNodeIds(rt')}, progressed \in {lock.progressed \/ rt' # rt} :
       IF runnable = {}
       THEN nextIteration(rt', progressed) /\ UNCHANGED <<binding, prepared>>
       ELSE /\ lock' = [lock EXCEPT !.at = "dispatch", !.todo = runnable,
                          !.progressed = progressed \/ \E n \in Nodes : Expired(n)]
            /\ binding' = [n \in Nodes |-> IF Expired(n) THEN Unbound ELSE binding[n]]
            /\ prepared' = [n \in Nodes |-> IF Expired(n) THEN 0 ELSE prepared[n]]
            /\ UNCHANGED wake
  /\ UNCHANGED <<process, active, crashes>>

DispatchEnds ==
  /\ lock.at = "dispatch" /\ lock.todo = {}
  /\ nextIteration(rt, lock.progressed)
  /\ UNCHANGED <<rt, binding, prepared, process, active, crashes>>

\* The next node of the snapshot, in the plan's order.
Dispatched(n) ==
  /\ lock.at = "dispatch"
  /\ \E i \in 1..Len(Order) : /\ Order[i] = n /\ n \in lock.todo
                              /\ \A j \in 1..(i - 1) : Order[j] \notin lock.todo

handled(n) == [lock EXCEPT !.at = "dispatch", !.node = NoNode, !.todo = @ \ {n},
                           !.progressed = TRUE]

skipDispatch(n) ==
  n \in lock.deferred \/ binding[n].phase \notin {"none", "waiting-delegate-approval"}

DispatchSkips(n) ==
  /\ Dispatched(n) /\ skipDispatch(n)
  /\ lock' = [lock EXCEPT !.todo = @ \ {n}]
  /\ UNCHANGED <<rt, binding, prepared, process, active, wake, crashes>>

\* The host runs a review gate itself: started and completed in two mutations.
StartInternalGate(g) ==
  /\ Dispatched(g) /\ ~skipDispatch(g)
  /\ g \in Gates
  /\ IF canStartWorkflowNode(rt, g)
     THEN /\ rt' = startWorkflowNode(rt, g)
          /\ binding' = [binding EXCEPT ![g] = Bound("running", rt.attempt[g])]
          /\ lock' = [lock EXCEPT !.at = "gate", !.node = g]
     ELSE lock' = Idle /\ UNCHANGED <<rt, binding>>
  /\ UNCHANGED <<prepared, process, active, wake, crashes>>

CompleteInternalGate ==
  /\ lock.at = "gate"
  /\ rt' = completeInternalReviewGate(rt, lock.node)
  /\ binding' = [binding EXCEPT ![lock.node] = Unbound]
  /\ lock' = handled(lock.node)
  /\ UNCHANGED <<prepared, process, active, wake, crashes>>

Preparing(n) == Dispatched(n) /\ ~skipDispatch(n) /\ n \notin Gates

\* A prepared launch waits for approval; an exact check goes on to launch.
Prepare(n) ==
  /\ Preparing(n)
  /\ prepared' = [prepared EXCEPT ![n] = rt.attempt[n]]
  /\ IF launchesWithoutApproval(n)
     THEN /\ binding' = [binding EXCEPT ![n] = Bound("launching", rt.attempt[n])]
          /\ lock' = [lock EXCEPT !.at = "launch", !.node = n]
     ELSE /\ binding' = [binding EXCEPT ![n] = Bound("waiting-approval", rt.attempt[n])]
          /\ lock' = [handled(n) EXCEPT !.fresh = @ \cup {n}]
  /\ UNCHANGED <<rt, process, active, wake, crashes>>

\* Faulty variant: the same pump prepares the node again.
PrepareNeedsDelegateAgain(n) ==
  /\ Preparing(n)
  /\ binding' = [binding EXCEPT ![n] = Bound("waiting-delegate-approval", rt.attempt[n])]
  /\ lock' = handled(n)
  /\ UNCHANGED <<rt, prepared, process, active, wake, crashes>>

PrepareNeedsDelegate(n) ==
  /\ Preparing(n)
  /\ binding' = [binding EXCEPT ![n] = Bound("waiting-delegate-approval", rt.attempt[n])]
  /\ lock' = [handled(n) EXCEPT !.deferred = @ \cup {n}]
  /\ UNCHANGED <<rt, prepared, process, active, wake, crashes>>

\* failWorkflowNodeBeforeLaunch throws unless the node is queued and still fits.
PrepareFails(n) ==
  /\ Preparing(n)
  /\ IF canFailWorkflowNodeBeforeLaunch(rt, n)
     THEN /\ rt' = failWorkflowNodeBeforeLaunch(rt, n)
          /\ binding' = [binding EXCEPT ![n] = Bound("failed", rt.attempt[n])]
          /\ lock' = handled(n)
     ELSE lock' = Idle /\ UNCHANGED <<rt, binding>>
  /\ UNCHANGED <<prepared, process, active, wake, crashes>>

-----------------------------------------------------------------------------
(* Launching an approved preparation: #launchPrepared                        *)

\* What approveNode compares: the attempt, never the readiness of the node.
ApprovalMatches(n) ==
  /\ binding[n].phase = "waiting-approval"
  /\ binding[n].attempt = rt.attempt[n]
  /\ prepared[n] = rt.attempt[n]

ApproveNode(n) ==
  /\ lock.at = "idle" /\ ApprovalMatches(n)
  /\ IF binding[n].expired
     THEN prepared' = [prepared EXCEPT ![n] = 0] /\ UNCHANGED <<lock, binding>>
     ELSE /\ binding' = [binding EXCEPT ![n] = Bound("launching", rt.attempt[n])]
          /\ lock' = [Idle EXCEPT !.at = "launch", !.node = n]
          /\ UNCHANGED prepared
  /\ UNCHANGED <<rt, process, active, wake, crashes>>

LaunchSucceeds ==
  /\ lock.at = "launch"
  /\ process' = [process EXCEPT ![lock.node] = [NoProcess EXCEPT !.attempt = rt.attempt[lock.node],
                                                                !.alive = TRUE]]
  /\ prepared' = [prepared EXCEPT ![lock.node] = 0]
  /\ lock' = [lock EXCEPT !.at = "launched"]
  /\ UNCHANGED <<rt, binding, active, wake, crashes>>

\* Where a launch goes on once the node was started or failed.
afterLaunch(n, started) ==
  IF launchesWithoutApproval(n) THEN handled(n) ELSE IF started THEN Idle ELSE pumpLocked

LaunchFails ==
  /\ lock.at = "launch"
  /\ IF canFailWorkflowNodeBeforeLaunch(rt, lock.node)
     THEN /\ rt' = failWorkflowNodeBeforeLaunch(rt, lock.node)
          /\ binding' = [binding EXCEPT ![lock.node].phase = "failed"]
          /\ prepared' = [prepared EXCEPT ![lock.node] = 0]
          /\ lock' = afterLaunch(lock.node, FALSE)
     ELSE lock' = Idle /\ UNCHANGED <<rt, binding, prepared>>
  /\ UNCHANGED <<process, active, wake, crashes>>

\* Faulty variants: a launch is recorded without asking again, or is not watched.
RecordStartedUnchecked ==
  /\ lock.at = "launched"
  /\ rt' = startWorkflowNode(rt, lock.node)
  /\ binding' = [binding EXCEPT ![lock.node].phase = "running"]
  /\ active' = [active EXCEPT ![lock.node] = rt.attempt[lock.node]]
  /\ lock' = afterLaunch(lock.node, TRUE)
  /\ UNCHANGED <<prepared, process, wake, crashes>>
RecordStarted ==
  /\ lock.at = "launched" /\ canStartWorkflowNode(rt, lock.node)
  /\ rt' = startWorkflowNode(rt, lock.node)
  /\ binding' = [binding EXCEPT ![lock.node].phase = "running"]
  /\ active' = [active EXCEPT ![lock.node] = rt.attempt[lock.node]]
  /\ lock' = afterLaunch(lock.node, TRUE)
  /\ UNCHANGED <<prepared, process, wake, crashes>>

\* settledCancellation of a launched process that will not be watched: it is gone, or
\* cancel threw or only signalled it, and it lives on without a handle.
settledCancellation(n) ==
  process' \in {[process EXCEPT ![n] = NoProcess], [process EXCEPT ![n].stopAsked = TRUE]}

\* The start is refused: the process is stopped; recording the failure asserts
\* again what the start asserted and throws.
StartRejected ==
  /\ lock.at = "launched" /\ ~canStartWorkflowNode(rt, lock.node)
  /\ settledCancellation(lock.node)
  /\ lock' = Idle
  /\ UNCHANGED <<rt, binding, prepared, active, wake, crashes>>

\* Faulty variant: the operation throws without stopping the process.
PersistStartedThrows ==
  /\ lock.at = "launched" /\ canStartWorkflowNode(rt, lock.node)
  /\ lock' = Idle
  /\ UNCHANGED <<rt, binding, prepared, process, active, wake, crashes>>

\* The running binding cannot be stored: the process is stopped and the node
\* failed, unless that fails too; the operation throws either way.
PersistStartedFails ==
  /\ lock.at = "launched" /\ canStartWorkflowNode(rt, lock.node)
  /\ settledCancellation(lock.node)
  /\ \/ /\ canFailWorkflowNodeBeforeLaunch(rt, lock.node)
        /\ rt' = failWorkflowNodeBeforeLaunch(rt, lock.node)
        /\ binding' = [binding EXCEPT ![lock.node].phase = "failed"]
     \/ UNCHANGED <<rt, binding>>
  /\ lock' = Idle
  /\ UNCHANGED <<prepared, active, wake, crashes>>

-----------------------------------------------------------------------------
(* Processes and their completions                                           *)

\* A stopped agent or check reports cancelled, or lost when stopping it failed; what a
\* process without a handle reports is not read.
ProcessExits(n, result) ==
  /\ process[n].alive
  /\ process[n].stopAsked => result.status \in {"cancelled", "lost"}
  /\ process' = [process EXCEPT ![n].alive = FALSE, ![n].result = result]
  /\ UNCHANGED <<rt, binding, prepared, active, wake, lock, crashes>>

\* The node still waits for the completion of the watched handle.
stillCurrent(n) == rt.attempt[n] = active[n] /\ rt.status[n] \in ActiveStatus

stillBound(n) == binding[n].phase = "running" /\ binding[n].attempt = active[n]

\* Faulty variant: the life cycle is not consulted.
completionAlwaysAccepted(n, result) == TRUE

\* A completion the life cycle refuses throws before anything is stored, and is
\* tried again later.
completionAccepted(n, result) ==
  stillCurrent(n) /\ stillBound(n) => canCompleteWorkflowNode(rt, n, result.status)

\* Faulty variants: the handle is kept, or the run is not pumped afterwards.
completeKeepsHandle(n, result) ==
  /\ completionAccepted(n, result)
  /\ rt' = IF stillCurrent(n) THEN recordCompletion(rt, n, result) ELSE rt
  /\ binding' = [binding EXCEPT ![n] = Unbound]
  /\ lock' = IF stillCurrent(n) THEN pumpLocked ELSE Idle
  /\ process' = [process EXCEPT ![n] = NoProcess]
  /\ UNCHANGED <<active, prepared, wake, crashes>>
completeWithoutPump(n, result) ==
  /\ completionAccepted(n, result)
  /\ rt' = IF stillCurrent(n) THEN recordCompletion(rt, n, result) ELSE rt
  /\ binding' = [binding EXCEPT ![n] = Unbound]
  /\ lock' = Idle
  /\ active' = [active EXCEPT ![n] = 0]
  /\ process' = [process EXCEPT ![n] = NoProcess]
  /\ UNCHANGED <<prepared, wake, crashes>>

\* #completeLocked for the watched handle of n.
completeLocked(n, result) ==
  /\ completionAccepted(n, result)
  /\ IF ~stillCurrent(n) THEN lock' = Idle /\ UNCHANGED <<rt, binding>>
     ELSE /\ rt' = IF stillBound(n) THEN recordCompletion(rt, n, result)
                   ELSE completeWorkflowNode(rt, n, "failed")
          /\ binding' = [binding EXCEPT ![n] = Unbound]
          /\ lock' = pumpLocked
  /\ active' = [active EXCEPT ![n] = 0]
  /\ process' = [process EXCEPT ![n] = NoProcess]
  /\ UNCHANGED <<prepared, wake, crashes>>

CommitCompletion(n) ==
  /\ lock.at = "idle"
  /\ active[n] # 0 /\ ~process[n].alive
  /\ completeLocked(n, process[n].result)

\* cancelNode stops the process of a running node and commits its completion
\* before it lets go of the lock.
CancelNode(n, result) ==
  /\ lock.at = "idle"
  /\ rt.status[n] = "running" /\ active[n] = rt.attempt[n]
  /\ binding[n].phase = "running" /\ binding[n].attempt = rt.attempt[n]
  /\ IF process[n].alive THEN result.status \in {"cancelled", "lost"}
     ELSE result = process[n].result
  /\ completeLocked(n, result)

-----------------------------------------------------------------------------
(* Decisions of the person, cancellation, timers and restart                 *)

\* Every one of these ends by pumping the execution.
ThenPump == lock.at = "idle" /\ lock' = pumpLocked

HostApproveHumanDecision(t) ==
  /\ ThenPump /\ ApproveHumanDecision(t)
  /\ UNCHANGED <<binding, prepared, process, active, wake, crashes>>

HostRecordHumanReview(e, decision) ==
  /\ ThenPump /\ RecordHumanReview(e, decision)
  /\ UNCHANGED <<binding, prepared, process, active, wake, crashes>>

HostAcceptEscape(l) ==
  /\ ThenPump /\ AcceptEscape(l)
  /\ UNCHANGED <<binding, prepared, process, active, wake, crashes>>

\* Every watched process is asked to stop; that asking failed is ignored.
stopActive ==
  \E stopped \in SUBSET {n \in Nodes : active[n] # 0 /\ process[n].alive} :
    process' = [n \in Nodes |-> IF n \in stopped THEN [process[n] EXCEPT !.stopAsked = TRUE]
                               ELSE process[n]]

\* Giving up stops the watched processes; bindings and preparations stay.
HostCancelEscape(l) ==
  /\ ThenPump /\ CancelEscape(l)
  /\ stopActive
  /\ UNCHANGED <<binding, prepared, active, wake, crashes>>

HostCancel ==
  /\ lock.at = "idle"
  /\ CancelExecution
  /\ binding' = [n \in Nodes |-> IF binding[n].phase = "running" THEN binding[n] ELSE Unbound]
  /\ prepared' = [n \in Nodes |-> 0]
  /\ stopActive
  /\ wake' = FALSE
  /\ UNCHANGED <<active, lock, crashes>>

\* getState and pump, called by the window at any time.
Poll ==
  /\ ThenPump
  /\ UNCHANGED <<rt, binding, prepared, process, active, wake, crashes>>

WakeFires ==
  /\ ThenPump
  /\ wake /\ \E l \in Loops : revisionDue(rt, l)
  /\ wake' = FALSE
  /\ UNCHANGED <<rt, binding, prepared, process, active, crashes>>

HostBackoffElapses(l) ==
  /\ BackoffElapses(l)
  /\ UNCHANGED <<binding, prepared, process, active, wake, lock, crashes>>

\* A plan's lifetime of minutes is longer than the pump that prepared it.
PreparationExpires(n) ==
  /\ n \notin lock.fresh
  /\ binding[n].phase = "waiting-approval" /\ ~binding[n].expired
  /\ binding' = [binding EXCEPT ![n].expired = TRUE]
  /\ UNCHANGED <<rt, prepared, process, active, wake, lock, crashes>>

\* The program dies; the processes it supervised die with it.
Crash ==
  /\ lock.at # "down" /\ crashes < MaxCrashes
  /\ lock' = [Idle EXCEPT !.at = "down"]
  /\ prepared' = [n \in Nodes |-> 0]
  /\ process' = [n \in Nodes |-> NoProcess]
  /\ active' = [n \in Nodes |-> 0]
  /\ wake' = FALSE
  /\ crashes' = crashes + 1
  /\ UNCHANGED <<rt, binding>>

\* Faulty variant: the execution is pumped as it was found.
RestartWithoutRecovery ==
  /\ lock.at = "down"
  /\ binding' = [n \in Nodes |-> Unbound]
  /\ lock' = IF isTerminalRunStatus(rt.runStatus) THEN Idle ELSE pumpLocked
  /\ UNCHANGED <<rt, prepared, process, active, wake, crashes>>

\* recoverAll at start-up, for an execution that storage lists as not ended.
Restart ==
  /\ lock.at = "down"
  /\ IF isTerminalRunStatus(rt.runStatus)
     THEN lock' = Idle /\ UNCHANGED <<rt, binding>>
     ELSE /\ RecoverExecution
          /\ binding' = [n \in Nodes |-> Unbound]
          /\ lock' = pumpLocked
  /\ UNCHANGED <<prepared, process, active, wake, crashes>>

-----------------------------------------------------------------------------

DispatchStep(n) ==
  \/ DispatchSkips(n) \/ StartInternalGate(n)
  \/ Prepare(n) \/ PrepareNeedsDelegate(n) \/ PrepareFails(n)

\* What the holder of the lock does next.
LockStep ==
  \/ PumpReconcile \/ PumpRevise \/ PumpSchedule \/ DispatchEnds
  \/ \E n \in Nodes : DispatchStep(n)
  \/ CompleteInternalGate
  \/ LaunchSucceeds \/ LaunchFails
  \/ RecordStarted \/ StartRejected \/ PersistStartedFails
  \/ Restart

PersonStep ==
  \/ \E n \in Nodes : ApproveNode(n) \/ \E result \in ExecutorResults(n) : CancelNode(n, result)
  \/ \E t \in ApprovalTargets : HostApproveHumanDecision(t)
  \/ \E e \in HumanReviewEdges, d \in {"approved", "changes-requested"} :
       HostRecordHumanReview(e, d)
  \/ \E l \in Loops : HostCancelEscape(l) \/ HostAcceptEscape(l)
  \/ HostCancel
  \/ Poll

ProcessStep(n) == \E result \in ExecutorResults(n) : ProcessExits(n, result)

HostNext ==
  \/ LockStep
  \/ PersonStep
  \/ \E n \in Nodes : ProcessStep(n) \/ CommitCompletion(n) \/ PreparationExpires(n)
  \/ \E l \in Loops : HostBackoffElapses(l)
  \/ WakeFires
  \/ Crash

HostSpec == HostInit /\ [][HostNext]_hostVars

\* The fairness below names the effect of a step on lock or active only, which
\* is cheaper to evaluate: every LockStep changes lock, and nothing but a crash
\* does so besides; a committed completion clears its entry of active.
LockHolderGoesOn ==
  /\ lock.at # "idle"
  /\ lock' \in [at : {"idle", "reconcile", "revise", "schedule", "dispatch", "gate", "launch",
                     "launched"},
               node : Nodes \cup {NoNode}, todo : SUBSET Nodes, fresh : SUBSET Nodes,
               deferred : SUBSET Nodes, progressed : BOOLEAN]

ACompletionIsCommitted ==
  \E n \in Nodes : /\ lock.at = "idle" /\ active[n] # 0 /\ ~process[n].alive
                   /\ completionAccepted(n, process[n].result)
                   /\ active' = [active EXCEPT ![n] = 0]

\* The event loop goes on with an operation it began, processes end, timers
\* fire and completions are retried until stored. Nothing is assumed of people.
HostFairness ==
  /\ WF_lock(LockHolderGoesOn)
  /\ WF_process(\E n \in Nodes : ProcessStep(n))
  /\ SF_active(ACompletionIsCommitted)
  /\ WF_rt(\E l \in Loops : HostBackoffElapses(l))
  /\ SF_wake(WakeFires)

FairHostSpec == HostSpec /\ HostFairness

-----------------------------------------------------------------------------
(* Properties *)

\* The runtime, the persisted bindings, the two in-memory maps of the host and the
\* position of the operation that holds the execution lock have their types.
HostTypeOK ==
  /\ TypeOK
  /\ binding \in [Nodes -> [phase : Phases, attempt : Nat, expired : BOOLEAN]]
  /\ prepared \in [Nodes -> Nat] /\ active \in [Nodes -> Nat]
  /\ wake \in BOOLEAN /\ crashes \in 0..MaxCrashes
  /\ \A n \in Nodes : process[n].attempt \in Nat /\ process[n].result \in ExecutorResults(n)
  /\ lock.node \in Nodes \cup {NoNode} /\ lock.todo \cup lock.fresh \cup lock.deferred \subseteq Nodes

\* A launched process without a handle, whose stop the host asked for and did not see.
\* Its launch was given up, and nothing is launched beside it: the binding keeps the
\* node from being prepared again, or the run is cancelled.
LeftRunning(n) ==
  /\ process[n].stopAsked /\ active[n] = 0 /\ rt.status[n] \notin ActiveStatus
  /\ binding[n].phase \in {"launching", "failed"} \/ rt.cancellationRequested

\* No process runs unaccounted for: a live process is either the one an operation is
\* launching right now, or that of the node's current attempt, recorded as active with
\* a running binding and a watched handle, or one that was refused or could not be
\* recorded (service.ts 461-570), was asked to stop, and is never doubled.
EveryProcessIsAccountedFor ==
  \A n \in Nodes : process[n].alive =>
    \/ lock.at = "launched" /\ lock.node = n
    \/ /\ rt.status[n] \in ActiveStatus
       /\ process[n].attempt = rt.attempt[n] /\ active[n] = rt.attempt[n]
       /\ binding[n] = Bound("running", rt.attempt[n])
    \/ LeftRunning(n)

\* Conversely every node recorded as running has a watched process whose end
\* will be committed, except while the program is down (or a gate, which the
\* host completes under the same lock).
EveryActiveNodeIsWatched ==
  lock.at # "down" =>
    \A n \in ActiveNodes(rt) : IF n \in Gates THEN lock.at = "gate" /\ lock.node = n
                               ELSE active[n] = rt.attempt[n] /\ process[n].attempt = active[n]

\* A launch never meets a process of an earlier attempt of the same node.
LaunchFindsNoProcess ==
  lock.at = "launch" => process[lock.node] = NoProcess /\ active[lock.node] = 0

\* An operation that took the lock lets go of it: the pump's loop of reconcile,
\* revise, schedule and dispatch reaches a fixed point.
LockIsReleased == lock.at # "idle" ~> lock.at = "idle"

\* Something only a person can decide is open.
NeedsPerson ==
  \/ \E n \in Nodes : binding[n].phase \in {"waiting-approval", "waiting-delegate-approval"}
  \/ \E t \in ApprovalTargets \cup HumanReviewEdges : awaitingHumanDecision(rt, t)
  \/ \E l \in Loops : canResolveRevisionEscape(rt, l)

\* A launch that could be recorded neither as started nor as failed: its node
\* waits for a restart, or for somebody who cancels the run.
LaunchLeftBehind == lock.at = "idle" /\ \E n \in Nodes : binding[n].phase = "launching"

\* The run ends or asks: without any help of the window it keeps coming back to
\* a state in which it has ended, was cancelled, waits for a person, or could
\* not record a launch.
RunEndsOrAsks ==
  []<>(\/ isTerminalRunStatus(rt.runStatus) \/ rt.cancellationRequested
       \/ NeedsPerson \/ LaunchLeftBehind)

\* The host implements the runtime: whatever it interleaves and wherever it dies,
\* every mutation it stores is one step of the runtime's own state machine.
HostImplementsRuntime == Spec

-----------------------------------------------------------------------------
(* What documents and tests say of the host, and the code does not do        *)

\* Cancelling cancels queued work: a cancelled run has nothing left to start.
CancelledRunHasNoQueuedWork ==
  rt.cancellationRequested => \A n \in Nodes : rt.status[n] \notin UnstartedStatus

\* A cancelled run settles once its processes acknowledged.
CancelledRunSettles == rt.cancellationRequested ~> isTerminalRunStatus(rt.runStatus)

\* No two live processes hold the same exclusive key.
LiveProcessesHoldKeysOnce ==
  \A m, n \in Nodes : m # n /\ process[m].alive /\ process[n].alive =>
    NodeOf[m].keys \cap NodeOf[n].keys = {}

\* Cancelling discards prepared launches: a cancelled run launches nothing.
CancelledRunLaunchesNothing ==
  [][rt.cancellationRequested => \A n \in Nodes : process'[n].alive => process[n].alive]_hostVars
=============================================================================
