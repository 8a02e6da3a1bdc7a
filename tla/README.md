# AI Agent Orchestrator, in TLA+

The program is a desktop application in which a person draws a canvas of agents,
tasks, checks, reviews and gates and lets it run. Four parts of it are modelled here:

- the **workflow engine**, which decides which node may run, launches it, records what
  it proved, sends work back for another attempt and survives a crash;
- the **agent runs** behind the nodes: plans, sessions, the worktrees they live in, and
  everything that stops, deletes or cleans them meanwhile;
- the **restore of the local database** from a backup, and what a later start makes of
  one that was interrupted;
- the **delivery of a reviewer's comments** to the collaboration server, from the local
  ledger through an unreliable connection and back.

TLC checks the modules on small instances; TLAPS proves most of their safety properties
for every value of the constants: the runtime and the host for every canvas, the agent runs,
the restore and the delivery of comments for any number of runs, owners, restores, comments
and faults.

    tlc -workers 2 -config MCGateLoop.cfg MCGateLoop     a run
    tlapm WorkflowRuntimeProofs.tla                      the proofs of a module

## 1. Inventory of the system

`P` is `packages`, `A` is `apps/desktop/src/main`.

| Component | State | Operations | Hard because |
|---|---|---|---|
| Workflow model, `P/core/src/workflow` | none (pure) | status life cycle, aggregate status, cancellation, gate verdict, loop counter, validation, plan | boundaries of the loop counter, combinations of verdicts |
| Workflow runtime, `P/core/src/workflow-runtime` | one immutable runtime value: node runs, loops, evidence, decisions | readiness, start, complete, fail before launch, evidence of a completion, reconcile, approve, human review, revise, escape, cancel, recover | evidence of one attempt must never serve another; many orders of the same operations |
| Workflow host, `A/workflow/host` | stored: runtime, node bindings, events; in memory: prepared plans, watched handles, back-off timers, one lock per execution | start, pump, approveNode, cancelNode, decisions, cancel, completion with retry, recoverAll | awaits under the lock, processes that end at any time, expiring preparations, crashes between two stored steps |
| Evidence bridge, `A/workflow/evidence` | files of evidence | record a completion, reconcile checks, contexts | result accepted or downgraded depending on evidence |
| Executors, `A/workflow/agents`, `A/workflow/exact-check` | one process per node | prepare, launch, cancel, complete | a stop races the end of the process |
| Execution storage, `A/storage/workflow` | executions, events, bindings in SQLite | create, mutate with expected revision, list recoverable | replay and revision conflicts |
| Agent execution runtime, `A/agent-execution` | in memory: plans, active sessions, reservations, stops of owners; stored: a record per run | prepare, launch, resume, retry, pause, terminate, expire, stopOwner, resetForPrivacy, dispose, recover | two windows and a workflow compete for one worktree; everything may stop while a launch awaits its process |
| Worktree cleanup, quiescence, data operation gate, `A/git/lifecycle`, `A/lifecycle` | worktrees on disk, the worktree state of each run record, one exclusive mutation | review, confirm, clean, recover an interrupted cleanup | three owners of the same directory: the runtime, the person, the recovery |
| Approvals, outbound gate | one-time approvals | ask, confirm | approval used once, for exactly the disclosed plan |
| Database restore, `A/recovery/database` | the database and its sidecars, a directory and a journal per restore, the initialization marker | restore, roll back, reconcile at a start, open | crash between a rename and its record; a torn record; a second restore on top of the first |
| Database, audit chain, backups | files | backup, verify | one writer, long transactions |
| Collaboration client and ledger, `A/collaboration`, `A/storage/collaboration` | session, pending deliveries with timers; stored: a row per delivery, dismissals, snapshot | join, comment, settle, expire, reconnect, recover, replay, dismiss, checkpoint | late, repeated and reordered answers; a time-out that the server does not know of |
| Collaboration server, `apps/collab-server` | a document per room, stored with delay; members, invitations | authenticate, validate, confirm, store | an answer before the store |
| Terminal, preview, check runtimes; agent adapters | a supervised process each | start, input, stop, exit | stop races exit |
| Git engine, readiness, delivery | repositories on disk | plan, confirm, push | the checked state is stale when used |
| Close coordinator | none | ask, drain, quit | shutdown races new work |
| Extensions, provider connections, Docker, companion, settings, updates, voice, diagrams, windows | settings, caches | configuration and display | little control of their own |

How they interact. The window calls the host through IPC. The host serialises
every operation on one execution with a lock, reads the stored runtime, calls the
pure functions of the runtime, and stores the result with the node bindings and
an event in one transaction. It prepares and launches nodes through executors;
each launched process yields one completion, which the host commits later under
the same lock, asking the evidence bridge what the result proves. After each
operation it *pumps* the execution: reconcile evidence, queue due revisions,
settle blocked and waiting nodes, dispatch what may run, until nothing changes.

An executor of an agent node asks the agent execution runtime for a plan and launches
it; windows do the same directly. The runtime provisions a worktree through the git
engine, writes the run history, and is paused by the data operation gate when data is
deleted, a worktree is cleaned or the program quits. Before any of these services
exist, a start reconciles interrupted restores and opens the database. The
collaboration service of the main process sits between the window, the ledger in that
database and the websocket to the server.

What makes the engine correct:

- evidence, approvals and gate verdicts speak about the current attempt;
- nothing runs behind a closed gate, in a cancelled run, or beyond the limits;
- loops are bounded, and what ended stays ended unless a new attempt begins;
- every process belongs to exactly one recorded attempt, and the other way round,
  whatever crashes or fails to be stored; one that was given up and could not be stopped
  is never doubled;
- a run ends or asks somebody.

What makes the other parts correct:

- agent runs: one session per worktree, which holds its record and its worktree; no
  session after its owner is gone; no record of a run or of a cleanup that is not so;
  no two drains that wait for each other;
- restore: the database a process opens is the old one or the whole backup; no
  interruption loses either; a start ends, and refuses only for a contradiction on disk or
  because a file operation of its own failed, which the next start does not suffer from;
- comments: none is lost, what is acknowledged is durable, a settlement is final, a
  reconnection completes.

`PROJECT.json` lists every component, with those left out and why, and the
hazards of this code at their lines.

## 2. Modules

| Module | Models | Uses |
|---|---|---|
| `WorkflowModel` | `core/src/workflow/model.ts`, `gates.ts`: constant operators | |
| `WorkflowRuntime` | `core/src/workflow-runtime/*.ts` and the effect of `evidence/bridge.ts` on the runtime: variable `rt`, specification `Spec` | extends `WorkflowModel` |
| `WorkflowHost` | `workflow/host/service.ts`, `review-gate.ts` and the executors' contract: specifications `HostSpec`, `FairHostSpec` | extends `WorkflowRuntime` |
| `WorkflowRuntimeProofs`, `WorkflowGateProofs` | theorems about the runtime | the first extends `WorkflowRuntime`, the second the first |
| `WorkflowHostProofs` | theorems about the host, with the refinement | extends `WorkflowHost`, `WorkflowGateProofs` |
| `AgentRunsProofs`, `DatabaseRestoreProofs`, `CollaborationProofs` | theorems about the agent runs, the restore and the delivery of comments | extend `AgentRuns`, `DatabaseRestore`, `CollaborationDelivery` |
| `RestoreAtomicProofs` | the restore implements `AtomicReplace` | extends `DatabaseRestoreProofs` |
| `RestoreFaultProofs` | what holds of the restore up to the second fault | extends `RestoreAtomicProofs` |
| `AgentRuns` | `agent-execution/runtime.ts`, `continuation/authority.ts`, `storage/runs-audit.ts`, `git/lifecycle/worktree-cleanup-*.ts`, `lifecycle/process-quiescence.ts`, `data-operation-gate.ts`: specification `RunsSpec` | |
| `DatabaseRestore` | `recovery/database/*.ts`: specifications `RestoreSpec`, `RestoreFairSpec` | instantiates `AtomicReplace` |
| `AtomicReplace` | what the restore promises: one database, replaced in one step | |
| `CollaborationLedger` | `storage/collaboration/*.ts`, `shared/collaboration/sync/*.ts`: constant operators over the rows of the database | |
| `CollaborationDelivery` | `collaboration/client.ts`, `collaboration/ipc.ts`, `collab-server/src/server.ts`: specifications `DeliverySpec`, `DeliveryFairSpec` | extends `CollaborationLedger` |
| `MC*` | one instance each | extends the module it instantiates |

### WorkflowRuntime

The code is functions from a runtime value to the next; each is an operator on the
record `rt`. A function `f` that may throw is two operators: `canF`, the condition
under which it returns, and `f`, what it returns. `Spec` has one action per
function whose result the host stores (`StartNode`, `FailNodeBeforeLaunch`,
`CompleteNode` with the evidence its completion brings, `CompleteGate`, `ReconcileEvidence`,
`UpdateSchedule`, `ApproveHumanDecision`, `RecordHumanReview`, `QueueRevisions`,
`CancelEscape`, `AcceptEscape`, `CancelExecution`, `RecoverExecution`), and one
for time (`BackoffElapses`).

Data is abstracted to what the properties tell apart:

- a digest, snapshot or fingerprint that binds evidence to a run is the *attempt
  number* of that node, 0 for none. A fingerprint of a human decision is the set of
  attempts, outputs, contexts, checks and assessments it covers, as in
  `approvalRequestUnchecked`;
- the evidence of a completion is `none`, `plain` or `full`, together with a
  verdict if the agent is a reviewer;
- times are dropped, except for the back-off of a loop, which is a flag: the host
  never records a time before the last one;
- a run covers the whole canvas, so the plan is `Nodes`, `Edges` and `Order`.

Constants describe a canvas that `validateWorkflow` accepts. The named
assumptions (`CanvasAssumption`, `LimitsAssumption`, `ValidCanvas`,
`GateSourceAssumption` and the two of the bounds, `SingleReviewAssumption` and
`DisjointLoops`) are evaluated by TLC for each canvas and used by the proofs.
`SingleReviewAssumption` and `DisjointLoops` restrict the canvases: an agent
reviews one node through one edge at most, and two loops share no node.

### WorkflowHost

`rt` and `binding` are stored together and survive a crash; `prepared`, `process`,
`active`, `wake` and `lock` do not. `lock` is the operation that holds the
execution lock and how far it has got. One action is the code from one stored
mutation, or one await of an executor, to the next, so that processes end,
preparations expire and the program dies between any two.

| Action | Code |
|---|---|
| `PumpReconcile`, `PumpRevise`, `PumpSchedule`, `DispatchEnds`, `DispatchSkips` | `#pumpLocked` |
| `StartInternalGate`, `CompleteInternalGate` | the gate branch of `#pumpLocked` |
| `Prepare`, `PrepareNeedsDelegate`, `PrepareFails` | the executor branch |
| `ApproveNode`, `LaunchSucceeds`, `LaunchFails`, `RecordStarted`, `StartRejected`, `PersistStartedFails` | `approveNode`, `#launchPrepared` |
| `ProcessExits`, `CommitCompletion`, `CancelNode` | executors, `#completeLocked`, `cancelNode` |
| `HostApproveHumanDecision`, `HostRecordHumanReview`, `HostAcceptEscape`, `HostCancelEscape`, `HostCancel`, `Poll` | the operations of the window |
| `WakeFires`, `HostBackoffElapses`, `PreparationExpires` | timers |
| `Crash`, `Restart` | the program dies; `recoverAll` |

Details of the correspondence:

- A process dies with the program that supervises it (`Crash`).
- The binding of a check that approves itself is stored as prepared and as
  launching without an await in between: one step.
- The bindings the pump drops because they expired are dropped in one step, as
  nothing else can look between them. A preparation outlives the pump that made it.
- A process whose start is refused or cannot be recorded is stopped with
  `settledCancellation` (`service.ts:464`, `:518`), which keeps the error of a stop that
  fails: the process is gone, or it runs on without a handle, asked to stop. The operation throws
  either way. The stops of `cancel` and of a loop given up may fail likewise, and the code ignores that
  (`stopActive`).
- A completion that the life cycle refuses throws before anything is stored and is
  retried: `CommitCompletion` is not enabled then.
- The branches of `#completeLocked` for a node that is no longer current, and for
  a changed binding, are modelled, and TLC never reaches them: they are defensive.
- `MAX_PUMP_ITERATIONS` is left out; `LockIsReleased` shows that the pump reaches a
  fixed point by itself on the canvas checked.

### AgentRuns

A step between two awaits is one action. `op[r]` says where the operation of run `r`
stands: preparing, pending, launching, registered, being given up, over. A plan and
its run share an id in the code and in the model. `store` is the run history,
`worktree` the directories on disk (`intact`, `partial`, `gone`); `session` is the
child process.

| Action | Code |
|---|---|
| `Prepare`, `ChooseTarget`, `SavePlan`, `PrepareFails` | `prepare`, `#prepare` between its awaits |
| `Launch`, `Authorize`, `Spawn`, `Register`, `LaunchFails` | `launch`, `#launch`, `#launchPrepared`, `#recordLaunchFailure` |
| `SessionExits`, `Track`, `PauseOrContinue`, `TerminateSession` | the session and `#track`, `pause`, `terminate` |
| `Discard`, `RemoveOwnWorktree`, `RemovalFails` | expiry, discard and `#cleanupPreparedWorktree` |
| `StopOwner`, `StopDrained`, `StopPlan`, `StopSignals`, `StopDone` | `stopOwner` |
| `BeginMutation`, `ResetForPrivacy`, `PauseForShutdown`, `Dispose`, `CloseRuns`, `Closed`, `DeletionEnds`, `QuitRefused` | the gate, privacy deletion and quit |
| `ReviewInterruptedCleanup`, `ConfirmCleanup`, `BeginCleanup`, `CleanWorktree`, `CleanupFails` | the cleanup of a worktree |
| `Restart` | a crash or quit, and `recoverInterruptedRuns` |

Runs have a writable profile, so each has a worktree. A retry is a launch whose parent
passed the checks of a continuation. A crash may leave the agent process behind
(`orphan`): the code knows nothing of it, and its run is recovered as `lost`. The removal of
a worktree is two steps, so that it can be seen, and can fail, half-way; a worktree with
unmerged work (`changed`) is not removed. Archived worktrees are left out.

### DatabaseRestore

A step is one rename or one journal append with the sync that follows. Bytes, and so
digests, are tokens (`prior`, `candidate`, `audited` after the recovery audit row,
`own` after use, `sqlite` for sidecars of an open connection). An append that fails, and
a crash during one, leave the record out, torn or complete; a torn line makes the next append unreadable.
The actions follow the three programs in order: `Start` ... `OpenStore` with the
reconciliation (`RemoveDiscarded`, `ScanDirectory`, `Undo*`), the restore
(`CreateRestoreDirectory` ... `RecordCompleted`) and its rollback (`Rollback*`). The branches for
Windows are left out, and so is a backup that fails verification, which changes nothing.

A file operation of a start may fail anywhere in the boundary check, the reconciliation and the
opening (`OpeningFails`), any number of times: the code reports the database as unavailable
(`interrupted-restore.ts:137`, `classifyOpenFailure`) and the start ends with `io-error`, with an append it
was making left out or torn. The outcome has a name of its own so that it can be told from `unavailable`, a start that
found a contradiction. A restore, and the writes after the store was opened (marker, audit row), fail with
`Fault`, which is counted in `faults`.

`AtomicReplace` has two variables, whose database it is and what an open store shows;
`owner` and `proc.view` of the model implement them (`RestoreIsAtomic`). The replacement takes effect
with the record `completed`, or, when the program died while that record was being written, with the
start that finds it in the journal.

### CollaborationLedger and CollaborationDelivery

A shared document is the set of comments it holds, and its state vector is that set. The
ledger is a function from delivery numbers to rows (baseline, candidate, disposition), with the
dismissals and whether a checkpoint is kept, as in the tables of `database.ts`. The connection is two
queues which a disconnection empties; the server stores its document in a step of its own, as
Hocuspocus does. The answers to deliveries wait in a queue, and a reconnection sends
the confirmations again, so that an answer may be late or doubled.

| Action | Code |
|---|---|
| `Join`, `Connect`, `JoinTimeout`, `Leave`, `Dropped` | `join`, `onAuthenticate`, `#fail`, `leave`, `#handleDisconnect` |
| `HandleSynced`, `HandleUpdate`, `HandleStateless`, `ExpireDelivery` | the callbacks of the provider and the timer of a delivery |
| `CreateComment`, `Recover` (with replay), `Checkpoint`, `DiscardRejectedComment` | the calls of the window |
| `ServerHandles`, `ServerStores`, `ServerCrash`, `Revoke` | the server |
| `Disconnect`, `DesktopCrash`, `PeerComments`, `PeerResyncs` | the network, the operating system, another member |

Only the comments of a reviewer are modelled: an editor's canvas metadata would need the
three-way merge of the renderer. Rows that expire after 30 days do not.

## 3. Runs

| Run | Canvas | Shows |
|---|---|---|
| `gate_loop` | impl, diff, test; an agent reviews; a gate that needs the test, the reviewer and a person, with back-off; a loop of 2 attempts; ship behind the gate | types, aggregate status, fresh evidence, honest gate, nothing behind a closed gate, bounded loop, cancellation |
| `human_review` | a context for impl, a person reviews its diff (2 attempts), publish after the review and notes after impl, both with approval | decisions and approvals are for the current attempt; what ended stays ended |
| `contention` | build and tidy share a key, big and deploy have higher demands, critic reviews build directly, a gate with a check guards deploy | concurrency, units and keys |
| `host_loop` | impl, check, gate with back-off, ship, 2 attempts; 1 crash | every process accounted for, also one whose stop failed, and every active node watched; a launch meets no old process; the host implements the runtime |
| `host_escape` | impl, look by a person (1 attempt), publish with approval, an independent side node that shares a key with publish; 1 crash | the host implements the runtime and recorded runs stay exclusive, with a loop given up or accepted next to running work |
| `host_line` | impl, check, gate, ship, no loop; 1 crash | liveness: the lock is released; the run ends or asks |
| `database_restore` | a primary and one sidecar, 2 restores, 3 starts, 2 attempts per start, 1 fault in a restore or after opening, crashes and failed file operations of a start anywhere | old or restored files survive; a refusal is explained; starts end; refinement of `AtomicReplace` |
| `collaboration` | 2 comments of the reviewer, 1 of another member, 3 deliveries, a ledger of 2 rows, 2 sessions, 1 fault | nothing lost, acknowledged is durable, settlements final, reconnection completes |
| `agent_runs` | an interrupted run and two more, 2 owners with one preparation and one launch or session each, 2 of each in all, 1 disturbance (a refused write, a failed git command or a restart) | admission limits; sessions and worktrees one to one; history and cleanup true; nothing outlives its owner; nobody waits for ever |

(The column Canvas is the instance for the last three.) Three runs end in a violation, each a
place where a document, comment or test of the repository says something the code does not
do (section 6).

`HostImplementsRuntime` is the refinement: the host's `rt` under the identity
mapping satisfies `Spec`, so each stored mutation is one step of the runtime's
state machine, at any interleaving and after any crash. With it the safety
theorems of the runtime hold of what the host stores. TLC checks it on two canvases;
`HostRefinesRuntime` proves it for every canvas. `RestoreIsAtomic` is the other
refinement: the states of the disk between the first rename and the last record are
invisible to whoever opens the database. `RestoreReplacesAtomically` proves it for any number of
sidecars, restores, starts and faults.

The properties and what could break them are explained where they are defined.
Each is sensitive to the code: `PROJECT.json` names, for each, a faulty variant of
a definition (a dropped guard, a wrong bound, a missing reset) under which TLC
finds it violated. The variants stand before the definitions they vary.

**Bounds.** Canvases of four to seven nodes, at most one loop, at most two attempts and one
crash. Two attempts are needed for stale evidence and for the loop's boundary
(the last attempt is also the first repeated one); one crash falls between every two
steps of the host, and a second one starts from a state of the same kind, as
recovery drops all bindings. The runtime runs need no bound besides the canvas:
attempts are limited by the loops.

Two restores and three starts let a restore meet the evidence of an earlier one, and a
reconciliation be interrupted and repeated. Crashes and failed file
operations of a start are unlimited within the starts. One fault of a restore is the assumption of `RestoredFilesSurvive` and `RefusalsAreExplained`, which a
second failed append violates (section 6); the other safety properties of `database_restore` do not need
it. Three deliveries with two rows of
ledger reach its limit and a replay above an unsettled delivery; a fault is a disconnection, a
crash, a failed audit record or a refused write. In `agent_runs` the two runs without history
resume the same parent, or one resumes while the other starts anew, under each combination of
owners; runs without history and owners are interchangeable, and the symmetry is sound
because the run checks no liveness. With two owners, two resumes of one parent are in preparation at the
same time; for one owner the second is refused until the first is launching. The view `Seen` takes states together that differ only in what no later step and no
property reads: how a run ended that nobody can resume, the plan of a run that is over, a generation after the
launch, changes in a worktree that is gone. Two runs are as many as the global limits allow, so that those bind only with a third:
`AdmissionLimits.cfg` (`MCAgentRuns`, three runs of three owners, no disturbance, 2.6 million states) passes, and
TLC finds `RunsTypeOK` violated there when either global limit is dropped; it takes longer than a run of the project should. `SessionsAreHeld` and `NoFictionalRun` hold in full as long as no
write is refused: with one, the review of an interrupted cleanup may reactivate a worktree that
is being removed (section 6), and a record cannot be corrected.

**Deadlock** is not checked as a separate property: a run that has ended stops, and so does a
model at its bounds. What must not stop is stated by `RunEndsOrAsks`, `StartSettles`,
`ReconnectCompletes` and `NobodyWaitsForEver`. The last is an invariant: whenever a drain is
under way some step of the runtime is enabled, and each such step shortens what is left.

**Fairness** (`HostFairness`). The operation that holds the lock goes on (an
asynchronous function whose awaits return); processes end; a completion that can
be committed is, though others take the lock in between (strong: it waits in the
queue of the lock); time passes; a timer that is due fires (strong, for the same
reason). Nothing is assumed of the person: no approval, decision or poll ever has to come.
The conditions are stated on the effect of the steps on `lock`, `process`, `active`
and `wake`, which is cheaper to evaluate than the whole actions; on the line and
loop canvases TLC confirms that a holder of the lock always has a step.
`RestoreFairSpec`: system calls of a running process return; nothing is assumed of the person who
answers the dialog. `DeliveryFairSpec`: the provider reconnects, queued messages are
handled, the timer of a pending delivery fires, and another member's desktop resends its comments.

## 4. Proofs

Everything here is for every value of the constants within the named assumptions of the
modules, which TLC evaluates on each instance. A theorem named after a property states
exactly the definition a run checks. Each inductive invariant was an invariant of a TLC run of
the same module before it was proved.

### The runtime

| Theorem | Statement |
|---|---|
| `Invariance` | `Spec => []Inv` |
| `TypeCorrect` | every reachable value satisfies the persisted schema |
| `StatusCorrect` | the stored run status is the aggregate of the nodes |
| `EvidenceIsFresh` | no evidence of an earlier attempt is left |
| `LoopsAreBounded` | no loop starts more attempts than configured |
| `ConcurrencyHolds`, `KeysAreExclusive`, `DemandHolds` | concurrency limit, exclusive keys, resource limits |
| `CancellationHolds` | a cancelled run starts nothing |
| `EndedNodesStay` | a node that ended changes only by a revision or by a person's decision on an exhausted loop |
| `ApprovalsAreCurrent` | a node behind an approval starts only with one given for the current attempts |
| `GatesHold` | no node is active behind a gate that does not stand as passed |
| `GatesStand` | a gate that succeeded stands on evidence for the current attempt of the work it reviews |

`Inv` conjoins the type, the aggregate status, fresh evidence, bounded loops, concurrency and
keys. They need each other: the evidence
filters of a revision are right only if the loop's counter is the attempt of its
implementation, and each of them needs the types. Instead of one case per action
and conjunct, the proof uses a relation: `Preserves(r, q)` says that `q` is typed,
keeps the aggregate status, keeps evidence fresh, keeps loops within their
attempts, keeps a cancellation and starts no node. It is reflexive and transitive. Each operation of the
runtime has a lemma that chains the lemmas of the updates it is made of; the
longest is `QueueAttempts`, where a revision raises the attempts of the
requeued nodes and has to drop exactly the evidence about them. `NextStep` then
says that each step of `Next` is a `Preserves` step or one `startWorkflowNode`,
and the start is the only place where the reservations are at stake
(`StartWorkflowNode`, `ReadyNode`).

`DemandHolds` rests on the fact that the fold which sums the demands is a sum: it exists
for every finite set, does not depend on the order in which the elements are taken, and grows
with the set. The induction over sets is done with smallest counterexamples (`SmallestSet`), as
the library's induction rules cannot be instantiated.

`WorkflowGateProofs` uses a second relation of the same kind. `Forward(r, q, X)`: what has ended
stays, no gate succeeds, no attempt or loop changes, and no active node outside `X` ends.
Most operations are forward steps; the end of a gate, a revision and the two ways out of an
exhausted loop are not, and are followed one by one. What none of them may break is
`Respects`, whose inductive part is `gateLoops`: while a loop may ask for a revision, or waits for
one or for a person, the gate that is its review has not succeeded. Without it, a revision
could reopen a gate behind which work goes on. `GatesHold` has one hypothesis of its own: no gate is the
*implementation* of a loop. `validateWorkflow` does not exclude such a canvas, and on it
a revision does reopen a gate that has passed.

`GatesStand` says that the evaluation of a succeeded gate, computed again at any later moment, still
says `passed`. The evaluation reads a good part of the runtime: statuses, attempts, artifacts, published outputs,
assessments, check results and the approval, and the status a reviewer is seen with, which is defined by
recursion over the nodes it reviews. `Keeps(r, q, N, g)` says that from `r` to `q` nothing is lost
of the succeeded nodes in `N` and nothing changes that is recorded for gate `g`. With `N` the nodes the gate rests on
(`EvidenceNodes`: the reviewed node, the checks, the reviewer, and what these review in turn) a passed evaluation
stays passed (`PassedKept`). Two parts of it are about data of any size: a consistent view of the seen
statuses exists for every canvas (`ViewExists`, as a greatest fixed point), and two views agree on the nodes kept
(`CanvasKept`, at a node of smallest rank). Then each operation has a lemma saying for which gates it keeps what they
rest on. The inductive invariant is `Standing`: the gates stand, and where a person approved, the approved
work has succeeded; a gate runs only when the work on its review edges has succeeded; a stored assessment is of a
reviewer that succeeded. It has three hypotheses on the canvas, which TLC evaluates on the three instances of
the runtime (`GatesStandHere`). `AcyclicReviews` is part of what `validateWorkflow` accepts (`model.ts:812`). The other two
are not, and TLC finds the property violated on small canvases without them:

- `LoopsTakeTheGate`: a loop that requeues a node on which a gate rests requeues the gate. Otherwise
  a second gate's loop sends the work back after the first gate has passed.
- `ApprovalSeesTheWork`: a gate with a human approval has a check, a reviewer or a review edge, and nobody
  else assesses the work. A gate that asks only a person, and knows its work only from an edge it approves, can be approved before
  the work has run; an assessment by another reviewer after the approval changes what was approved.

### The host

| Theorem | Statement |
|---|---|
| `HostInvariance` | `HostSpec => []HostInv` |
| `HostTypeCorrect` | stored and volatile state and the lock are typed |
| `ProcessesAccountedFor` | a live process is being launched, or is that of an active node's current attempt, or was given up, asked to stop, and is never doubled |
| `ActiveNodesWatched` | an active node has a watched process, or is the gate under the lock |
| `LaunchesFindNoProcess` | a launch meets no process or handle of its node |
| `HostRefinesRuntime` | `HostSpec => HostImplementsRuntime` |
| `HostKeepsKeysExclusive` | a theorem of the runtime, carried over to what the host stores |

`HostInv` is `Inv`, `gateLoops`, the types, and six facts per node. `watched`: a
handle is for the current attempt of an active node whose binding says `running`. `owned`: a process
has a handle, or was just launched under the lock, or was asked to stop. `known`: an active node has a handle or is
the gate under the lock. `held`: what the holder of the lock relies on after an
await (the binding is still `launching` for the current attempt, and a node about to be launched has
no process). `internal`: a gate is
never prepared. `barred`: a node whose process has no handle is not launched again; its binding
is `launching` or `failed`, which the pump skips, or it has none because the run was cancelled, and then the pump does not
dispatch the node. The last case is why the runtime's `Preserves` also says that a cancellation stands: in a
cancelled run nothing is runnable (`CancelledRunIsDone`), and only what was to be dispatched before must be looked at. The two accounting properties are consequences of `watched`, `owned`, `barred` and `known`, but
they are not inductive: they say nothing of the state between a launch and its record,
which is where `held` is needed, and `held` needs that a forward step leaves active nodes and their attempts
alone (`quiet`, `ends`). The refinement is proved action by action: each action of the
host that changes `rt` is one action of the runtime whose guard follows from `HostInv`, and
the others leave `rt` alone.

### The agent runs

| Theorem | Statement |
|---|---|
| `RunsInvariant` | `RunsSpec => []RunsInv` |
| `RunsTypeCorrect`, `AdmissionHolds` | types; the limits of prepare and launch, globally and per owner |
| `OneSessionPerWorktreeAlways`, `SessionsAreAlwaysHeld` | sessions and worktrees are one to one, under the record with the authority |
| `NoRunIsFictional`, `CleanedIsAlwaysGone` | the history is true |
| `NothingOutlives` | after a stop, a deletion or a quit nothing of the owner is left |

The heart of `RunsInv` is the *holder* of a worktree, the record that has the authority and was not
continued: there is at most one (`OneHolder`), a session works only under a holder
(`RecordOK`), authority moves only from an interrupted holder, and only a holder's worktree is declared to be
going. `Private` keeps everybody away from the worktree of a run whose own operation is not
settled; `OrphanOK` says why a process that survived a crash keeps its worktree for
itself; `ControlOK` what is shut while a mutation, a cleanup or a stop goes on. The limits are counts of sets
that the actions move runs between; they are a second induction on top of `RunsInv`.

### The restore

| Theorem | Statement |
|---|---|
| `RestoreInvariance` | `RestoreSpec => []RestoreInv` |
| `RestoreTypesHold` | types of files, journals and starts |
| `PriorFilesAlwaysSurvive` | until a restore is complete the old database is intact, in place or in quarantine |
| `AtomicInvariance` | `RestoreSpec => []AtomicInv` |
| `RestoreReplacesAtomically` | `RestoreSpec => RestoreIsAtomic` |
| `OneFaultInvariance` | `RestoreSpec => []OneFaultInv` |
| `CompletedRestoreStays` | `RestoreSpec => [](faults <= 1 => RestoredFilesSurvive)` |
| `RefusalsExplained` | `RestoreSpec => [](faults <= 1 => RefusalsAreExplained)` |

When a restore fails and cannot be rolled back, the person may try another one in the same start,
and several are unfinished at once. `PriorFilesSurvive` alone is not inductive: it does not say
that the restore which is undone later knows what it has to put back. `OldOK` does: of every
file of the old database, an unfinished restore whose journal has begun bound the bytes as its prior
file, or an earlier unfinished one has them in its quarantine. The reconciliation undoes a restore only when
it is the only one left, so the second case is excluded there and the undo moves nothing away that it does not
have in quarantine as well (`UndoPreserve`). `DirsOK` says that a quarantine holds prior
files only and that nothing is in it before the first record; `PcOK` says what main
holds at each control point: the bound files while they are moved, nothing of the old database while the candidate is
installed, all bound files again before a directory is discarded. Three kinds of steps cover
most actions: a directory stays alike (`GoesOn`), a file moves between main and the last
directory (`MovesOn`), a directory is given up (`GivenUp`). No bound on the failed operations is needed.

The refinement asks for more: not only that the old files are somewhere, but that a start opens the store on a
whole database or not at all. `AtomicInv` says it of any database a start may find. Its files are
`Sound` (the old ones, none where the initialization marker says that it is missing, or a whole backup),
or a restore in use is `Stuck`: it has a journal without a terminal record, or one that does not parse.
A start opens the store only after the scan has left no stuck restore behind, so the first case is the only
one there (`SoundOK`). For the induction the same has to be said of what each restore bound as its prior files, as an undo brings
those back: they are sound, or an *earlier* restore is stuck. The reconciliation undoes a restore
only when it is alone, hence back to sound files (`BackIsSound`). `LostOK` is the same for a database that was missing, which stays missing until a
restore is complete; and `OwnOK` says that over a database in which the
application has worked no restore is undone: a directory in use then is `Sealed`, its main file differs from what
its journal says was installed, and the scan refuses to go on. With `AtomicInv` each action is a step of `AtomicReplace` or a stutter
(`AtomicSimulation`).

The last two properties are false once a second file operation of a restore has failed (section 6): a failed append whose rollback
cannot be recorded either leaves a directory in use, the person restores again in the same start, and
two journals speak about the same files. The number of faults is therefore part of what is proved, and not an
assumption on `MaxFaults`: the theorems hold of every behaviour up to its second fault, with any number of crashes,
torn appends and starts that end with a failed file operation of their own (`OpeningFails`, which leaves on disk
what a crash may leave: both are `Interrupted`). `RefusalsExplained` is about starts that end with
`unavailable`, a refusal while no file operation failed; a start that ends with `io-error` is refused for that reason,
and what it leaves does not make a later one refuse without a cause in the list. `OneFaultInv` says why one fault is not enough. One directory at most is in use (`DiskOK`),
because the fault that begins a rollback is the only one, so the rollback verifies and lets its directory go, and one before
the first record removes it at once. The files are then where the last record of that journal says (`LayoutOf`: every
prior file under its own name or in quarantine, nothing among the failed files before a rollback), so that a
later undo finds every place free, and a terminal record that can be read agrees with the files unless the restore is complete.
An append that a crash tore, or one after it that does not parse, is why all of it is said of journals that can be read
(`LaidOut`, `At`): the others are a refusal with a reason. `NewOK` and the older `OwnOK` say that over a restored database every
directory in use is `Sealed`, so that no start undoes anything. The steps fall into five kinds, each with its lemma: the
restore or undo goes on (`Continues`), the start ends (`Stops`), the dialog is offered without a directory in use (`Offers`),
the first fault begins the rollback (`Fails`), and a store that is open (`Serves`).

### The delivery of comments

| Theorem | Statement |
|---|---|
| `DeliveryInvariance` | `DeliverySpec => []DeliveryInv` |
| `DeliveryTypesHold` | types; the limits of pending deliveries and of the ledger |
| `AcknowledgedStaysDurable` | what is called acknowledged is in the server's database |
| `DeliveriesRemembered` | a running session forgets no delivery |
| `SettlementsStay` | a stored settlement is final |
| `IntentInvariance` | `DeliverySpec => [](DeliveryInv /\ IntentInv)` |
| `AcceptedIntentSurvives` | no accepted comment is lost |

`DeliveryInv` relates the session, the ledger and the settlements retained in memory
(`Consistent`, row by row in `RowOK`): a delivery that waits for its answer, or whose settlement waits for
the database, is still `sent` in the ledger; the vector it waits for covers its row; and
the running session knows every row of its own that is `sent`. The messages under way are honest (an
acknowledgement is only of what is stored), and a connection that is up belongs to a running
session. That an acknowledged delivery is durable needs all of it: the answer is matched with a
vector, the vector covers the row, and the server's store only grows. For finality, `Follows` relates two ledgers, and
each operation on the ledger has a lemma that chains it. The recovery of the ledger takes the least and the
greatest of a set of numbers, which exist by the same argument of the smallest counterexample.

`IntentInv` is the second induction, on top of the first: a comment that is neither on the server's disk nor discarded
or overtaken is in the *newest* delivery of the ledger (`LedgerKeeps`). A new delivery carries it because it extends the
recovery state exactly, a replay carries it or overtakes it, and a settlement changes no delivery. What takes effort are the steps that delete the rows:
a checkpoint asks for an acknowledged newest delivery, whose comments are stored by `DeliveryInv`, but
the one after a dismissal compares the pending value with the baseline, which may be that of the *oldest* row. Hence
the other half: such a comment is never in that baseline. That needs that no document, message or row holds an own comment
before it was written (`RoomWritten`).

### Only model-checked

- `GateStandsOnCurrentEvidence` is false on canvases outside the hypotheses of `GatesStand`.
- `RestoredFilesSurvive` and `RefusalsAreExplained` beyond the first fault are false: the first has its
  configuration in section 6.
- `LockIsReleased`, `RunEndsOrAsks`, `StartSettles`, `ReconnectCompletes` are liveness, and
  `NobodyWaitsForEver` speaks of `ENABLED`: out of the prover's reach.

## 5. What is not modelled

In the engine: plans for a part of the canvas; a reviewer of several nodes and loops
that share nodes; `dispose`, `sendInput`, `interrupt`; discards of a preparation that fail;
failures of the store other than at `node.started`, where the code handles one; the further life of a process
that could not be stopped (it stays as it is until the program ends); the
branch for a node without executor (`start` refuses such a canvas); content of
evidence, hashing and wording.

In the agent runs: read-only runs, input and interrupt, output previews, the disclosure
and its fingerprint, archived and renamed worktrees, the other services that are
paused together with the runtime. In restore: Windows, file permissions, verification of the
backup, a database of a newer schema, and what a `createStore` that fails half-way leaves in a
new file. In collaboration: publishing as an editor, awareness, tokens, rooms and
invitations, expiry of rows.

Outside them, the components with status `not_modelled` in `PROJECT.json`. Most of the
repository is user interface, schemas, IPC wrappers, platform probes and command
wrappers without a protocol of their own, so the share of its lines under a model stays small
whatever is added; the list in section 7 is what has control worth modelling.

## 6. Disagreements found

Three are runs of the project:

1. **A success that crosses a cancellation never commits** (`cancel_race`). The life
   cycle has no step from `cancelling` to `succeeded`; the completion is retried
   for ever and the run stays open until the next restart (`service.ts:1500`).
2. **A restored database is refused once it was used** (`completed_reopens`). A completed
   restore leaves its journal with the digests of the installed files; the same process works
   in the database, and the next start finds that they differ and reports the database
   as unavailable, for good (`interrupted-restore.ts:41`). PRIVACY.md says that a later startup
   verifies the terminal state and removes the evidence.
3. **An unsettled comment is checkpointed away** (`unresolved_intent`). A replay of an
   older rejected comment becomes the pending intent in place of a newer delivery that is
   unsettled; after the replay is acknowledged a checkpoint deletes the ledger (`ipc.ts:1516`).
   The store says 'Unresolved collaboration intent cannot be checkpointed away.'

Seven more have a configuration of their own beside the runs, each with one property that
TLC finds violated:

| Configuration, module | Property | What happens |
|---|---|---|
| `CancelRequeue`, `MCHostLoop` | `CancelledRunHasNoQueuedWork` | The pump queues due revisions without asking whether the run was cancelled (`review-gate.ts:100`). |
| `LaunchOverlap`, `MCHostEscape` | `LiveProcessesHoldKeysOnce` | Approving a preparation spawns the process and then asks whether the node may run: two processes share an exclusive key for a moment (`service.ts:338`). |
| `EscapeLaunch`, `MCHostEscape` | `CancelledRunLaunchesNothing` | Giving up on a loop, unlike `cancel`, leaves prepared launches, which can still be approved and spawned (`service.ts:752`). |
| `DeferredBlock`, `MCHostLoop` | `RunEndsOrAsks` | When the implementation of a loop fails, the loop stays `review-required` and what is behind its gate is never settled (`scheduling.ts:120`). |
| `RetryAfterFailedRollback`, `MCRestore` | `RestoredFilesSurvive` | With two failed appends, a rollback that could not be recorded is undone by a later start although the next restore of the same start succeeded in between; `interrupted-restore.ts:131` says that an incomplete or contradictory operation fails closed. |
| `SilentDelivery`, `MCCollaboration` | `BoundedTimerSettles` | A delivery whose rejection could not be audited when its timer fired has no timer any more (`client.ts:949`); the comment at `client.ts:878` says the bounded timer will reject it. |
| `WorktreeReactivated`, `MCAgentRuns` | `ReactivatedIsIntact` | The review of an interrupted cleanup reactivates a worktree without the gate, while the runtime is removing it (`worktree-cleanup-service.ts:155`); IMPLEMENTATION_CHECKLIST.md:775 says that only an intact one is. |

Beside these, where no document says otherwise: a process that was launched and then refused, or whose start could
not be stored, and whose stop fails, runs on without a handle or a node that shows it until the program ends
(`service.ts:464`, `:518`). After a start that could not be stored the operation reports it (line 565); after a
refused start it does not, as recording the refusal throws before line 484. `EveryProcessIsAccountedFor` says what is left to rely on: it was asked to stop, and nothing is launched beside it.

## 7. Plan

Done: the model, runtime and host of the workflow engine; agent
runs with worktree cleanup; database restore against its abstract specification; delivery of
comments; the proofs of section 4.

Next, in this order:

1. `ExecutionStore`: event log, expected revision, replay by event id
   (`storage/workflow/executions.ts`), and the host on top of a store that may fail or
   answer late.
2. Publishing as an editor with the three-way merge, on the same ledger.
3. `Approvals`: a disclosed plan is launched once, as it was disclosed.
4. Process life cycles (terminal, preview, check) and the readiness of a delivery.
5. An abstract `RunLifecycle` (attempts, statuses and the person's decisions, without
   evidence) that `WorkflowRuntime` implements.
6. Runs for the hazards without a property: a failed launch inside a loop, a check
   without a result, a revision queued while a sibling is active.
