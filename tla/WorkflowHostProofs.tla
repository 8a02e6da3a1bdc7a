------------------------- MODULE WorkflowHostProofs -------------------------
(***************************************************************************)
(* The host implements the runtime, and no process of it is ever lost from *)
(* sight: proofs about WorkflowHost.                                       *)
(*                                                                         *)
(* First what each step of the runtime does to the nodes that are active;  *)
(* then the inductive invariant of the host, one conjunct per node; then   *)
(* each action of the host, as a step of the runtime and as a step that    *)
(* keeps the invariant.                                                    *)
(***************************************************************************)
EXTENDS WorkflowHost, WorkflowGateProofs

-----------------------------------------------------------------------------
(* What a step of the runtime does to active nodes *)

\* The same nodes are active, in the same attempts, but for node x, which is not.
ends(r, q, x) ==
  \A n \in Nodes : /\ q.status[n] \in ActiveStatus <=> r.status[n] \in ActiveStatus /\ n # x
                   /\ r.status[n] \in ActiveStatus => q.attempt[n] = r.attempt[n]

\* The same nodes are active, in the same attempts.
quiet(r, q) ==
  \A n \in Nodes : /\ q.status[n] \in ActiveStatus <=> r.status[n] \in ActiveStatus
                   /\ r.status[n] \in ActiveStatus => q.attempt[n] = r.attempt[n]

\* A forward step that starts nothing and ends nothing is quiet.
LEMMA ForwardIsQuiet ==
  ASSUME NEW r \in Runtimes, NEW q, Forward(r, q, {}), Preserves(r, q)
  PROVE  quiet(r, q)
  BY DEF Forward, Preserves, startsNothing, quiet

\* A completed node is not active any more, and the other active nodes still are.
LEMMA CompletedIsOver ==
  ASSUME NEW r \in Runtimes, NEW n \in Nodes, NEW s \in TerminalStatus
  PROVE  /\ completeWorkflowNode(r, n, s).status[n] \notin ActiveStatus
         /\ \A m \in Nodes \ {n} : r.status[m] \in ActiveStatus =>
              completeWorkflowNode(r, n, s).status[m] \in ActiveStatus
<1>1. CASE s = "succeeded" /\ DirectReviews(n) # {}
  <2> DEFINE q == setNodeRun(r, n, "waiting-for-approval", "none")
  <2>1. completeWorkflowNode(r, n, s) = q
    BY <1>1 DEF completeWorkflowNode
  <2>2. "waiting-for-approval" \in RunStatus /\ "none" \in FailureCode
    BY DEF RunStatus, FailureCode
  <2>3. q.status = [r.status EXCEPT ![n] = "waiting-for-approval"]
    BY <2>2, SetNodeRun
  <2> HIDE DEF q
  <2>4. QED
    BY <2>1, <2>3 DEF Runtimes, ActiveStatus
<1>2. CASE ~(s = "succeeded" /\ DirectReviews(n) # {})
  <2> DEFINE code == IF s \in {"failed", "lost"} THEN "other" ELSE "none"
             revised == {l \in r.activeLoops : s = "succeeded" /\ LoopOf[l].implementation = n}
             p == setNodeRun(r, n, s, code)
             q == [p EXCEPT !.activeLoops = p.activeLoops \ revised]
  <2>1. completeWorkflowNode(r, n, s) = settleBlockedWorkflowNodes(q)
    BY <1>2 DEF completeWorkflowNode
  <2>2. s \in RunStatus /\ code \in FailureCode
    BY DEF RunStatus, FailureCode, TerminalStatus
  <2> HIDE DEF code
  <2>3. p \in Runtimes /\ p.status = [r.status EXCEPT ![n] = s]
    BY <2>2, SetNodeRun
  <2>4. p.activeLoops \ revised \in SUBSET Loops
    BY <2>3 DEF Runtimes
  <2> HIDE DEF p, revised
  <2>5. q \in Runtimes /\ q.status = p.status
    BY <2>3, <2>4 DEF Runtimes
  <2> HIDE DEF q
  <2>6. Forward(q, settleBlockedWorkflowNodes(q), {})
    BY <2>5, ForwardSettle
  <2>7. q.status[n] = s /\ \A m \in Nodes \ {n} : q.status[m] = r.status[m]
    BY <2>3, <2>5 DEF Runtimes
  <2>8. settleBlockedWorkflowNodes(q).status[n] = s
    BY <2>6, <2>7 DEF Forward, isTerminalRunStatus
  <2>9. QED
    BY <2>1, <2>6, <2>7, <2>8 DEF Forward, TerminalStatus, ActiveStatus
<1>3. QED
  BY <1>1, <1>2

\* The completion of an agent, a task or a test ends that node and no other.
LEMMA CompletionEnds ==
  ASSUME NEW r \in Runtimes, NEW n \in Nodes, NEW result \in ExecutorResults(n),
         r.status[n] \in ActiveStatus, n \notin Gates
  PROVE  ends(r, recordCompletion(r, n, result), n)
<1> DEFINE c == completeWorkflowNode(r, n, result.status)
           p == publishCompletionOutputs(c, n, result.evidence)
           q == recordCompletion(r, n, result)
<1>1. result.status \in TerminalStatus /\ "failed" \in TerminalStatus
  BY DEF ExecutorResults, TerminalStatus
<1>2. /\ c \in Runtimes /\ c.status[n] \notin ActiveStatus
      /\ completeWorkflowNode(r, n, "failed").status[n] \notin ActiveStatus
  BY <1>1, CompleteWorkflowNode, CompletedIsOver DEF Preserves
<1>3. q = recordCompletionEvidence(r, c, n, result)
  BY DEF recordCompletion
<1>4. Forward(r, q, {n}) /\ Preserves(r, q)
  BY ForwardCompletion, RecordCompletion
<1> HIDE DEF c, q
<1>5. startsNothing(c, recordAgentCompletion(c, n, result))
  BY <1>2, RecordAgentCompletion DEF Preserves
<1>6. n \in Tests => startsNothing(c, recordTestCompletion(c, n, result))
  <2>1. Preserves(c, p)
    BY <1>2, PublishOutputs
  <2>2. recordTestCompletion(c, n, result) = recordExactCheckForGates(p, n, result.status)
    BY DEF recordTestCompletion
  <2> HIDE DEF p
  <2>3. n \in Tests => Preserves(p, recordExactCheckForGates(p, n, result.status))
    BY <1>1, <2>1, RecordExactCheck DEF Preserves
  <2>4. QED
    BY <2>1, <2>2, <2>3, PreservesTrans DEF Preserves
<1>7. q.status[n] \notin ActiveStatus
  BY <1>2, <1>3, <1>5, <1>6 DEF recordCompletionEvidence, startsNothing
<1>8. ends(r, q, n)
  BY <1>4, <1>7 DEF Forward, Preserves, startsNothing, ends
<1>9. QED
  BY <1>8 DEF q

\* The host's own completion of a gate ends the gate and no other node.
LEMMA GateCompletionEnds ==
  ASSUME NEW r \in Runtimes, NEW g \in Gates, r.status[g] = "running"
  PROVE  ends(r, completeInternalReviewGate(r, g), g)
<1> DEFINE open == OpenLoops(r, g)
           l == CHOOSE k \in open : TRUE
           passed == completeWorkflowNode(r, g, "succeeded")
           routed == IF /\ reviewGateEvaluation(r, g) = "failed" /\ Cardinality(open) = 1
                        /\ canApplyRevisionReview(r, l)
                     THEN applyRevisionReview(r, l) ELSE r
           q == completeInternalReviewGate(r, g)
<1>1. g \in Nodes /\ "succeeded" \in TerminalStatus /\ "failed" \in TerminalStatus
  BY DEF Gates, TerminalStatus
<1>2. Cardinality(open) = 1 => l \in Loops
  <2>1. open \subseteq Loops
    BY DEF OpenLoops
  <2> HIDE DEF open
  <2>2. Cardinality(open) = 1 => open # {}
    BY FS_EmptySet
  <2>3. QED
    BY <2>1, <2>2
<1>3. \/ q = passed
      \/ Cardinality(open) = 1 /\ q = closeLoopAfter(r, passed, g, l)
      \/ q = completeWorkflowNode(routed, g, "failed")
  BY DEF completeInternalReviewGate
<1> HIDE DEF open, l
<1>4. routed = r \/ (l \in Loops /\ routed = applyRevisionReview(r, l))
  BY <1>2
<1>5. ASSUME NEW p \in Runtimes, p.status = r.status, p.attempt = r.attempt,
             NEW s \in TerminalStatus
      PROVE  /\ completeWorkflowNode(p, g, s) \in Runtimes
             /\ ends(r, completeWorkflowNode(p, g, s), g)
  <2> DEFINE c == completeWorkflowNode(p, g, s)
  <2>1. p.status[g] = "running"
    BY <1>5
  <2>2. Preserves(p, c) /\ c.status[g] \notin ActiveStatus
    BY <1>1, <1>5, CompleteWorkflowNode, CompletedIsOver
  <2>3. \A n \in Nodes \ {g} : p.status[n] \in ActiveStatus => c.status[n] \in ActiveStatus
    BY <1>1, <1>5, CompletedIsOver
  <2>4. c.attempt = p.attempt
    BY <1>5, <2>1, GateCompleted DEF sameRecords
  <2> HIDE DEF c
  <2>5. c \in Runtimes /\ ends(r, c, g)
    BY <1>1, <1>5, <2>2, <2>3, <2>4 DEF Preserves, startsNothing, ends
  <2>6. QED
    BY <2>5 DEF c
<1> HIDE DEF passed, routed, q
<1>6. passed \in Runtimes /\ ends(r, passed, g) /\ ends(r, completeWorkflowNode(r, g, "failed"), g)
  BY <1>1, <1>5 DEF passed
<1>7. CASE q = passed
  BY <1>6, <1>7 DEF q
<1>8. CASE Cardinality(open) = 1 /\ q = closeLoopAfter(r, passed, g, l)
  <2>1. applyRevisionReview(passed, l).status = passed.status
        /\ applyRevisionReview(passed, l).attempt = passed.attempt
    BY <1>2, <1>6, <1>8, ReviewApplied
  <2>2. ends(r, applyRevisionReview(passed, l), g)
    BY <1>6, <2>1 DEF ends
  <2>3. QED
    BY <1>6, <1>8, <2>2 DEF closeLoopAfter, q
<1>9. CASE q = completeWorkflowNode(routed, g, "failed")
  <2>1. routed \in Runtimes /\ routed.status = r.status /\ routed.attempt = r.attempt
    BY <1>4, ReviewApplied
  <2>2. QED
    BY <1>1, <1>5, <1>9, <2>1 DEF q
<1>10. QED
  BY <1>3, <1>7, <1>8, <1>9

\* A restart ends every active node.
LEMMA RecoveryEndsAll ==
  ASSUME NEW r \in Runtimes
  PROVE  \A n \in Nodes : recoverWorkflowExecution(r).status[n] \notin ActiveStatus
<1> DEFINE st == [n \in Nodes |-> IF n \in ActiveNodes(r) THEN "lost" ELSE r.status[n]]
           f == [n \in Nodes |-> IF n \in ActiveNodes(r) THEN "other" ELSE r.failureCode[n]]
           x == replaceRunState(r, st)
           p == [x EXCEPT !.failureCode = f]
           q == [p EXCEPT !.activeLoops = {}]
<1>1. st \in [Nodes -> RunStatus] /\ f \in [Nodes -> FailureCode]
  BY DEF Runtimes, RunStatus, FailureCode
<1>2. \A n \in Nodes : st[n] \notin ActiveStatus
  BY DEF ActiveNodes, ActiveStatus
<1> HIDE DEF st
<1>3. x \in Runtimes /\ x.status = st /\ x.failureCode = r.failureCode
  BY <1>1, ReplaceRunState
<1>4. recoverWorkflowExecution(r) = settleBlockedWorkflowNodes(q)
  BY <1>3 DEF recoverWorkflowExecution, st
<1> HIDE DEF f, x
<1>5. p \in Runtimes /\ p.status = st
  BY <1>1, <1>3, SetFailureCode
<1> HIDE DEF p
<1>6. q \in Runtimes /\ q.status = st
  BY <1>5 DEF Runtimes
<1> HIDE DEF q
<1>7. startsNothing(q, settleBlockedWorkflowNodes(q))
  BY <1>6, Settle DEF Preserves
<1>8. QED
  BY <1>2, <1>4, <1>6, <1>7 DEF startsNothing

\* A run that has ended has no active node.
LEMMA EndedRunIsQuiet ==
  ASSUME NEW r \in Runtimes, Aggregated(r), isTerminalRunStatus(r.runStatus)
  PROVE  \A n \in Nodes : r.status[n] \notin ActiveStatus
<1>1. DOMAIN r.status = Nodes
  BY DEF Runtimes
<1>2. aggregateWorkflowStatus(r.status) \in TerminalStatus
  BY DEF Aggregated, isTerminalRunStatus
<1> DEFINE st == r.status
<1>3. DOMAIN st = Nodes /\ aggregateWorkflowStatus(st) \in TerminalStatus
  BY <1>1, <1>2
<1> HIDE DEF st
<1>4. \A n \in Nodes : st[n] # "cancelling" /\ st[n] # "running"
  BY <1>3 DEF aggregateWorkflowStatus, TerminalStatus
<1>5. QED
  BY <1>4 DEF st, ActiveStatus

\* A revision requeues nodes that have ended.
LEMMA RevisionsAreQuiet ==
  ASSUME NEW r \in Runtimes, canQueueEligibleRevisionAttempts(r)
  PROVE  quiet(r, queueEligibleRevisionAttempts(r))
<1> DEFINE q == queueEligibleRevisionAttempts(r)
           again == AttemptNodes(DueLoops(r))
<1>1. /\ q.status = [n \in Nodes |-> IF n \in again THEN "queued" ELSE r.status[n]]
      /\ q.attempt = [n \in Nodes |-> IF n \in again THEN r.attempt[n] + 1 ELSE r.attempt[n]]
  BY AttemptsQueued
<1>2. \A n \in again : isTerminalRunStatus(r.status[n])
  BY DEF canQueueEligibleRevisionAttempts
<1> HIDE DEF q, again
<1>3. \A n \in again : r.status[n] \notin ActiveStatus
  BY <1>2 DEF isTerminalRunStatus, TerminalStatus, ActiveStatus
<1>4. quiet(r, q)
  BY <1>1, <1>3 DEF quiet, ActiveStatus
<1>5. QED
  BY <1>4 DEF q

\* Giving up asks running nodes to stop; they stay active until they have.
LEMMA GivingUpIsQuiet ==
  ASSUME NEW r \in Runtimes, NEW l \in Loops
  PROVE  quiet(r, cancelRevisionEscape(r, l))
<1> DEFINE p == requestWorkflowCancellation(r)
           st == [n \in Nodes |-> IF p.status[n] \in {"failed", "lost"} THEN "cancelled"
                                  ELSE p.status[n]]
           x == replaceRunState(p, st)
           L == [x.loop EXCEPT ![l] = loopHumanAborted(x.loop[l])]
           A == x.activeLoops \ {l}
           q == [x EXCEPT !.loop = L, !.activeLoops = A, !.cancellationRequested = TRUE]
<1>1. Forward(r, p, {}) /\ Preserves(r, p)
  BY ForwardRequestCancellation, RequestCancellation
<1>2. cancelRevisionEscape(r, l) = q
  BY DEF cancelRevisionEscape
<1> HIDE DEF p
<1>3. p \in Runtimes
  BY <1>1 DEF Forward
<1>4. st \in [Nodes -> RunStatus]
  BY <1>3 DEF Runtimes, RunStatus
<1>5. \A n \in Nodes : st[n] \in ActiveStatus <=> p.status[n] \in ActiveStatus
  BY DEF ActiveStatus
<1> HIDE DEF st
<1>6. x \in Runtimes /\ x.status = st /\ sameRecords(p, x)
  BY <1>3, <1>4, ReplaceRunState
<1> HIDE DEF x, L, A
<1>7. q.status = st /\ q.attempt = x.attempt
  BY <1>6 DEF Runtimes
<1> HIDE DEF q
<1>8. quiet(r, p)
  BY <1>1, ForwardIsQuiet
<1>9. quiet(r, q)
  BY <1>5, <1>6, <1>7, <1>8 DEF quiet, sameRecords
<1>10. QED
  BY <1>2, <1>9

\* Accepting the work of an exhausted loop touches a review that has ended.
LEMMA AcceptingIsQuiet ==
  ASSUME NEW r \in Runtimes, NEW l \in Loops, gateLoops(r), canAcceptRevisionEscape(r, l)
  PROVE  quiet(r, acceptRevisionEscape(r, l))
<1> DEFINE review == LoopOf[l].review
           p == IF review \in Gates
                THEN IF r.status[review] \in ActiveStatus
                     THEN setNodeRun(r, review, "failed", "other") ELSE r
                ELSE setNodeRun(r, review, "succeeded", "none")
           L == [p.loop EXCEPT ![l] = loopStopConditionMet(p.loop[l], "human-accepted")]
           A == p.activeLoops \ {l}
           x == [p EXCEPT !.loop = L, !.activeLoops = A]
           q == settleBlockedWorkflowNodes(x)
<1>1. acceptRevisionEscape(r, l) = q
  BY DEF acceptRevisionEscape
<1>2. review \in Nodes
  BY LoopTypes
<1>3. r.status[review] \in TerminalStatus
  BY <1>2 DEF canAcceptRevisionEscape, canResolveRevisionEscape, gateLoops, TerminalStatus
<1>4. p \in Runtimes /\ p.attempt = r.attempt /\ quiet(r, p)
  <2>1. CASE review \in Gates
    BY <1>3, <2>1 DEF quiet, TerminalStatus, ActiveStatus
  <2>2. CASE review \notin Gates
    <3>1. "succeeded" \in RunStatus /\ "none" \in FailureCode
      BY DEF RunStatus, FailureCode
    <3>2. p \in Runtimes /\ p.status = [r.status EXCEPT ![review] = "succeeded"] /\ sameRecords(r, p)
      BY <1>2, <2>2, <3>1, SetNodeRun
    <3> HIDE DEF p
    <3>3. QED
      BY <1>2, <1>3, <3>2 DEF sameRecords, Runtimes, quiet, TerminalStatus, ActiveStatus
  <2>3. QED
    BY <2>1, <2>2
<1> HIDE DEF p
<1>5. loopStopConditionMet(p.loop[l], "human-accepted") \in LoopStates
  BY <1>4, LoopTypes, LoopSteps DEF StopCondition
<1>6. L \in [Loops -> LoopStates] /\ A \in SUBSET Loops
  BY <1>4, <1>5 DEF Runtimes
<1> HIDE DEF L, A
<1>7. x \in Runtimes /\ x.status = p.status /\ x.attempt = p.attempt
  BY <1>4, <1>6 DEF Runtimes
<1> HIDE DEF x
<1>8. quiet(x, q)
  BY <1>7, ForwardSettle, Settle, ForwardIsQuiet
<1> HIDE DEF q
<1>9. quiet(r, q)
  BY <1>4, <1>7, <1>8 DEF quiet
<1>10. QED
  BY <1>1, <1>9

\* The end of a back-off touches its loop only.
LEMMA BackoffTouchesLoop ==
  ASSUME rt \in Runtimes, NEW l \in Loops, BackoffElapses(l)
  PROVE  rt'.status = rt.status /\ rt'.attempt = rt.attempt
<1> DEFINE L == [rt.loop EXCEPT ![l] = [rt.loop[l] EXCEPT !.backoff = FALSE]]
<1>1. rt' = [rt EXCEPT !.loop = L]
  BY DEF BackoffElapses, Runtimes
<1> HIDE DEF L
<1>2. QED
  BY <1>1 DEF Runtimes

\* The steps of the runtime that neither start nor end a process.
QuietStep ==
  \/ ReconcileEvidence \/ UpdateSchedule \/ QueueRevisions \/ CancelExecution
  \/ \E n \in Nodes : FailNodeBeforeLaunch(n)
  \/ \E t \in ApprovalTargets : ApproveHumanDecision(t)
  \/ \E e \in HumanReviewEdges, d \in {"approved", "changes-requested"} : RecordHumanReview(e, d)
  \/ \E l \in Loops : CancelEscape(l) \/ AcceptEscape(l) \/ BackoffElapses(l)

\* They leave the active nodes and their attempts alone.
LEMMA QuietSteps ==
  ASSUME TypeOK, gateLoops(rt), QuietStep
  PROVE  quiet(rt, rt')
<1>1. rt \in Runtimes
  BY DEF TypeOK
<1>2. ASSUME Forward(rt, rt', {}), Preserves(rt, rt') PROVE quiet(rt, rt')
  BY <1>1, <1>2, ForwardIsQuiet
<1>3. CASE ReconcileEvidence
  BY <1>1, <1>2, <1>3, ForwardReconcile, Reconcile DEF ReconcileEvidence
<1>4. CASE UpdateSchedule
  <2> DEFINE p == settleBlockedWorkflowNodes(rt)
  <2>1. Forward(rt, p, {}) /\ Preserves(rt, p)
    BY <1>1, ForwardSettle, Settle
  <2>2. rt' = markWaitingForApprovals(p)
    BY <1>4 DEF UpdateSchedule
  <2> HIDE DEF p
  <2>3. Forward(p, markWaitingForApprovals(p), {}) /\ Preserves(p, markWaitingForApprovals(p))
    BY <2>1, ForwardMarkWaiting, MarkWaiting DEF Forward
  <2>4. QED
    BY <1>2, <2>1, <2>2, <2>3, ForwardTrans, PreservesTrans
<1>5. CASE QueueRevisions
  BY <1>1, <1>5, RevisionsAreQuiet DEF QueueRevisions
<1>6. CASE CancelExecution
  BY <1>1, <1>2, <1>6, ForwardCancelExecution, CancelWorkflowExecution DEF CancelExecution
<1>7. ASSUME NEW n \in Nodes, FailNodeBeforeLaunch(n) PROVE quiet(rt, rt')
  BY <1>1, <1>2, <1>7, ForwardFailBeforeLaunch, FailBeforeLaunch
  DEF FailNodeBeforeLaunch, canFailWorkflowNodeBeforeLaunch
<1>8. ASSUME NEW t \in ApprovalTargets, ApproveHumanDecision(t) PROVE quiet(rt, rt')
  BY <1>1, <1>2, <1>8, ForwardApprove, ApproveDecision DEF ApproveHumanDecision
<1>9. ASSUME NEW e \in HumanReviewEdges, NEW d \in {"approved", "changes-requested"},
             RecordHumanReview(e, d)
      PROVE  quiet(rt, rt')
  <2> DEFINE p == recordWorkflowHumanReviewDecision(rt, e, d)
  <2>1. Forward(rt, p, {}) /\ Preserves(rt, p)
    BY <1>1, <1>9, ForwardDecision, RecordDecision
    DEF RecordHumanReview, canRecordWorkflowHumanReviewDecision
  <2>2. rt' \in routeHumanReview(p, e)
    BY <1>9 DEF RecordHumanReview
  <2> HIDE DEF p
  <2>3. p \in Runtimes /\ quiet(rt, p)
    BY <1>1, <2>1, ForwardIsQuiet DEF Forward
  <2>4. rt' = p \/ \E l \in Loops : rt' = applyRevisionReview(p, l)
    BY <2>2 DEF routeHumanReview
  <2>5. rt'.status = p.status /\ rt'.attempt = p.attempt
    BY <2>3, <2>4, ReviewApplied
  <2>6. QED
    BY <2>3, <2>5 DEF quiet
<1>10. ASSUME NEW l \in Loops, CancelEscape(l) PROVE quiet(rt, rt')
  BY <1>1, <1>10, GivingUpIsQuiet DEF CancelEscape
<1>11. ASSUME NEW l \in Loops, AcceptEscape(l) PROVE quiet(rt, rt')
  BY <1>1, <1>11, AcceptingIsQuiet DEF AcceptEscape
<1>12. ASSUME NEW l \in Loops, BackoffElapses(l) PROVE quiet(rt, rt')
  BY <1>1, <1>12, BackoffTouchesLoop DEF quiet
<1>13. QED
  BY <1>3, <1>4, <1>5, <1>6, <1>7, <1>8, <1>9, <1>10, <1>11, <1>12 DEF QuietStep

-----------------------------------------------------------------------------
(* The invariant of the host *)

Positions == {"idle", "reconcile", "revise", "schedule", "dispatch", "gate", "launch",
              "launched", "down"}

Reports == [status : {"succeeded", "failed", "cancelled", "lost"},
            evidence : {"none", "plain", "full"}, verdict : {"approved", "changes-requested"}]

hostTypes ==
  /\ binding \in [Nodes -> [phase : Phases, attempt : Nat, expired : BOOLEAN]]
  /\ prepared \in [Nodes -> Nat] /\ active \in [Nodes -> Nat]
  /\ wake \in BOOLEAN /\ crashes \in 0..MaxCrashes
  /\ process \in [Nodes -> [attempt : Nat, alive : BOOLEAN, stopAsked : BOOLEAN,
                            result : Reports]]
  /\ \A n \in Nodes : process[n].result \in ExecutorResults(n)
  /\ lock \in [at : Positions, node : Nodes \cup {NoNode}, todo : SUBSET Nodes,
               fresh : SUBSET Nodes, deferred : SUBSET Nodes, progressed : BOOLEAN]

\* A handle is watched for the process of the current attempt of an active node,
\* and the node's binding says so.
watched(n) ==
  active[n] # 0 =>
    /\ lock.at # "down" /\ n \notin Gates /\ rt.status[n] \in ActiveStatus
    /\ active[n] = rt.attempt[n] /\ process[n].attempt = rt.attempt[n]
    /\ binding[n] = Bound("running", rt.attempt[n])

\* A process has a handle, or the holder of the lock has just launched it, or it was
\* asked to stop when its launch was given up.
owned(n) ==
  process[n] # NoProcess =>
    \/ active[n] # 0
    \/ lock.at = "launched" /\ lock.node = n
    \/ process[n].stopAsked /\ lock.at # "down" /\ n \notin Gates

\* While the program runs an active node has a handle, or is the gate under the lock.
known(n) ==
  lock.at # "down" /\ rt.status[n] \in ActiveStatus =>
    IF n \in Gates THEN lock.at = "gate" /\ lock.node = n ELSE active[n] # 0

\* What the holder of the lock relies on from one of its steps to the next.
held(n) ==
  lock.node = n =>
    /\ lock.at = "gate" => n \in Gates /\ rt.status[n] = "running"
    /\ lock.at \in {"launch", "launched"} =>
         n \notin Gates /\ binding[n] = Bound("launching", rt.attempt[n])
    /\ lock.at = "launch" => process[n] = NoProcess
    /\ lock.at = "launched" => process[n].attempt = rt.attempt[n]

\* The host never prepares a gate: it runs it itself.
internal(n) == n \in Gates => binding[n].phase \in {"none", "running"}

nodeInv(n) == watched(n) /\ owned(n) /\ known(n) /\ held(n) /\ internal(n)

\* A node whose process has no handle is not launched again: its binding says that a
\* launch is under way or failed, or the run was cancelled and the pump will not
\* dispatch the node.
barred(n) ==
  process[n] # NoProcess /\ active[n] = 0 =>
    \/ binding[n].phase \in {"launching", "failed"}
    \/ binding[n].phase = "none" /\ rt.cancellationRequested /\ n \notin lock.todo

\* The inductive invariant: the runtime's own, the types of the host's state, and
\* for each node the agreement of its run, binding, process and handle with the
\* position of the operation that holds the lock.
HostInv ==
  /\ Inv /\ gateLoops(rt) /\ hostTypes
  /\ lock.at \in {"gate", "launch", "launched"} => lock.node \in Nodes
  /\ lock.at = "idle" => lock.todo = {}
  /\ \A n \in Nodes : nodeInv(n) /\ barred(n)

\* NoProcess is a process record, and reports what any executor may report.
LEMMA NoProcessType ==
  /\ NoProcess \in [attempt : Nat, alive : BOOLEAN, stopAsked : BOOLEAN, result : Reports]
  /\ \A n \in Nodes : NoProcess.result \in ExecutorResults(n)
  /\ NoProcess.attempt = 0 /\ ~NoProcess.alive
  BY DEF NoProcess, Reports, ExecutorResults

\* Between two operations, and while one pumps or launches, no gate is running.
LEMMA NoGateRuns ==
  ASSUME HostInv, lock.at \notin {"gate", "down"}
  PROVE  NoGateRunning
  BY DEF HostInv, nodeInv, known, NoGateRunning, Gates, ActiveStatus

-----------------------------------------------------------------------------
(* How steps keep the invariant of a node *)

\* Whoever was asked to stop stays asked, and so is the process just launched, if the
\* step does not record it.
stopsAsked(n) ==
  process[n].stopAsked \/ (lock.at = "launched" /\ lock.node = n) => process'[n].stopAsked

\* Steps that leave the active nodes and their handles alone, end with the lock in
\* a position that relies on nothing, and change no running binding.
LEMMA CalmStep ==
  ASSUME HostInv, quiet(rt, rt'), lock.at \notin {"gate", "down"},
         lock'.at \notin {"gate", "launch", "launched", "down"}, active' = active,
         \A n \in Nodes :
           /\ process'[n].attempt = process[n].attempt \/ (process'[n] = NoProcess /\ active[n] = 0)
           /\ process'[n] # NoProcess => process[n] # NoProcess /\ stopsAsked(n)
           /\ binding[n].phase = "running" => binding'[n] = binding[n]
           /\ n \in Gates => binding'[n].phase \in {"none", "running"}
  PROVE  \A n \in Nodes : nodeInv(n)'
<1> SUFFICES ASSUME NEW n \in Nodes PROVE nodeInv(n)'
  OBVIOUS
<1>1. /\ rt'.status[n] \in ActiveStatus <=> rt.status[n] \in ActiveStatus
      /\ rt.status[n] \in ActiveStatus => rt'.attempt[n] = rt.attempt[n]
  BY DEF quiet
<1>2. watched(n) /\ owned(n) /\ known(n) /\ held(n)
  BY DEF HostInv, nodeInv
<1>3. watched(n)'
  <2>1. CASE active[n] = 0
    BY <2>1 DEF watched
  <2>2. CASE active[n] # 0
    <3>1. /\ n \notin Gates /\ rt.status[n] \in ActiveStatus
          /\ active[n] = rt.attempt[n] /\ process[n].attempt = rt.attempt[n]
          /\ binding[n] = Bound("running", rt.attempt[n])
      BY <1>2, <2>2 DEF watched
    <3>2. binding'[n] = binding[n] /\ process'[n].attempt = process[n].attempt
      BY <2>2, <3>1 DEF Bound
    <3>3. QED
      BY <1>1, <3>1, <3>2 DEF watched
  <2>3. QED
    BY <2>1, <2>2
<1>4. owned(n)'
  <2>1. lock.at = "launched" /\ lock.node = n => n \notin Gates
    BY <1>2 DEF held
  <2>2. QED
    BY <1>2, <2>1 DEF owned, stopsAsked
<1>5. known(n)'
  BY <1>1, <1>2 DEF known
<1>6. held(n)' /\ internal(n)'
  BY DEF held, internal
<1>7. QED
  BY <1>3, <1>4, <1>5, <1>6 DEF nodeInv

\* Steps beside the holder of the lock: nobody's attempt, status or handle moves.
LEMMA AsideStep ==
  ASSUME HostInv, rt'.status = rt.status, rt'.attempt = rt.attempt, lock' = lock,
         active' = active,
         \A n \in Nodes :
           /\ process'[n].attempt = process[n].attempt
           /\ process'[n] # NoProcess => process[n] # NoProcess
           /\ process[n].stopAsked => process'[n].stopAsked
           /\ binding'[n] # binding[n] => binding[n].phase = "waiting-approval" /\ n \notin Gates
  PROVE  \A n \in Nodes : nodeInv(n)'
<1> SUFFICES ASSUME NEW n \in Nodes PROVE nodeInv(n)'
  OBVIOUS
<1>1. watched(n) /\ owned(n) /\ known(n) /\ held(n) /\ internal(n)
  BY DEF HostInv, nodeInv
<1>2. watched(n)' /\ held(n)'
  BY <1>1 DEF watched, held, Bound
<1>3. owned(n)' /\ known(n)' /\ internal(n)'
  BY <1>1 DEF owned, known, internal
<1>4. QED
  BY <1>2, <1>3 DEF nodeInv

\* A launch is claimed for a node without a process, whose binding is not running.
LEMMA ClaimStep ==
  ASSUME HostInv, NEW n \in Nodes \ Gates, UNCHANGED <<rt, process, active>>,
         lock.at \notin {"gate", "launched", "down"}, lock'.at = "launch", lock'.node = n,
         binding[n].phase # "running", process[n] = NoProcess,
         binding' = [binding EXCEPT ![n] = Bound("launching", rt.attempt[n])]
  PROVE  \A m \in Nodes : nodeInv(m)'
<1> SUFFICES ASSUME NEW m \in Nodes PROVE nodeInv(m)'
  OBVIOUS
<1>1. watched(m) /\ owned(m) /\ known(m) /\ internal(m)
  BY DEF HostInv, nodeInv
<1>2. binding'[m] = IF m = n THEN Bound("launching", rt.attempt[n]) ELSE binding[m]
  BY DEF HostInv, hostTypes
<1>3. active[n] = 0
  <2>1. watched(n)
    BY DEF HostInv, nodeInv
  <2>2. QED
    BY <2>1 DEF watched, Bound
<1>4. watched(m)'
  BY <1>1, <1>2, <1>3 DEF watched
<1>5. owned(m)' /\ known(m)'
  BY <1>1 DEF owned, known
<1>6. held(m)' /\ internal(m)'
  BY <1>1, <1>2 DEF held, internal
<1>7. QED
  BY <1>4, <1>5, <1>6 DEF nodeInv

\* A gate is started under the lock.
LEMMA GateStarts ==
  ASSUME HostInv, NEW g \in Nodes, StartInternalGate(g)
  PROVE  /\ \A n \in Nodes : nodeInv(n)'
         /\ UNCHANGED rt \/ StartNode(g)
<1>1. rt \in Runtimes /\ lock.at = "dispatch" /\ g \in Gates
  BY DEF HostInv, Inv, TypeOK, StartInternalGate, Dispatched
<1>2. CASE ~canStartWorkflowNode(rt, g)
  <2>1. UNCHANGED <<rt, binding, process, active>> /\ lock' = Idle
    BY <1>2 DEF StartInternalGate
  <2>2. quiet(rt, rt')
    BY <2>1 DEF quiet
  <2>3. \A n \in Nodes : internal(n)
    BY DEF HostInv, nodeInv
  <2>4. lock'.at = "idle" /\ \A n \in Nodes : n \in Gates => binding'[n].phase \in {"none", "running"}
    BY <2>1, <2>3 DEF Idle, internal
  <2>5. \A n \in Nodes :
          /\ process'[n].attempt = process[n].attempt \/ (process'[n] = NoProcess /\ active[n] = 0)
          /\ process'[n] # NoProcess => process[n] # NoProcess /\ stopsAsked(n)
          /\ binding[n].phase = "running" => binding'[n] = binding[n]
          /\ n \in Gates => binding'[n].phase \in {"none", "running"}
    BY <1>1, <2>1, <2>4 DEF stopsAsked
  <2>6. \A n \in Nodes : nodeInv(n)'
    BY <1>1, <2>1, <2>2, <2>4, <2>5, CalmStep
  <2>7. QED
    BY <2>1, <2>6
<1>3. CASE canStartWorkflowNode(rt, g)
  <2>1. /\ rt' = startWorkflowNode(rt, g) /\ UNCHANGED <<process, active>>
        /\ binding' = [binding EXCEPT ![g] = Bound("running", rt.attempt[g])]
        /\ lock' = [lock EXCEPT !.at = "gate", !.node = g]
    BY <1>3 DEF StartInternalGate
  <2>2. StartNode(g)
    BY <1>1, <1>3, <2>1, NoGateRuns DEF StartNode
  <2>3. rt'.status = [rt.status EXCEPT ![g] = "running"] /\ rt'.attempt = rt.attempt
    BY <1>1, <2>1, SetNodeRun DEF startWorkflowNode, RunStatus, FailureCode, sameRecords
  <2>4. lock'.at = "gate" /\ lock'.node = g
    BY <2>1 DEF HostInv, hostTypes
  <2>5. ASSUME NEW n \in Nodes PROVE nodeInv(n)'
    <3>1. watched(n) /\ owned(n) /\ known(n) /\ internal(n)
      BY DEF HostInv, nodeInv
    <3>2. /\ binding'[n] = IF n = g THEN Bound("running", rt.attempt[g]) ELSE binding[n]
          /\ rt'.status[n] = IF n = g THEN "running" ELSE rt.status[n]
      BY <1>1, <2>1, <2>3 DEF HostInv, hostTypes, Runtimes
    <3>3. watched(n)'
      BY <1>1, <2>1, <2>3, <2>4, <3>1, <3>2 DEF watched
    <3>4. owned(n)'
      BY <1>1, <2>1, <2>4, <3>1 DEF owned
    <3>5. known(n)'
      BY <1>1, <2>1, <2>4, <3>1, <3>2 DEF known
    <3>6. held(n)' /\ internal(n)'
      BY <1>1, <2>4, <3>1, <3>2 DEF held, internal, Bound
    <3>7. QED
      BY <3>3, <3>4, <3>5, <3>6 DEF nodeInv
  <2>6. QED
    BY <2>2, <2>5
<1>4. QED
  BY <1>2, <1>3

\* A node ends with its handle and its process.
LEMMA EndStep ==
  ASSUME HostInv, NEW x \in Nodes, ends(rt, rt', x), lock'.at \in {"idle", "reconcile", "dispatch"},
         lock.at = "idle" \/ (lock.at = "gate" /\ lock.node = x),
         \A n \in Nodes \ {x} : UNCHANGED <<binding[n], process[n], active[n]>>,
         binding'[x] = Unbound, active'[x] = 0, process'[x] = NoProcess
  PROVE  \A n \in Nodes : nodeInv(n)'
<1> SUFFICES ASSUME NEW n \in Nodes PROVE nodeInv(n)'
  OBVIOUS
<1>1. watched(n) /\ owned(n) /\ known(n) /\ internal(n)
  BY DEF HostInv, nodeInv
<1>2. /\ rt'.status[n] \in ActiveStatus <=> rt.status[n] \in ActiveStatus /\ n # x
      /\ rt.status[n] \in ActiveStatus => rt'.attempt[n] = rt.attempt[n]
  BY DEF ends
<1>3. watched(n)'
  BY <1>1, <1>2 DEF watched
<1>4. owned(n)' /\ known(n)'
  BY <1>1, <1>2 DEF owned, known
<1>5. held(n)' /\ internal(n)'
  BY <1>1 DEF held, internal, Unbound, Bound
<1>6. QED
  BY <1>3, <1>4, <1>5 DEF nodeInv

\* The gate under the lock ends.
LEMMA GateEnds ==
  ASSUME HostInv, CompleteInternalGate
  PROVE  /\ \A n \in Nodes : nodeInv(n)'
         /\ \E g \in Gates : CompleteGate(g)
<1> DEFINE g == lock.node
<1>1. lock.at = "gate" /\ g \in Nodes /\ g \in Gates /\ rt.status[g] = "running"
  BY DEF HostInv, nodeInv, held, CompleteInternalGate
<1>2. rt \in Runtimes /\ hostTypes /\ watched(g) /\ owned(g)
  BY <1>1 DEF HostInv, Inv, TypeOK, nodeInv
<1>3. ends(rt, rt', g)
  BY <1>1, <1>2, GateCompletionEnds DEF CompleteInternalGate
<1>4. active[g] = 0 /\ process[g] = NoProcess
  BY <1>1, <1>2 DEF watched, owned
<1>5. /\ binding' = [binding EXCEPT ![g] = Unbound] /\ UNCHANGED <<process, active>>
      /\ lock' = handled(g)
  BY DEF CompleteInternalGate
<1>6. lock'.at = "dispatch"
  BY <1>2, <1>5 DEF handled, hostTypes
<1>7. \A n \in Nodes : binding'[n] = IF n = g THEN Unbound ELSE binding[n]
  BY <1>2, <1>5 DEF hostTypes
<1>8. CompleteGate(g)
  BY <1>1 DEF CompleteGate, CompleteInternalGate
<1> HIDE DEF g
<1>9. \A n \in Nodes : nodeInv(n)'
  BY <1>1, <1>3, <1>4, <1>5, <1>6, <1>7, EndStep DEF g
<1>10. QED
  BY <1>1, <1>8, <1>9

\* The completion of a watched process, committed or asked for by cancelNode.
LEMMA CompletionCommits ==
  ASSUME HostInv, NEW n \in Nodes, NEW result \in ExecutorResults(n), lock.at = "idle",
         active[n] # 0, completeLocked(n, result)
  PROVE  /\ \A m \in Nodes : nodeInv(m)'
         /\ CompleteNode(n, result)
<1>1. rt \in Runtimes /\ hostTypes /\ watched(n) /\ NoGateRunning
  BY NoGateRuns DEF HostInv, Inv, TypeOK, nodeInv
<1>2. /\ rt.status[n] \in ActiveStatus /\ n \notin Gates
      /\ active[n] = rt.attempt[n] /\ binding[n] = Bound("running", rt.attempt[n])
  BY <1>1 DEF watched
<1>3. stillCurrent(n) /\ stillBound(n)
  BY <1>2 DEF stillCurrent, stillBound, Bound
<1>4. /\ canCompleteWorkflowNode(rt, n, result.status)
      /\ rt' = recordCompletion(rt, n, result)
      /\ binding' = [binding EXCEPT ![n] = Unbound] /\ lock' = pumpLocked
      /\ active' = [active EXCEPT ![n] = 0] /\ process' = [process EXCEPT ![n] = NoProcess]
  BY <1>3 DEF completeLocked, completionAccepted
<1>5. CompleteNode(n, result)
  BY <1>1, <1>2, <1>4 DEF CompleteNode
<1>6. ends(rt, rt', n)
  BY <1>1, <1>2, <1>4, CompletionEnds
<1>7. lock'.at = "reconcile"
  BY <1>4 DEF pumpLocked, Idle
<1>8. \A m \in Nodes : /\ binding'[m] = IF m = n THEN Unbound ELSE binding[m]
                       /\ active'[m] = IF m = n THEN 0 ELSE active[m]
                       /\ process'[m] = IF m = n THEN NoProcess ELSE process[m]
  BY <1>1, <1>4 DEF hostTypes
<1>9. \A m \in Nodes : nodeInv(m)'
  BY <1>6, <1>7, <1>8, EndStep
<1>10. QED
  BY <1>5, <1>9

-----------------------------------------------------------------------------
(* The actions of the host *)

\* Every action is a step of the runtime, or none, and keeps the nodes' invariant.
Sound == [Next]_rt /\ \A n \in Nodes : nodeInv(n)'

\* What a change of bindings may not touch: a running binding, and those of gates.
KeepsBindings ==
  \A n \in Nodes : /\ binding[n].phase = "running" => binding'[n] = binding[n]
                   /\ n \in Gates => binding'[n].phase \in {"none", "running"}

\* Nothing happens to any binding.
LEMMA KeepingBindings ==
  ASSUME HostInv, UNCHANGED binding
  PROVE  KeepsBindings
  BY DEF HostInv, nodeInv, internal, KeepsBindings

\* One binding of a node that is no gate and not running changes.
LEMMA ChangingBinding ==
  ASSUME HostInv, NEW n \in Nodes \ Gates, NEW b, binding[n].phase # "running",
         binding' = [binding EXCEPT ![n] = b]
  PROVE  KeepsBindings
<1>1. \A m \in Nodes : binding'[m] = IF m = n THEN b ELSE binding[m]
  BY DEF HostInv, hostTypes
<1>2. \A m \in Nodes : internal(m)
  BY DEF HostInv, nodeInv
<1>3. QED
  BY <1>1, <1>2 DEF internal, KeepsBindings

\* Actions of the pump, of a person and of a launch that fails, all of which leave
\* processes and handles to themselves.
LEMMA CalmAction ==
  ASSUME HostInv, UNCHANGED rt \/ QuietStep, UNCHANGED <<process, active>>,
         lock.at \in {"idle", "reconcile", "revise", "schedule", "dispatch", "launch"},
         lock'.at \in {"idle", "reconcile", "revise", "schedule", "dispatch"},
         KeepsBindings
  PROVE  Sound
<1>1. quiet(rt, rt')
  BY QuietSteps DEF HostInv, Inv, quiet
<1>2. \A n \in Nodes :
        /\ process'[n].attempt = process[n].attempt \/ (process'[n] = NoProcess /\ active[n] = 0)
        /\ process'[n] # NoProcess => process[n] # NoProcess /\ stopsAsked(n)
        /\ binding[n].phase = "running" => binding'[n] = binding[n]
        /\ n \in Gates => binding'[n].phase \in {"none", "running"}
  BY DEF KeepsBindings, stopsAsked
<1>3. active' = active
  OBVIOUS
<1>4. \A n \in Nodes : nodeInv(n)'
  BY <1>1, <1>2, <1>3, CalmStep
<1>5. [Next]_rt
  BY DEF QuietStep, Next
<1>6. QED
  BY <1>4, <1>5 DEF Sound

\* The pump goes round again or lets go of the lock, with nothing new to dispatch.
LEMMA NextIterationAt ==
  ASSUME HostInv, NEW settled, NEW progressed, nextIteration(settled, progressed)
  PROVE  /\ lock'.at \in {"idle", "reconcile"} /\ lock'.todo \subseteq lock.todo
         /\ lock'.at = "idle" => lock'.todo = {}
<1>1. lock' \in {[lock EXCEPT !.at = "reconcile", !.progressed = FALSE], Idle}
  BY DEF nextIteration
<1>2. CASE lock' = Idle
  BY <1>2 DEF Idle
<1>3. CASE lock' = [lock EXCEPT !.at = "reconcile", !.progressed = FALSE]
  BY <1>3 DEF HostInv, hostTypes
<1>4. QED
  BY <1>1, <1>2, <1>3

\* The pump: reconcile, revise and schedule.
LEMMA PumpIsSound ==
  ASSUME HostInv, PumpReconcile \/ PumpRevise \/ PumpSchedule \/ DispatchEnds
  PROVE  Sound
<1>1. CASE PumpReconcile
  <2>1. ReconcileEvidence
    BY <1>1, NoGateRuns DEF PumpReconcile, ReconcileEvidence
  <2>2. lock.at = "reconcile" /\ lock'.at = "revise" /\ UNCHANGED <<process, active>> /\ UNCHANGED binding
    BY <1>1 DEF PumpReconcile, HostInv, hostTypes
  <2>3. QED
    BY <2>1, <2>2, KeepingBindings, CalmAction DEF QuietStep
<1>2. CASE PumpRevise
  <2>1. UNCHANGED rt \/ QueueRevisions
    BY <1>2, NoGateRuns DEF PumpRevise, QueueRevisions
  <2>2. lock.at = "revise" /\ UNCHANGED <<process, active>> /\ UNCHANGED binding
    BY <1>2 DEF PumpRevise
  <2>3. lock' \in {[lock EXCEPT !.at = "schedule", !.progressed = TRUE],
                   [lock EXCEPT !.at = "schedule"], Idle}
    BY <1>2 DEF PumpRevise
  <2>4. lock'.at \in {"schedule", "idle"}
    <3>1. CASE lock' = Idle
      BY <3>1 DEF Idle
    <3>2. CASE lock' = [lock EXCEPT !.at = "schedule"]
      BY <3>2 DEF HostInv, hostTypes
    <3>3. CASE lock' = [lock EXCEPT !.at = "schedule", !.progressed = TRUE]
      BY <3>3 DEF HostInv, hostTypes
    <3>4. QED
      BY <2>3, <3>1, <3>2, <3>3
  <2>5. QED
    BY <2>1, <2>2, <2>4, KeepingBindings, CalmAction DEF QuietStep
<1>3. CASE PumpSchedule
  <2>1. UpdateSchedule
    BY <1>3, NoGateRuns DEF PumpSchedule, UpdateSchedule
  <2>2. lock.at = "schedule" /\ UNCHANGED <<process, active>>
    BY <1>3 DEF PumpSchedule
  <2>3. lock'.at \in {"idle", "reconcile", "dispatch"}
    <3>1. \/ \E settled, progressed : nextIteration(settled, progressed)
          \/ \E runnable, progressed :
               lock' = [lock EXCEPT !.at = "dispatch", !.todo = runnable, !.progressed = progressed]
      BY <1>3 DEF PumpSchedule
    <3>2. QED
      BY <3>1, NextIterationAt DEF HostInv, hostTypes
  <2>4. \/ UNCHANGED binding
        \/ binding' = [n \in Nodes |-> IF Expired(n) THEN Unbound ELSE binding[n]]
    BY <1>3 DEF PumpSchedule
  <2>5. ASSUME binding' = [n \in Nodes |-> IF Expired(n) THEN Unbound ELSE binding[n]]
        PROVE  KeepsBindings
    <3>1. \A n \in Nodes : internal(n)
      BY DEF HostInv, nodeInv
    <3>2. QED
      BY <2>5, <3>1 DEF KeepsBindings, internal, Expired
  <2>6. QED
    BY <2>1, <2>2, <2>3, <2>4, <2>5, KeepingBindings, CalmAction DEF QuietStep
<1>4. CASE DispatchEnds
  <2>1. lock.at = "dispatch" /\ UNCHANGED rt /\ UNCHANGED <<process, active>> /\ UNCHANGED binding
    BY <1>4 DEF DispatchEnds
  <2>2. lock'.at \in {"idle", "reconcile"}
    BY <1>4, NextIterationAt DEF DispatchEnds
  <2>3. QED
    BY <2>1, <2>2, KeepingBindings, CalmAction
<1>5. QED
  BY <1>1, <1>2, <1>3, <1>4

\* Where an operation goes on after it handled one node.
LEMMA HandledAt ==
  ASSUME HostInv, NEW n
  PROVE  handled(n).at = "dispatch" /\ \A S : [handled(n) EXCEPT !.fresh = S].at = "dispatch"
                                           /\ [handled(n) EXCEPT !.deferred = S].at = "dispatch"
  BY DEF HostInv, hostTypes, handled

\* A node the pump dispatches has no process, and no handle.
LEMMA DispatchedIsFree ==
  ASSUME HostInv, NEW n \in Nodes, Dispatched(n), ~skipDispatch(n)
  PROVE  process[n] = NoProcess /\ active[n] = 0
<1>1. n \in lock.todo /\ binding[n].phase \in {"none", "waiting-delegate-approval"}
  BY DEF Dispatched, skipDispatch
<1>2. watched(n) /\ barred(n)
  BY DEF HostInv, nodeInv
<1>3. active[n] = 0
  BY <1>1, <1>2 DEF watched, Bound
<1>4. QED
  BY <1>1, <1>2, <1>3 DEF barred

\* The pump dispatches one node.
LEMMA DispatchIsSound ==
  ASSUME HostInv, NEW n \in Nodes, DispatchStep(n)
  PROVE  Sound
<1>1. CASE DispatchSkips(n)
  <2>1. /\ lock.at = "dispatch" /\ lock'.at = "dispatch" /\ UNCHANGED rt
        /\ UNCHANGED <<process, active>> /\ UNCHANGED binding
    BY <1>1 DEF DispatchSkips, Dispatched, HostInv, hostTypes
  <2>2. QED
    BY <2>1, KeepingBindings, CalmAction
<1>2. CASE StartInternalGate(n)
  BY <1>2, GateStarts DEF Sound, Next
<1>3. CASE Prepare(n)
  <2>1. lock.at = "dispatch" /\ n \notin Gates /\ binding[n].phase # "running"
        /\ UNCHANGED rt /\ UNCHANGED <<process, active>>
    BY <1>3 DEF Prepare, Preparing, Dispatched, skipDispatch
  <2>2. CASE launchesWithoutApproval(n)
    <3>1. /\ binding' = [binding EXCEPT ![n] = Bound("launching", rt.attempt[n])]
          /\ lock' = [lock EXCEPT !.at = "launch", !.node = n]
      BY <1>3, <2>2 DEF Prepare
    <3>2. lock'.at = "launch" /\ lock'.node = n
      BY <3>1 DEF HostInv, hostTypes
    <3>3. process[n] = NoProcess
      BY <1>3, DispatchedIsFree DEF Prepare, Preparing
    <3>4. QED
      BY <2>1, <3>1, <3>2, <3>3, ClaimStep DEF Sound
  <2>3. CASE ~launchesWithoutApproval(n)
    <3>1. /\ binding' = [binding EXCEPT ![n] = Bound("waiting-approval", rt.attempt[n])]
          /\ lock' = [handled(n) EXCEPT !.fresh = handled(n).fresh \cup {n}]
      BY <1>3, <2>3 DEF Prepare
    <3>2. lock'.at = "dispatch"
      BY <3>1, HandledAt
    <3>3. QED
      BY <2>1, <3>1, <3>2, ChangingBinding, CalmAction
  <2>4. QED
    BY <2>2, <2>3
<1>4. CASE PrepareNeedsDelegate(n)
  <2>1. /\ lock.at = "dispatch" /\ n \notin Gates /\ binding[n].phase # "running"
        /\ UNCHANGED rt /\ UNCHANGED <<process, active>>
        /\ binding' = [binding EXCEPT ![n] = Bound("waiting-delegate-approval", rt.attempt[n])]
        /\ lock' = [handled(n) EXCEPT !.deferred = handled(n).deferred \cup {n}]
    BY <1>4 DEF PrepareNeedsDelegate, Preparing, Dispatched, skipDispatch
  <2>2. lock'.at = "dispatch"
    BY <2>1, HandledAt
  <2>3. QED
    BY <2>1, <2>2, ChangingBinding, CalmAction
<1>5. CASE PrepareFails(n)
  <2>1. /\ lock.at = "dispatch" /\ n \notin Gates /\ binding[n].phase # "running"
        /\ UNCHANGED <<process, active>>
    BY <1>5 DEF PrepareFails, Preparing, Dispatched, skipDispatch
  <2>2. CASE canFailWorkflowNodeBeforeLaunch(rt, n)
    <3>1. /\ rt' = failWorkflowNodeBeforeLaunch(rt, n)
          /\ binding' = [binding EXCEPT ![n] = Bound("failed", rt.attempt[n])]
          /\ lock'.at = "dispatch"
      BY <1>5, <2>2, HandledAt DEF PrepareFails
    <3>2. FailNodeBeforeLaunch(n)
      BY <2>1, <2>2, <3>1, NoGateRuns DEF FailNodeBeforeLaunch
    <3>3. QED
      BY <2>1, <3>1, <3>2, ChangingBinding, CalmAction DEF QuietStep
  <2>3. CASE ~canFailWorkflowNodeBeforeLaunch(rt, n)
    <3>1. UNCHANGED rt /\ UNCHANGED binding /\ lock'.at = "idle"
      BY <1>5, <2>3 DEF PrepareFails, Idle
    <3>2. QED
      BY <2>1, <3>1, KeepingBindings, CalmAction
  <2>4. QED
    BY <2>2, <2>3
<1>6. QED
  BY <1>1, <1>2, <1>3, <1>4, <1>5 DEF DispatchStep

\* What the invariant says about the node under the lock during a launch.
LEMMA DuringLaunch ==
  ASSUME HostInv, lock.at \in {"launch", "launched"}
  PROVE  /\ lock.node \in Nodes \ Gates /\ active[lock.node] = 0
         /\ binding[lock.node] = Bound("launching", rt.attempt[lock.node])
         /\ lock.at = "launched" => process[lock.node].attempt = rt.attempt[lock.node]
         /\ lock.at = "launch" => process[lock.node] = NoProcess
<1> DEFINE n == lock.node
<1>1. n \in Nodes /\ watched(n) /\ owned(n) /\ held(n)
  BY DEF HostInv, nodeInv
<1> HIDE DEF n
<1>2. /\ n \notin Gates /\ binding[n] = Bound("launching", rt.attempt[n])
      /\ lock.at = "launched" => process[n].attempt = rt.attempt[n]
  BY <1>1 DEF held, n
<1>3. active[n] = 0
  BY <1>1, <1>2 DEF watched, Bound
<1>4. lock.at = "launch" => process[n] = NoProcess
  BY <1>1 DEF held, n
<1>5. QED
  BY <1>1, <1>2, <1>3, <1>4 DEF n

\* Where a launch goes on, the lock is held for pumping, or let go of.
LEMMA AfterLaunchAt ==
  ASSUME HostInv, NEW n, NEW started
  PROVE  afterLaunch(n, started).at \in {"dispatch", "idle", "reconcile"}
<1>1. Idle.at = "idle" /\ pumpLocked.at = "reconcile"
  BY DEF Idle, pumpLocked
<1>2. QED
  BY <1>1, HandledAt DEF afterLaunch

\* The executor launches a process.
LEMMA LaunchSucceedsIsSound ==
  ASSUME HostInv, LaunchSucceeds
  PROVE  Sound
<1> DEFINE n == lock.node
           new == [NoProcess EXCEPT !.attempt = rt.attempt[n], !.alive = TRUE]
<1>1. /\ lock.at = "launch" /\ lock' = [lock EXCEPT !.at = "launched"]
      /\ process' = [process EXCEPT ![n] = new] /\ UNCHANGED <<rt, binding, active>>
  BY DEF LaunchSucceeds
<1>2. /\ n \in Nodes \ Gates /\ active[n] = 0
      /\ binding[n] = Bound("launching", rt.attempt[n])
  BY <1>1, DuringLaunch
<1>3. new.attempt = rt.attempt[n]
  BY DEF NoProcess
<1>4. lock'.at = "launched" /\ lock'.node = n
  BY <1>1 DEF HostInv, hostTypes
<1> HIDE DEF new
<1>5. \A m \in Nodes : process'[m] = IF m = n THEN new ELSE process[m]
  BY <1>1 DEF HostInv, hostTypes
<1> HIDE DEF n
<1>6. ASSUME NEW m \in Nodes PROVE nodeInv(m)'
  <2>1. watched(m) /\ owned(m) /\ known(m) /\ internal(m)
    BY DEF HostInv, nodeInv
  <2>2. watched(m)'
    BY <1>1, <1>2, <1>4, <1>5, <2>1 DEF watched
  <2>3. owned(m)' /\ known(m)' /\ internal(m)'
    BY <1>1, <1>2, <1>4, <1>5, <2>1 DEF owned, known, internal
  <2>4. held(m)'
    BY <1>1, <1>2, <1>3, <1>4, <1>5 DEF held
  <2>5. QED
    BY <2>2, <2>3, <2>4 DEF nodeInv
<1>7. QED
  BY <1>1, <1>6 DEF Sound

\* The launched process is recorded and watched.
LEMMA RecordStartedIsSound ==
  ASSUME HostInv, RecordStarted
  PROVE  Sound
<1> DEFINE n == lock.node
<1>1. /\ lock.at = "launched" /\ canStartWorkflowNode(rt, n)
      /\ rt' = startWorkflowNode(rt, n) /\ lock' = afterLaunch(n, TRUE)
      /\ binding' = [binding EXCEPT ![n].phase = "running"]
      /\ active' = [active EXCEPT ![n] = rt.attempt[n]] /\ UNCHANGED process
  BY DEF RecordStarted
<1>2. /\ n \in Nodes \ Gates /\ process[n].attempt = rt.attempt[n]
      /\ binding[n] = Bound("launching", rt.attempt[n])
  BY <1>1, DuringLaunch
<1>3. rt \in Runtimes /\ hostTypes
  BY DEF HostInv, Inv, TypeOK
<1> HIDE DEF n
<1>4. StartNode(n)
  BY <1>1, NoGateRuns DEF StartNode
<1>5. rt'.status = [rt.status EXCEPT ![n] = "running"] /\ rt'.attempt = rt.attempt
  BY <1>1, <1>2, <1>3, SetNodeRun DEF startWorkflowNode, RunStatus, FailureCode, sameRecords
<1>6. lock'.at \in {"dispatch", "idle", "reconcile"}
  BY <1>1, AfterLaunchAt
<1>7. [binding[n] EXCEPT !.phase = "running"] = Bound("running", rt.attempt[n])
  <2> DEFINE b == [binding[n] EXCEPT !.phase = "running"]
             c == Bound("running", rt.attempt[n])
  <2>1. binding[n].attempt = rt.attempt[n] /\ ~binding[n].expired
    BY <1>2 DEF Bound
  <2>2. /\ b \in [phase : Phases, attempt : Nat, expired : BOOLEAN]
        /\ b.phase = "running" /\ b.attempt = rt.attempt[n] /\ ~b.expired
    BY <1>2, <1>3, <2>1 DEF hostTypes, Phases
  <2>3. /\ c \in [phase : Phases, attempt : Nat, expired : BOOLEAN]
        /\ c.phase = "running" /\ c.attempt = rt.attempt[n] /\ ~c.expired
    BY <1>2, <1>3 DEF Bound, Phases, Runtimes
  <2> HIDE DEF b, c
  <2>4. b = c
    BY <2>2, <2>3
  <2>5. QED
    BY <2>4 DEF b, c
<1>8. \A m \in Nodes :
        /\ binding'[m] = IF m = n THEN Bound("running", rt.attempt[n]) ELSE binding[m]
        /\ active'[m] = IF m = n THEN rt.attempt[n] ELSE active[m]
        /\ rt'.status[m] = IF m = n THEN "running" ELSE rt.status[m]
  BY <1>1, <1>2, <1>3, <1>5, <1>7 DEF hostTypes, Runtimes
<1>9. rt.attempt[n] # 0
  BY <1>2, <1>3 DEF Runtimes
<1>10. ASSUME NEW m \in Nodes PROVE nodeInv(m)'
  <2>1. watched(m) /\ owned(m) /\ known(m) /\ internal(m)
    BY DEF HostInv, nodeInv
  <2>2. watched(m)'
    BY <1>1, <1>2, <1>5, <1>6, <1>8, <2>1 DEF watched, ActiveStatus
  <2>3. owned(m)'
    BY <1>1, <1>6, <1>8, <1>9, <2>1 DEF owned, n
  <2>4. known(m)'
    BY <1>1, <1>2, <1>6, <1>8, <1>9, <2>1 DEF known
  <2>5. internal(m)' /\ held(m)'
    BY <1>2, <1>6, <1>8, <2>1 DEF internal, held
  <2>6. QED
    BY <2>2, <2>3, <2>4, <2>5 DEF nodeInv
<1>11. QED
  BY <1>2, <1>4, <1>10 DEF Sound, Next

\* A launched process that is given up is gone, or was asked to stop.
LEMMA SettledProcess ==
  ASSUME HostInv, NEW n \in Nodes, settledCancellation(n)
  PROVE  /\ \/ process'[n] = NoProcess
            \/ process'[n] = [process[n] EXCEPT !.stopAsked = TRUE]
               /\ process'[n].attempt = process[n].attempt /\ process'[n].stopAsked
         /\ \A m \in Nodes : m # n => process'[m] = process[m]
<1>1. process \in [Nodes -> [attempt : Nat, alive : BOOLEAN, stopAsked : BOOLEAN,
                             result : Reports]]
  BY DEF HostInv, hostTypes
<1>2. CASE process' = [process EXCEPT ![n] = NoProcess]
  BY <1>1, <1>2
<1>3. CASE process' = [process EXCEPT ![n].stopAsked = TRUE]
  BY <1>1, <1>3
<1>4. QED
  BY <1>2, <1>3 DEF settledCancellation

\* A launch that failed, or whose start is refused or cannot be stored.
LEMMA LaunchFailureIsSound ==
  ASSUME HostInv, LaunchFails \/ StartRejected \/ PersistStartedFails
  PROVE  Sound
<1> DEFINE n == lock.node
<1>1. lock.at \in {"launch", "launched"} /\ UNCHANGED active
  BY DEF LaunchFails, StartRejected, PersistStartedFails
<1>2. /\ n \in Nodes \ Gates /\ active[n] = 0
      /\ binding[n] = Bound("launching", rt.attempt[n])
  BY <1>1, DuringLaunch
<1> DEFINE failed == [binding[n] EXCEPT !.phase = "failed"]
<1>3. \/ UNCHANGED <<rt, binding>>
      \/ /\ canFailWorkflowNodeBeforeLaunch(rt, n) /\ rt' = failWorkflowNodeBeforeLaunch(rt, n)
         /\ binding' = [binding EXCEPT ![n] = failed]
  BY DEF LaunchFails, StartRejected, PersistStartedFails
<1>4. lock'.at \in {"dispatch", "idle", "reconcile"}
  <2>1. lock' = Idle \/ lock' = afterLaunch(n, FALSE)
    BY DEF LaunchFails, StartRejected, PersistStartedFails
  <2>2. Idle.at = "idle"
    BY DEF Idle
  <2> HIDE DEF n
  <2>3. QED
    BY <2>1, <2>2, AfterLaunchAt
<1>5. \/ lock.at = "launch" /\ UNCHANGED process
      \/ lock.at = "launched" /\ settledCancellation(n)
  BY DEF LaunchFails, StartRejected, PersistStartedFails
<1> HIDE DEF failed
<1>6. UNCHANGED rt \/ FailNodeBeforeLaunch(n)
  BY <1>1, <1>3, NoGateRuns DEF FailNodeBeforeLaunch
<1>7. quiet(rt, rt') /\ [Next]_rt
  <2>1. CASE UNCHANGED rt
    BY <2>1 DEF quiet
  <2>2. CASE FailNodeBeforeLaunch(n)
    <3>1. QuietStep
      BY <1>2, <2>2 DEF QuietStep
    <3>2. QED
      BY <3>1, QuietSteps DEF HostInv, Inv, QuietStep, Next
  <2>3. QED
    BY <1>6, <2>1, <2>2
<1>8. KeepsBindings
  <2>1. binding[n].phase # "running"
    BY <1>2 DEF Bound
  <2> HIDE DEF n
  <2>2. QED
    BY <1>2, <1>3, <2>1, KeepingBindings, ChangingBinding
<1>9. \A m \in Nodes :
        /\ process'[m].attempt = process[m].attempt \/ (process'[m] = NoProcess /\ active[m] = 0)
        /\ process'[m] # NoProcess => process[m] # NoProcess /\ stopsAsked(m)
  <2>1. CASE lock.at = "launch" /\ UNCHANGED process
    BY <2>1 DEF stopsAsked
  <2>2. CASE lock.at = "launched" /\ settledCancellation(n)
    <3>1. process[n] # NoProcess
      BY <1>2, <2>2, DuringLaunch, NoProcessType DEF HostInv, Inv, TypeOK, Runtimes
    <3>2. \/ process'[n] = NoProcess
          \/ process'[n].attempt = process[n].attempt /\ process'[n].stopAsked
      BY <1>2, <2>2, SettledProcess
    <3>3. \A m \in Nodes : m # n => process'[m] = process[m]
      BY <1>2, <2>2, SettledProcess
    <3>4. QED
      BY <1>2, <3>1, <3>2, <3>3 DEF stopsAsked
  <2>3. QED
    BY <1>5, <2>1, <2>2
<1> HIDE DEF n
<1>10. \A m \in Nodes : nodeInv(m)'
  BY <1>1, <1>4, <1>7, <1>8, <1>9, CalmStep DEF KeepsBindings
<1>11. QED
  BY <1>7, <1>10 DEF Sound

\* What a person does, or a timer, with the lock free.
LEMMA PumpingIsSound ==
  ASSUME HostInv, UNCHANGED rt \/ QuietStep, ThenPump, UNCHANGED <<process, active>>,
         UNCHANGED binding
  PROVE  Sound
<1>1. lock.at = "idle" /\ lock'.at = "reconcile"
  BY DEF ThenPump, pumpLocked, Idle
<1>2. QED
  BY <1>1, KeepingBindings, CalmAction

\* Asking watched processes to stop changes neither their attempts nor who owns them,
\* and touches no other process.
LEMMA StoppingIsCalm ==
  ASSUME HostInv, stopActive
  PROVE  \A n \in Nodes : /\ process'[n].attempt = process[n].attempt
                          /\ process'[n] # NoProcess => process[n] # NoProcess
                          /\ process[n].stopAsked => process'[n].stopAsked
                          /\ active[n] = 0 => process'[n] = process[n]
<1> SUFFICES ASSUME NEW n \in Nodes
             PROVE  /\ process'[n].attempt = process[n].attempt
                    /\ process'[n] # NoProcess => process[n] # NoProcess
                    /\ process[n].stopAsked => process'[n].stopAsked
                    /\ active[n] = 0 => process'[n] = process[n]
  OBVIOUS
<1>1. \/ process'[n] = process[n]
      \/ /\ active[n] # 0 /\ process[n].alive
         /\ process'[n] = [process[n] EXCEPT !.stopAsked = TRUE]
  BY DEF stopActive
<1>2. process[n] \in [attempt : Nat, alive : BOOLEAN, stopAsked : BOOLEAN, result : Reports]
  BY DEF HostInv, hostTypes
<1>3. ~NoProcess.alive
  BY NoProcessType
<1>4. CASE active[n] # 0 /\ process[n].alive /\ process'[n] = [process[n] EXCEPT !.stopAsked = TRUE]
  <2>1. process'[n].attempt = process[n].attempt /\ process'[n].stopAsked
    BY <1>2, <1>4
  <2>2. process[n] # NoProcess
    BY <1>3, <1>4
  <2>3. QED
    BY <1>4, <2>1, <2>2
<1>5. CASE process'[n] = process[n]
  BY <1>5
<1>6. QED
  BY <1>1, <1>4, <1>5

\* Giving up on a loop, or cancelling the run, stops what is watched.
LEMMA CancellingIsSound ==
  ASSUME HostInv, (\E l \in Loops : HostCancelEscape(l)) \/ HostCancel
  PROVE  Sound
<1>1. QuietStep /\ stopActive /\ UNCHANGED active
  BY DEF HostCancelEscape, HostCancel, QuietStep
<1>2. lock.at = "idle" /\ lock'.at \in {"idle", "reconcile"}
  BY DEF HostCancelEscape, HostCancel, ThenPump, pumpLocked, Idle
<1>3. KeepsBindings
  <2>1. CASE UNCHANGED binding
    BY <2>1, KeepingBindings
  <2>2. CASE binding' = [n \in Nodes |-> IF binding[n].phase = "running" THEN binding[n]
                                         ELSE Unbound]
    BY <2>2 DEF KeepsBindings, Unbound, Bound
  <2>3. QED
    BY <2>1, <2>2 DEF HostCancelEscape, HostCancel
<1>4. \A n \in Nodes : /\ process'[n].attempt = process[n].attempt
                       /\ process'[n] # NoProcess => process[n] # NoProcess /\ stopsAsked(n)
  BY <1>1, <1>2, StoppingIsCalm DEF stopsAsked
<1>5. quiet(rt, rt') /\ [Next]_rt
  BY <1>1, QuietSteps DEF HostInv, Inv, QuietStep, Next
<1>6. \A n \in Nodes : nodeInv(n)'
  BY <1>1, <1>2, <1>3, <1>4, <1>5, CalmStep DEF KeepsBindings
<1>7. QED
  BY <1>5, <1>6 DEF Sound

\* Approving a prepared launch claims it, unless the preparation has expired.
LEMMA ApproveIsSound ==
  ASSUME HostInv, NEW n \in Nodes, ApproveNode(n)
  PROVE  Sound
<1>1. lock.at = "idle" /\ binding[n].phase = "waiting-approval"
      /\ UNCHANGED rt /\ UNCHANGED <<process, active>>
  BY DEF ApproveNode, ApprovalMatches
<1>2. n \notin Gates
  <2>1. internal(n)
    BY DEF HostInv, nodeInv
  <2>2. QED
    BY <1>1, <2>1 DEF internal
<1>3. CASE binding[n].expired
  <2>1. UNCHANGED binding /\ lock'.at = "idle"
    BY <1>1, <1>3 DEF ApproveNode
  <2>2. QED
    BY <1>1, <2>1, KeepingBindings, CalmAction
<1>4. CASE ~binding[n].expired
  <2>1. /\ binding' = [binding EXCEPT ![n] = Bound("launching", rt.attempt[n])]
        /\ lock' = [Idle EXCEPT !.at = "launch", !.node = n]
    BY <1>4 DEF ApproveNode
  <2>2. lock'.at = "launch" /\ lock'.node = n
    BY <2>1 DEF Idle
  <2>3. process[n] = NoProcess
    <3>1. watched(n) /\ barred(n)
      BY DEF HostInv, nodeInv
    <3>2. active[n] = 0
      BY <1>1, <3>1 DEF watched, Bound
    <3>3. QED
      BY <1>1, <3>1, <3>2 DEF barred
  <2>4. QED
    BY <1>1, <1>2, <2>1, <2>2, <2>3, ClaimStep DEF Sound
<1>5. QED
  BY <1>3, <1>4

\* What happens beside the holder of the lock: a process exits, a back-off ends, a
\* preparation expires.
LEMMA AsideIsSound ==
  ASSUME HostInv, NEW n \in Nodes,
         ProcessStep(n) \/ PreparationExpires(n) \/ (\E l \in Loops : HostBackoffElapses(l))
  PROVE  Sound
<1>1. CASE ProcessStep(n)
  <2>1. PICK result \in ExecutorResults(n) : ProcessExits(n, result)
    BY <1>1 DEF ProcessStep
  <2>2. /\ process[n].alive /\ UNCHANGED <<rt, binding, active, lock>>
        /\ process' = [process EXCEPT ![n].alive = FALSE, ![n].result = result]
    BY <2>1 DEF ProcessExits
  <2>3. process[n] # NoProcess
    BY <2>2, NoProcessType
  <2>4. \A m \in Nodes : /\ process'[m].attempt = process[m].attempt
                         /\ process'[m] # NoProcess => process[m] # NoProcess
                         /\ process[m].stopAsked => process'[m].stopAsked
    BY <2>2, <2>3 DEF HostInv, hostTypes
  <2>5. \A m \in Nodes : nodeInv(m)'
    BY <2>2, <2>4, AsideStep
  <2>6. QED
    BY <2>2, <2>5 DEF Sound
<1>2. CASE PreparationExpires(n)
  <2>1. /\ binding[n].phase = "waiting-approval" /\ UNCHANGED <<rt, process, active, lock>>
        /\ binding' = [binding EXCEPT ![n].expired = TRUE]
    BY <1>2 DEF PreparationExpires
  <2>2. n \notin Gates
    <3>1. internal(n)
      BY DEF HostInv, nodeInv
    <3>2. QED
      BY <2>1, <3>1 DEF internal
  <2>3. \A m \in Nodes : binding'[m] # binding[m] => m = n
    BY <2>1 DEF HostInv, hostTypes
  <2>4. \A m \in Nodes : nodeInv(m)'
    BY <2>1, <2>2, <2>3, AsideStep
  <2>5. QED
    BY <2>1, <2>4 DEF Sound
<1>3. ASSUME NEW l \in Loops, HostBackoffElapses(l) PROVE Sound
  <2>1. BackoffElapses(l) /\ UNCHANGED <<binding, process, active, lock>>
    BY <1>3 DEF HostBackoffElapses
  <2>2. rt'.status = rt.status /\ rt'.attempt = rt.attempt
    BY <2>1, BackoffTouchesLoop DEF HostInv, Inv, TypeOK
  <2>3. \A m \in Nodes : nodeInv(m)'
    BY <2>1, <2>2, AsideStep
  <2>4. QED
    BY <2>1, <2>3 DEF Sound, Next
<1>4. QED
  BY <1>1, <1>2, <1>3

\* The program dies with its processes.
LEMMA CrashIsSound ==
  ASSUME HostInv, Crash
  PROVE  Sound
<1>1. /\ UNCHANGED <<rt, binding>> /\ lock'.at = "down"
      /\ \A n \in Nodes : active'[n] = 0 /\ process'[n] = NoProcess
  BY DEF Crash, Idle
<1>2. ASSUME NEW n \in Nodes PROVE nodeInv(n)'
  <2>1. internal(n)
    BY DEF HostInv, nodeInv
  <2>2. QED
    BY <1>1, <2>1 DEF nodeInv, watched, owned, known, held, internal
<1>3. QED
  BY <1>1, <1>2 DEF Sound

\* The program starts again and declares what was active lost.
LEMMA RestartIsSound ==
  ASSUME HostInv, Restart
  PROVE  Sound
<1>1. lock.at = "down" /\ UNCHANGED <<process, active>> /\ rt \in Runtimes /\ Aggregated(rt)
  BY DEF Restart, HostInv, Inv, TypeOK, StoredStatusIsAggregate, Aggregated
<1>2. \A n \in Nodes : active[n] = 0 /\ process[n] = NoProcess
  BY <1>1 DEF HostInv, nodeInv, watched, owned
<1>3. ASSUME \A n \in Nodes : rt'.status[n] \notin ActiveStatus,
             lock'.at \in {"idle", "reconcile"},
             \A n \in Nodes : n \in Gates => binding'[n].phase \in {"none", "running"},
             NEW n \in Nodes
      PROVE  nodeInv(n)'
  BY <1>1, <1>2, <1>3 DEF nodeInv, watched, owned, known, held, internal
<1>4. CASE isTerminalRunStatus(rt.runStatus)
  <2>1. UNCHANGED <<rt, binding>> /\ lock'.at = "idle"
    BY <1>4 DEF Restart, Idle
  <2>2. \A n \in Nodes : rt.status[n] \notin ActiveStatus
    BY <1>1, <1>4, EndedRunIsQuiet
  <2>3. \A n \in Nodes : internal(n)
    BY DEF HostInv, nodeInv
  <2>4. \A n \in Nodes : nodeInv(n)'
    BY <1>3, <2>1, <2>2, <2>3 DEF internal
  <2>5. QED
    BY <2>1, <2>4 DEF Sound
<1>5. CASE ~isTerminalRunStatus(rt.runStatus)
  <2>1. RecoverExecution /\ binding' = [n \in Nodes |-> Unbound] /\ lock'.at = "reconcile"
    BY <1>5 DEF Restart, pumpLocked, Idle
  <2>2. \A n \in Nodes : rt'.status[n] \notin ActiveStatus
    BY <1>1, <2>1, RecoveryEndsAll DEF RecoverExecution
  <2>3. \A n \in Nodes : binding'[n].phase = "none"
    BY <2>1 DEF Unbound, Bound
  <2>4. \A n \in Nodes : nodeInv(n)'
    BY <1>3, <2>1, <2>2, <2>3
  <2>5. QED
    BY <2>1, <2>4 DEF Sound, Next
<1>6. QED
  BY <1>4, <1>5

\* Every action of the host is a step of the runtime, or none, and keeps the
\* invariant of every node.
LEMMA HostStepIsSound ==
  ASSUME HostInv, HostNext
  PROVE  Sound
<1>1. CASE LockStep
  <2>1. CASE PumpReconcile \/ PumpRevise \/ PumpSchedule \/ DispatchEnds
    BY <2>1, PumpIsSound
  <2>2. ASSUME NEW n \in Nodes, DispatchStep(n) PROVE Sound
    BY <2>2, DispatchIsSound
  <2>3. CASE CompleteInternalGate
    BY <2>3, GateEnds DEF Sound, Next
  <2>4. CASE LaunchSucceeds
    BY <2>4, LaunchSucceedsIsSound
  <2>5. CASE RecordStarted
    BY <2>5, RecordStartedIsSound
  <2>6. CASE LaunchFails \/ StartRejected \/ PersistStartedFails
    BY <2>6, LaunchFailureIsSound
  <2>7. CASE Restart
    BY <2>7, RestartIsSound
  <2>8. QED
    BY <1>1, <2>1, <2>2, <2>3, <2>4, <2>5, <2>6, <2>7 DEF LockStep
<1>2. CASE PersonStep
  <2>1. ASSUME NEW n \in Nodes, ApproveNode(n) PROVE Sound
    BY <2>1, ApproveIsSound
  <2>2. ASSUME NEW n \in Nodes, NEW result \in ExecutorResults(n), CancelNode(n, result)
        PROVE  Sound
    <3>1. lock.at = "idle" /\ active[n] = rt.attempt[n] /\ completeLocked(n, result)
      BY <2>2 DEF CancelNode
    <3>2. active[n] # 0
      BY <3>1 DEF HostInv, Inv, TypeOK, Runtimes
    <3>3. QED
      BY <3>1, <3>2, CompletionCommits DEF Sound, Next
  <2>3. ASSUME NEW t \in ApprovalTargets, HostApproveHumanDecision(t) PROVE Sound
    BY <2>3, PumpingIsSound DEF HostApproveHumanDecision, QuietStep
  <2>4. ASSUME NEW e \in HumanReviewEdges, NEW d \in {"approved", "changes-requested"},
               HostRecordHumanReview(e, d)
        PROVE  Sound
    BY <2>4, PumpingIsSound DEF HostRecordHumanReview, QuietStep
  <2>5. ASSUME NEW l \in Loops, HostAcceptEscape(l) PROVE Sound
    BY <2>5, PumpingIsSound DEF HostAcceptEscape, QuietStep
  <2>6. ASSUME NEW l \in Loops, HostCancelEscape(l) PROVE Sound
    BY <2>6, CancellingIsSound
  <2>7. CASE HostCancel
    BY <2>7, CancellingIsSound
  <2>8. CASE Poll
    BY <2>8, PumpingIsSound DEF Poll
  <2>9. QED
    BY <1>2, <2>1, <2>2, <2>3, <2>4, <2>5, <2>6, <2>7, <2>8 DEF PersonStep
<1>3. ASSUME NEW n \in Nodes, ProcessStep(n) \/ PreparationExpires(n) PROVE Sound
  BY <1>3, AsideIsSound
<1>4. ASSUME NEW n \in Nodes, CommitCompletion(n) PROVE Sound
  <2>1. process[n].result \in ExecutorResults(n)
    BY DEF HostInv, hostTypes
  <2>2. lock.at = "idle" /\ active[n] # 0 /\ completeLocked(n, process[n].result)
    BY <1>4 DEF CommitCompletion
  <2>3. QED
    BY <2>1, <2>2, CompletionCommits DEF Sound, Next
<1>5. ASSUME NEW l \in Loops, HostBackoffElapses(l) PROVE Sound
  <2>1. LoopOf[l].review \in Nodes
    BY LoopTypes DEF HostInv, Inv, TypeOK
  <2>2. QED
    BY <1>5, <2>1, AsideIsSound
<1>6. CASE WakeFires
  BY <1>6, PumpingIsSound DEF WakeFires
<1>7. CASE Crash
  BY <1>7, CrashIsSound
<1>8. QED
  BY <1>1, <1>2, <1>3, <1>4, <1>5, <1>6, <1>7 DEF HostNext

-----------------------------------------------------------------------------
(* The types of the host's state *)

Locks == [at : Positions, node : Nodes \cup {NoNode}, todo : SUBSET Nodes,
          fresh : SUBSET Nodes, deferred : SUBSET Nodes, progressed : BOOLEAN]

Bindings == [phase : Phases, attempt : Nat, expired : BOOLEAN]

\* The lock when nobody, or the pump, holds it.
LEMMA LockTypes ==
  ASSUME HostInv
  PROVE  /\ lock \in Locks /\ Idle \in Locks /\ pumpLocked \in Locks
         /\ \A n \in Nodes : handled(n) \in Locks /\ [Idle EXCEPT !.at = "launch", !.node = n] \in Locks
  BY DEF HostInv, hostTypes, Locks, Positions, Idle, pumpLocked, handled

\* Bindings are made for the current attempt, or undone.
LEMMA BindingTypes ==
  ASSUME HostInv
  PROVE  /\ Unbound \in Bindings
         /\ \A n \in Nodes : binding[n] \in Bindings
              /\ \A ph \in Phases : /\ Bound(ph, rt.attempt[n]) \in Bindings
                                    /\ [binding[n] EXCEPT !.phase = ph] \in Bindings
              /\ [binding[n] EXCEPT !.expired = TRUE] \in Bindings
<1>1. "none" \in Phases
  BY DEF Phases
<1>2. \A n \in Nodes : rt.attempt[n] \in Nat
  BY DEF HostInv, Inv, TypeOK, Runtimes
<1>3. binding \in [Nodes -> Bindings]
  BY DEF HostInv, hostTypes, Bindings
<1>4. \A n \in Nodes : binding[n] \in Bindings
  BY <1>3
<1>5. QED
  BY <1>1, <1>2, <1>4 DEF Bindings, Bound, Unbound

\* An iteration of the pump ends with a lock and a timer.
LEMMA NextIterationTypes ==
  ASSUME HostInv, NEW settled, NEW progressed, nextIteration(settled, progressed)
  PROVE  lock' \in Locks /\ wake' \in BOOLEAN
<1>1. /\ lock' \in {[lock EXCEPT !.at = "reconcile", !.progressed = FALSE], Idle}
      /\ wake' = wake \/ wake' = scheduleRevisionWake(settled)
  BY DEF nextIteration
<1>2. wake \in BOOLEAN /\ scheduleRevisionWake(settled) \in BOOLEAN
  BY DEF HostInv, hostTypes, scheduleRevisionWake
<1>3. [lock EXCEPT !.at = "reconcile", !.progressed = FALSE] \in Locks
  BY LockTypes DEF Locks, Positions
<1>4. QED
  BY <1>1, <1>2, <1>3, LockTypes

Processes == [attempt : Nat, alive : BOOLEAN, stopAsked : BOOLEAN, result : Reports]

\* What a step leaves behind, one definition for each group of variables.
bindingTypes == binding' \in [Nodes -> Bindings]
countTypes == prepared' \in [Nodes -> Nat] /\ active' \in [Nodes -> Nat]
timerTypes == wake' \in BOOLEAN /\ crashes' \in 0..MaxCrashes
processTypes == /\ process' \in [Nodes -> Processes]
                /\ \A n \in Nodes : process'[n].result \in ExecutorResults(n)
lockTypes == /\ lock' \in Locks
             /\ lock'.at \in {"gate", "launch", "launched"} => lock'.node \in Nodes
             /\ lock'.at = "idle" => lock'.todo = {}

TypedStep == bindingTypes /\ countTypes /\ timerTypes /\ processTypes /\ lockTypes

\* The types before a step, as the lemmas below use them.
LEMMA Typed ==
  ASSUME HostInv
  PROVE  /\ binding \in [Nodes -> Bindings]
         /\ prepared \in [Nodes -> Nat] /\ active \in [Nodes -> Nat]
         /\ wake \in BOOLEAN /\ crashes \in 0..MaxCrashes
         /\ process \in [Nodes -> Processes]
         /\ \A n \in Nodes : process[n].result \in ExecutorResults(n)
         /\ lock \in Locks
         /\ \A n \in Nodes : rt.attempt[n] \in Nat
<1>1. \A n \in Nodes : rt.attempt[n] \in Nat
  BY DEF HostInv, Inv, TypeOK, Runtimes
<1>2. QED
  BY <1>1 DEF HostInv, hostTypes, Bindings, Processes, Locks

\* What a step does not touch keeps its type.
LEMMA Untouched ==
  ASSUME HostInv
  PROVE  /\ UNCHANGED binding => bindingTypes
         /\ UNCHANGED <<prepared, active>> => countTypes
         /\ UNCHANGED <<wake, crashes>> => timerTypes
         /\ UNCHANGED process => processTypes
         /\ UNCHANGED lock => lockTypes
<1>1. /\ lock.at \in {"gate", "launch", "launched"} => lock.node \in Nodes
      /\ lock.at = "idle" => lock.todo = {}
  BY DEF HostInv
<1>2. QED
  BY <1>1, Typed DEF bindingTypes, countTypes, timerTypes, processTypes, lockTypes

\* One process is replaced by NoProcess.
LEMMA ForgottenProcess ==
  ASSUME HostInv, NEW n \in Nodes, process' = [process EXCEPT ![n] = NoProcess]
  PROVE  processTypes
<1>1. NoProcess \in Processes /\ NoProcess.result \in ExecutorResults(n)
  BY NoProcessType DEF Processes
<1>2. \A m \in Nodes : process'[m] = IF m = n THEN NoProcess ELSE process[m]
  BY Typed
<1>3. process' \in [Nodes -> Processes]
  BY <1>1, Typed
<1>4. QED
  BY <1>1, <1>2, <1>3, Typed DEF processTypes

\* A process that is asked to stop stays a process, and its result the same.
LEMMA AskedProcess ==
  ASSUME HostInv, NEW n \in Nodes
  PROVE  LET p == [process[n] EXCEPT !.stopAsked = TRUE] IN
         p \in Processes /\ p.result = process[n].result
  BY Typed DEF Processes

\* The launched process that is given up is gone, or was asked to stop.
LEMMA GivenUpProcess ==
  ASSUME HostInv, NEW n \in Nodes, settledCancellation(n)
  PROVE  processTypes
<1>1. CASE process' = [process EXCEPT ![n] = NoProcess]
  BY <1>1, ForgottenProcess
<1>2. CASE process' = [process EXCEPT ![n].stopAsked = TRUE]
  <2> DEFINE p == [process[n] EXCEPT !.stopAsked = TRUE]
  <2>1. p \in Processes /\ p.result = process[n].result
    BY AskedProcess
  <2>2. process' = [process EXCEPT ![n] = p]
    BY <1>2
  <2> HIDE DEF p
  <2>3. process' \in [Nodes -> Processes] /\ \A m \in Nodes : process'[m].result = process[m].result
    BY <2>1, <2>2, Typed
  <2>4. QED
    BY <2>3, Typed DEF processTypes
<1>3. QED
  BY <1>1, <1>2 DEF settledCancellation

\* The lock of an operation that pumps, or of none, has its type.
LEMMA LockPumps ==
  ASSUME HostInv, lock' \in Locks, lock'.at \notin {"gate", "launch", "launched"},
         lock'.at = "idle" => lock'.todo = {}
  PROVE  lockTypes
  BY DEF lockTypes

\* The operation lets go of the lock, or pumps, or has handled a node.
LEMMA LockGoesOn ==
  ASSUME HostInv,
         \/ lock' = Idle \/ lock' = pumpLocked
         \/ \E n \in Nodes : lock' = handled(n) \/ \E started : lock' = afterLaunch(n, started)
  PROVE  lockTypes
<1>1. \/ lock' = Idle \/ lock' = pumpLocked \/ \E n \in Nodes : lock' = handled(n)
  BY DEF afterLaunch
<1>2. lock' \in Locks
  BY <1>1, LockTypes
<1>3. lock'.at \in {"idle", "reconcile", "dispatch"} /\ (lock'.at = "idle" => lock'.todo = {})
  BY <1>1, HandledAt DEF Idle, pumpLocked
<1>4. QED
  BY <1>2, <1>3, LockPumps

\* The types after a step of the pump.
LEMMA PumpTypes ==
  ASSUME HostInv, PumpReconcile \/ PumpRevise \/ PumpSchedule \/ DispatchEnds
  PROVE  TypedStep
<1>1. CASE PumpReconcile
  <2>1. lock' \in Locks /\ lock'.at = "revise"
    BY <1>1, Typed DEF PumpReconcile, Locks, Positions
  <2>2. UNCHANGED binding /\ UNCHANGED <<prepared, active>> /\ UNCHANGED <<wake, crashes>>
        /\ UNCHANGED process
    BY <1>1 DEF PumpReconcile
  <2>3. QED
    BY <2>1, <2>2, Untouched, LockPumps DEF TypedStep
<1>2. CASE PumpRevise
  <2>1. lock' \in {[lock EXCEPT !.at = "schedule", !.progressed = TRUE],
                   [lock EXCEPT !.at = "schedule"], Idle}
    BY <1>2 DEF PumpRevise
  <2>2. /\ [lock EXCEPT !.at = "schedule", !.progressed = TRUE] \in Locks
        /\ [lock EXCEPT !.at = "schedule", !.progressed = TRUE].at = "schedule"
        /\ [lock EXCEPT !.at = "schedule"] \in Locks
        /\ [lock EXCEPT !.at = "schedule"].at = "schedule"
    BY Typed DEF Locks, Positions
  <2>3. Idle.at = "idle" /\ Idle.todo = {} /\ Idle \in Locks
    BY LockTypes DEF Idle
  <2>4. lockTypes
    BY <2>1, <2>2, <2>3, LockPumps
  <2>5. UNCHANGED binding /\ UNCHANGED <<prepared, active>> /\ UNCHANGED <<wake, crashes>>
        /\ UNCHANGED process
    BY <1>2 DEF PumpRevise
  <2>6. QED
    BY <2>4, <2>5, Untouched DEF TypedStep
<1>3. CASE PumpSchedule
  <2>1. UNCHANGED process /\ UNCHANGED active /\ UNCHANGED crashes
    BY <1>3 DEF PumpSchedule
  <2>2. PICK progressed \in {lock.progressed \/ rt' # rt} :
          IF runnableNodeIds(rt') = {}
          THEN nextIteration(rt', progressed) /\ UNCHANGED <<binding, prepared>>
          ELSE /\ lock' = [lock EXCEPT !.at = "dispatch", !.todo = runnableNodeIds(rt'),
                             !.progressed = progressed \/ \E n \in Nodes : Expired(n)]
               /\ binding' = [n \in Nodes |-> IF Expired(n) THEN Unbound ELSE binding[n]]
               /\ prepared' = [n \in Nodes |-> IF Expired(n) THEN 0 ELSE prepared[n]]
               /\ UNCHANGED wake
    BY <1>3 DEF PumpSchedule
  <2>3. CASE runnableNodeIds(rt') = {}
    <3>1. nextIteration(rt', progressed) /\ UNCHANGED binding /\ UNCHANGED prepared
      BY <2>2, <2>3
    <3>2. /\ lock' \in Locks /\ wake' \in BOOLEAN
          /\ lock'.at \in {"idle", "reconcile"} /\ (lock'.at = "idle" => lock'.todo = {})
      BY <3>1, NextIterationTypes, NextIterationAt
    <3>3. timerTypes
      BY <2>1, <3>2, Typed DEF timerTypes
    <3>4. QED
      BY <2>1, <3>1, <3>2, <3>3, Untouched, LockPumps DEF TypedStep
  <2>4. CASE runnableNodeIds(rt') # {}
    <3>1. /\ lock' = [lock EXCEPT !.at = "dispatch", !.todo = runnableNodeIds(rt'),
                        !.progressed = progressed \/ \E n \in Nodes : Expired(n)]
          /\ binding' = [n \in Nodes |-> IF Expired(n) THEN Unbound ELSE binding[n]]
          /\ prepared' = [n \in Nodes |-> IF Expired(n) THEN 0 ELSE prepared[n]]
          /\ UNCHANGED <<wake, crashes>>
      BY <2>1, <2>2, <2>4
    <3>2. runnableNodeIds(rt') \subseteq Nodes
      BY DEF runnableNodeIds
    <3>3. (progressed \/ \E n \in Nodes : Expired(n)) \in BOOLEAN
      OBVIOUS
    <3>4. lock' \in Locks /\ lock'.at = "dispatch"
      BY <3>1, <3>2, <3>3, Typed DEF Locks, Positions
    <3>5. bindingTypes
      BY <3>1, BindingTypes DEF bindingTypes
    <3>6. countTypes
      BY <2>1, <3>1, Typed DEF countTypes
    <3>7. QED
      BY <2>1, <3>1, <3>4, <3>5, <3>6, Untouched, LockPumps DEF TypedStep
  <2>5. QED
    BY <2>3, <2>4
<1>4. CASE DispatchEnds
  <2>1. nextIteration(rt, lock.progressed) /\ UNCHANGED binding /\ UNCHANGED <<prepared, active>>
        /\ UNCHANGED process /\ UNCHANGED crashes
    BY <1>4 DEF DispatchEnds
  <2>2. /\ lock' \in Locks /\ wake' \in BOOLEAN
        /\ lock'.at \in {"idle", "reconcile"} /\ (lock'.at = "idle" => lock'.todo = {})
    BY <2>1, NextIterationTypes, NextIterationAt
  <2>3. timerTypes
    BY <2>1, <2>2, Typed DEF timerTypes
  <2>4. QED
    BY <2>1, <2>2, <2>3, Untouched, LockPumps DEF TypedStep
<1>5. QED
  BY <1>1, <1>2, <1>3, <1>4

\* The types after a binding of node n was made for its current attempt.
LEMMA MadeBinding ==
  ASSUME HostInv, NEW n \in Nodes, NEW ph \in Phases,
         \/ binding' = [binding EXCEPT ![n] = Bound(ph, rt.attempt[n])]
         \/ binding' = [binding EXCEPT ![n].phase = ph]
         \/ binding' = [binding EXCEPT ![n] = Unbound]
  PROVE  bindingTypes
<1>1. /\ Bound(ph, rt.attempt[n]) \in Bindings /\ Unbound \in Bindings
      /\ [binding[n] EXCEPT !.phase = ph] \in Bindings
  BY BindingTypes
<1>2. CASE binding' = [binding EXCEPT ![n] = Bound(ph, rt.attempt[n])]
  BY <1>1, <1>2, Typed DEF bindingTypes
<1>3. CASE binding' = [binding EXCEPT ![n].phase = ph]
  <2>1. binding' = [binding EXCEPT ![n] = [binding[n] EXCEPT !.phase = ph]]
    BY <1>3
  <2>2. QED
    BY <1>1, <2>1, Typed DEF bindingTypes
<1>4. CASE binding' = [binding EXCEPT ![n] = Unbound]
  BY <1>1, <1>4, Typed DEF bindingTypes
<1>5. QED
  BY <1>2, <1>3, <1>4

\* The operation holds the lock for one node.
LEMMA LockHeldFor ==
  ASSUME HostInv, NEW n \in Nodes, NEW p \in {"gate", "launch"},
         \/ lock' = [lock EXCEPT !.at = p, !.node = n]
         \/ lock' = [Idle EXCEPT !.at = p, !.node = n]
  PROVE  lockTypes
<1>1. lock \in Locks /\ Idle \in Locks
  BY LockTypes
<1>2. QED
  BY <1>1 DEF lockTypes, Locks, Positions

\* The types after one node was dispatched.
LEMMA DispatchTypes ==
  ASSUME HostInv, NEW n \in Nodes, DispatchStep(n)
  PROVE  TypedStep
<1>0. {"running", "launching", "waiting-approval", "waiting-delegate-approval", "failed"} \subseteq Phases
  BY DEF Phases
<1>1. CASE DispatchSkips(n)
  <2>1. /\ UNCHANGED binding /\ UNCHANGED <<prepared, active>> /\ UNCHANGED <<wake, crashes>>
        /\ UNCHANGED process
        /\ lock' = [lock EXCEPT !.todo = lock.todo \ {n}] /\ lock.at = "dispatch"
    BY <1>1 DEF DispatchSkips, Dispatched
  <2>2. lock' \in Locks /\ lock'.at = "dispatch"
    BY <2>1, Typed DEF Locks
  <2>3. QED
    BY <2>1, <2>2, Untouched, LockPumps DEF TypedStep
<1>2. CASE StartInternalGate(n)
  <2>1. UNCHANGED <<prepared, active>> /\ UNCHANGED <<wake, crashes>> /\ UNCHANGED process
    BY <1>2 DEF StartInternalGate
  <2>2. \/ /\ binding' = [binding EXCEPT ![n] = Bound("running", rt.attempt[n])]
           /\ lock' = [lock EXCEPT !.at = "gate", !.node = n]
        \/ UNCHANGED binding /\ lock' = Idle
    BY <1>2 DEF StartInternalGate
  <2>3. bindingTypes
    BY <1>0, <2>2, MadeBinding, Untouched
  <2>4. lockTypes
    BY <2>2, LockHeldFor, LockGoesOn
  <2>5. QED
    BY <2>1, <2>3, <2>4, Untouched DEF TypedStep
<1>3. CASE Prepare(n)
  <2>1. /\ prepared' = [prepared EXCEPT ![n] = rt.attempt[n]]
        /\ UNCHANGED process /\ UNCHANGED active /\ UNCHANGED <<wake, crashes>>
    BY <1>3 DEF Prepare
  <2>2. \/ /\ binding' = [binding EXCEPT ![n] = Bound("launching", rt.attempt[n])]
           /\ lock' = [lock EXCEPT !.at = "launch", !.node = n]
        \/ /\ binding' = [binding EXCEPT ![n] = Bound("waiting-approval", rt.attempt[n])]
           /\ lock' = [handled(n) EXCEPT !.fresh = handled(n).fresh \cup {n}]
    BY <1>3 DEF Prepare
  <2>3. bindingTypes
    BY <1>0, <2>2, MadeBinding
  <2>4. countTypes
    BY <2>1, Typed DEF countTypes
  <2>5. ASSUME lock' = [handled(n) EXCEPT !.fresh = handled(n).fresh \cup {n}]
        PROVE  lockTypes
    <3>1. lock' \in Locks
      BY <2>5, LockTypes DEF Locks
    <3>2. lock'.at = "dispatch"
      BY <2>5, HandledAt
    <3>3. QED
      BY <3>1, <3>2, LockPumps
  <2>6. QED
    BY <2>1, <2>2, <2>3, <2>4, <2>5, LockHeldFor, Untouched DEF TypedStep
<1>4. CASE PrepareNeedsDelegate(n)
  <2>1. /\ binding' = [binding EXCEPT ![n] = Bound("waiting-delegate-approval", rt.attempt[n])]
        /\ lock' = [handled(n) EXCEPT !.deferred = handled(n).deferred \cup {n}]
        /\ UNCHANGED <<prepared, active>> /\ UNCHANGED <<wake, crashes>> /\ UNCHANGED process
    BY <1>4 DEF PrepareNeedsDelegate
  <2>2. bindingTypes
    BY <1>0, <2>1, MadeBinding
  <2>3. lock' \in Locks /\ lock'.at = "dispatch"
    BY <2>1, LockTypes, HandledAt DEF Locks
  <2>4. QED
    BY <2>1, <2>2, <2>3, LockPumps, Untouched DEF TypedStep
<1>5. CASE PrepareFails(n)
  <2>1. UNCHANGED <<prepared, active>> /\ UNCHANGED <<wake, crashes>> /\ UNCHANGED process
    BY <1>5 DEF PrepareFails
  <2>2. \/ /\ binding' = [binding EXCEPT ![n] = Bound("failed", rt.attempt[n])]
           /\ lock' = handled(n)
        \/ UNCHANGED binding /\ lock' = Idle
    BY <1>5 DEF PrepareFails
  <2>3. bindingTypes
    BY <1>0, <2>2, MadeBinding, Untouched
  <2>4. lockTypes
    BY <2>2, LockGoesOn
  <2>5. QED
    BY <2>1, <2>3, <2>4, Untouched DEF TypedStep
<1>6. QED
  BY <1>1, <1>2, <1>3, <1>4, <1>5 DEF DispatchStep

\* The types after a step of a launch, or of the gate under the lock.
LEMMA LaunchTypes ==
  ASSUME HostInv,
         \/ CompleteInternalGate \/ LaunchSucceeds \/ LaunchFails
         \/ RecordStarted \/ StartRejected \/ PersistStartedFails
  PROVE  TypedStep
<1> DEFINE n == lock.node
<1>0. n \in Nodes /\ "failed" \in Phases /\ "running" \in Phases
  BY DEF HostInv, CompleteInternalGate, LaunchSucceeds, LaunchFails, RecordStarted,
         StartRejected, PersistStartedFails, Phases
<1> HIDE DEF n
<1>1. CASE CompleteInternalGate
  <2>1. /\ binding' = [binding EXCEPT ![n] = Unbound] /\ lock' = handled(n)
        /\ UNCHANGED <<prepared, active>> /\ UNCHANGED <<wake, crashes>> /\ UNCHANGED process
    BY <1>1 DEF CompleteInternalGate, n
  <2>2. bindingTypes /\ lockTypes
    BY <1>0, <2>1, MadeBinding, LockGoesOn
  <2>3. QED
    BY <2>1, <2>2, Untouched DEF TypedStep
<1>2. CASE LaunchSucceeds
  <2>1. /\ process' = [process EXCEPT ![n] = [NoProcess EXCEPT !.attempt = rt.attempt[n],
                                                              !.alive = TRUE]]
        /\ prepared' = [prepared EXCEPT ![n] = 0] /\ lock' = [lock EXCEPT !.at = "launched"]
        /\ UNCHANGED binding /\ UNCHANGED active /\ UNCHANGED <<wake, crashes>>
    BY <1>2 DEF LaunchSucceeds, n
  <2>2. countTypes
    BY <1>0, <2>1, Typed DEF countTypes
  <2>3. lockTypes
    BY <1>0, <2>1, Typed DEF lockTypes, Locks, Positions, n
  <2>4. DEFINE p == [NoProcess EXCEPT !.attempt = rt.attempt[n], !.alive = TRUE]
  <2>5. p \in Processes /\ p.result \in ExecutorResults(n)
    BY <1>0, Typed, NoProcessType DEF Processes
  <2>6. process' = [process EXCEPT ![n] = p]
    BY <2>1
  <2> HIDE DEF p
  <2>7. \A m \in Nodes : process'[m] = IF m = n THEN p ELSE process[m]
    BY <2>6, Typed
  <2>8. process' \in [Nodes -> Processes]
    BY <2>5, <2>6, Typed
  <2>9. processTypes
    BY <2>5, <2>7, <2>8, Typed DEF processTypes
  <2>10. QED
    BY <2>1, <2>2, <2>3, <2>9, Untouched DEF TypedStep
<1>3. CASE LaunchFails
  <2>1. UNCHANGED active /\ UNCHANGED <<wake, crashes>> /\ UNCHANGED process
    BY <1>3 DEF LaunchFails
  <2>2. \/ /\ binding' = [binding EXCEPT ![n].phase = "failed"]
           /\ prepared' = [prepared EXCEPT ![n] = 0] /\ lock' = afterLaunch(n, FALSE)
        \/ UNCHANGED binding /\ UNCHANGED prepared /\ lock' = Idle
    BY <1>3 DEF LaunchFails, n
  <2>3. bindingTypes
    BY <1>0, <2>2, MadeBinding, Untouched
  <2>4. countTypes
    <3>1. CASE prepared' = [prepared EXCEPT ![n] = 0]
      BY <1>0, <2>1, <3>1, Typed DEF countTypes
    <3>2. CASE UNCHANGED prepared
      BY <2>1, <3>2, Untouched
    <3>3. QED
      BY <2>2, <3>1, <3>2
  <2>5. lockTypes
    BY <1>0, <2>2, LockGoesOn
  <2>6. QED
    BY <2>1, <2>3, <2>4, <2>5, Untouched DEF TypedStep
<1>4. CASE RecordStarted
  <2>1. /\ binding' = [binding EXCEPT ![n].phase = "running"]
        /\ active' = [active EXCEPT ![n] = rt.attempt[n]] /\ lock' = afterLaunch(n, TRUE)
        /\ UNCHANGED prepared /\ UNCHANGED process /\ UNCHANGED <<wake, crashes>>
    BY <1>4 DEF RecordStarted, n
  <2>2. bindingTypes /\ lockTypes
    BY <1>0, <2>1, MadeBinding, LockGoesOn
  <2>3. countTypes
    BY <1>0, <2>1, Typed DEF countTypes
  <2>4. QED
    BY <2>1, <2>2, <2>3, Untouched DEF TypedStep
<1>5. CASE StartRejected \/ PersistStartedFails
  <2>1. /\ settledCancellation(n) /\ lock' = Idle
        /\ UNCHANGED <<prepared, active>> /\ UNCHANGED <<wake, crashes>>
        /\ UNCHANGED binding \/ binding' = [binding EXCEPT ![n].phase = "failed"]
    BY <1>5 DEF StartRejected, PersistStartedFails, n
  <2>2. bindingTypes /\ lockTypes
    BY <1>0, <2>1, MadeBinding, LockGoesOn, Untouched
  <2>3. processTypes
    BY <1>0, <2>1, GivenUpProcess
  <2>4. QED
    BY <2>1, <2>2, <2>3, Untouched DEF TypedStep
<1>6. QED
  BY <1>1, <1>2, <1>3, <1>4, <1>5

\* The types after the completion of a process was committed.
LEMMA CompletionTypes ==
  ASSUME HostInv, NEW n \in Nodes, NEW result, completeLocked(n, result)
  PROVE  TypedStep
<1>1. /\ active' = [active EXCEPT ![n] = 0] /\ UNCHANGED prepared
      /\ process' = [process EXCEPT ![n] = NoProcess] /\ UNCHANGED <<wake, crashes>>
      /\ \/ lock' = Idle /\ UNCHANGED binding
         \/ lock' = pumpLocked /\ binding' = [binding EXCEPT ![n] = Unbound]
  BY DEF completeLocked
<1>2. countTypes
  BY <1>1, Typed DEF countTypes
<1>3. "none" \in Phases
  BY DEF Phases
<1>4. bindingTypes
  BY <1>1, <1>3, MadeBinding, Untouched
<1>5. processTypes
  BY <1>1, ForgottenProcess
<1>6. lockTypes
  BY <1>1, LockGoesOn
<1>7. QED
  BY <1>1, <1>2, <1>4, <1>5, <1>6, Untouched DEF TypedStep

\* The types after watched processes were asked to stop.
LEMMA StoppingTypes ==
  ASSUME HostInv, stopActive
  PROVE  processTypes
<1>1. PICK stopped \in SUBSET Nodes :
        process' = [n \in Nodes |-> IF n \in stopped THEN [process[n] EXCEPT !.stopAsked = TRUE]
                                   ELSE process[n]]
  BY DEF stopActive
<1>2. \A n \in Nodes : /\ process[n] \in Processes
                        /\ [process[n] EXCEPT !.stopAsked = TRUE] \in Processes
                        /\ [process[n] EXCEPT !.stopAsked = TRUE].result = process[n].result
  BY Typed, AskedProcess
<1>3. process' \in [Nodes -> Processes]
  BY <1>1, <1>2
<1>4. \A n \in Nodes : process'[n].result = process[n].result
  BY <1>1, <1>2
<1>5. QED
  BY <1>3, <1>4, Typed DEF processTypes

\* The types after a decision of the person, or when a due revision wakes the pump.
LEMMA DecisionTypes ==
  ASSUME HostInv, PersonStep \/ WakeFires
  PROVE  TypedStep
<1>1. ASSUME NEW n \in Nodes, ApproveNode(n) PROVE TypedStep
  <2>1. UNCHANGED active /\ UNCHANGED process /\ UNCHANGED <<wake, crashes>>
    BY <1>1 DEF ApproveNode
  <2>2. CASE binding[n].expired
    <3>1. prepared' = [prepared EXCEPT ![n] = 0] /\ UNCHANGED lock /\ UNCHANGED binding
      BY <1>1, <2>2 DEF ApproveNode
    <3>2. countTypes
      BY <2>1, <3>1, Typed DEF countTypes
    <3>3. QED
      BY <2>1, <3>1, <3>2, Untouched DEF TypedStep
  <2>3. CASE ~binding[n].expired
    <3>1. /\ binding' = [binding EXCEPT ![n] = Bound("launching", rt.attempt[n])]
          /\ lock' = [Idle EXCEPT !.at = "launch", !.node = n] /\ UNCHANGED prepared
      BY <1>1, <2>3 DEF ApproveNode
    <3>2. "launching" \in Phases
      BY DEF Phases
    <3>3. bindingTypes /\ lockTypes
      BY <3>1, <3>2, MadeBinding, LockHeldFor
    <3>4. QED
      BY <2>1, <3>1, <3>3, Untouched DEF TypedStep
  <2>4. QED
    BY <2>2, <2>3
<1>2. ASSUME NEW n \in Nodes, NEW result, CancelNode(n, result) PROVE TypedStep
  BY <1>2, CompletionTypes DEF CancelNode
<1>3. ASSUME UNCHANGED <<binding, prepared, active, crashes>>, wake' \in {wake, FALSE},
             UNCHANGED process \/ stopActive, ThenPump
      PROVE  TypedStep
  <2>1. UNCHANGED binding /\ UNCHANGED <<prepared, active>> /\ UNCHANGED crashes
    BY <1>3
  <2>2. lock' = pumpLocked
    BY <1>3 DEF ThenPump
  <2>3. timerTypes
    BY <1>3, <2>1, Typed DEF timerTypes
  <2>4. processTypes
    BY <1>3, Untouched, StoppingTypes
  <2>5. lockTypes
    BY <2>2, LockGoesOn
  <2>6. QED
    BY <2>1, <2>3, <2>4, <2>5, Untouched DEF TypedStep
<1>4. ASSUME NEW t \in ApprovalTargets, HostApproveHumanDecision(t) PROVE TypedStep
  BY <1>3, <1>4 DEF HostApproveHumanDecision
<1>5. ASSUME NEW e, NEW d, HostRecordHumanReview(e, d) PROVE TypedStep
  BY <1>3, <1>5 DEF HostRecordHumanReview
<1>6. ASSUME NEW l \in Loops, HostCancelEscape(l) \/ HostAcceptEscape(l) PROVE TypedStep
  BY <1>3, <1>6 DEF HostCancelEscape, HostAcceptEscape
<1>7. CASE Poll \/ WakeFires
  BY <1>3, <1>7 DEF Poll, WakeFires
<1>8. CASE HostCancel
  <2>1. /\ binding' = [n \in Nodes |-> IF binding[n].phase = "running" THEN binding[n] ELSE Unbound]
        /\ prepared' = [n \in Nodes |-> 0] /\ stopActive /\ wake' = FALSE
        /\ UNCHANGED active /\ UNCHANGED lock /\ UNCHANGED crashes
    BY <1>8 DEF HostCancel
  <2>2. bindingTypes
    BY <2>1, BindingTypes DEF bindingTypes
  <2>3. countTypes
    BY <2>1, Typed DEF countTypes
  <2>4. timerTypes
    BY <2>1, Typed DEF timerTypes
  <2>5. QED
    BY <2>1, <2>2, <2>3, <2>4, StoppingTypes, Untouched DEF TypedStep
<1>9. QED
  BY <1>1, <1>2, <1>4, <1>5, <1>6, <1>7, <1>8 DEF PersonStep

\* The types after a step beside the holder of the lock, a crash or a restart.
LEMMA OtherTypes ==
  ASSUME HostInv,
         \/ \E n \in Nodes : ProcessStep(n) \/ PreparationExpires(n)
         \/ \E l \in Loops : HostBackoffElapses(l)
         \/ Crash \/ Restart
  PROVE  TypedStep
<1>1. ASSUME NEW n \in Nodes, NEW result \in ExecutorResults(n), ProcessExits(n, result)
      PROVE  TypedStep
  <2>1. /\ process' = [process EXCEPT ![n].alive = FALSE, ![n].result = result]
        /\ UNCHANGED binding /\ UNCHANGED <<prepared, active>> /\ UNCHANGED <<wake, crashes>>
        /\ UNCHANGED lock
    BY <1>1 DEF ProcessExits
  <2>2. result \in Reports
    BY DEF ExecutorResults, Reports
  <2>3. \A m \in Nodes : process[m] \in [attempt : Nat, alive : BOOLEAN, stopAsked : BOOLEAN,
                                          result : Reports]
    BY Typed DEF Processes
  <2>4. \A m \in Nodes : process'[m] = IF m = n THEN [process[n] EXCEPT !.alive = FALSE, !.result = result]
                                      ELSE process[m]
    BY <2>1, Typed
  <2>5. /\ [process[n] EXCEPT !.alive = FALSE, !.result = result] \in Processes
        /\ [process[n] EXCEPT !.alive = FALSE, !.result = result].result = result
    BY <2>2, <2>3 DEF Processes
  <2>6. process' \in [Nodes -> Processes]
    BY <2>1, <2>2, Typed DEF Processes
  <2>7. processTypes
    BY <2>4, <2>5, <2>6, Typed DEF processTypes
  <2>8. QED
    BY <2>1, <2>7, Untouched DEF TypedStep
<1>2. ASSUME NEW n \in Nodes, PreparationExpires(n) PROVE TypedStep
  <2>1. /\ binding' = [binding EXCEPT ![n].expired = TRUE]
        /\ UNCHANGED process /\ UNCHANGED <<prepared, active>> /\ UNCHANGED <<wake, crashes>>
        /\ UNCHANGED lock
    BY <1>2 DEF PreparationExpires
  <2>2. \A m \in Nodes : binding[m] \in [phase : Phases, attempt : Nat, expired : BOOLEAN]
    BY Typed DEF Bindings
  <2>3. bindingTypes
    BY <2>1, <2>2, Typed DEF bindingTypes, Bindings
  <2>4. QED
    BY <2>1, <2>3, Untouched DEF TypedStep
<1>3. ASSUME NEW l \in Loops, HostBackoffElapses(l) PROVE TypedStep
  <2>1. /\ UNCHANGED binding /\ UNCHANGED process /\ UNCHANGED <<prepared, active>>
        /\ UNCHANGED <<wake, crashes>> /\ UNCHANGED lock
    BY <1>3 DEF HostBackoffElapses
  <2>2. QED
    BY <2>1, Untouched DEF TypedStep
<1>4. CASE Crash
  <2>1. /\ lock' = [Idle EXCEPT !.at = "down"] /\ crashes < MaxCrashes /\ crashes' = crashes + 1
        /\ prepared' = [n \in Nodes |-> 0] /\ active' = [n \in Nodes |-> 0]
        /\ process' = [n \in Nodes |-> NoProcess] /\ wake' = FALSE /\ UNCHANGED binding
    BY <1>4 DEF Crash
  <2>2. lock' \in Locks /\ lock'.at = "down"
    BY <2>1, LockTypes DEF Locks, Positions
  <2>3. countTypes
    BY <2>1 DEF countTypes
  <2>4. timerTypes
    <3>1. crashes \in 0..MaxCrashes
      BY Typed
    <3>2. crashes + 1 \in 0..MaxCrashes
      BY <2>1, <3>1, HostAssumption
    <3>3. QED
      BY <2>1, <3>2 DEF timerTypes
  <2>5. processTypes
    BY <2>1, NoProcessType DEF processTypes, Processes
  <2>6. QED
    BY <2>1, <2>2, <2>3, <2>4, <2>5, LockPumps, Untouched DEF TypedStep
<1>5. CASE Restart
  <2>1. /\ lock' \in {Idle, pumpLocked} /\ UNCHANGED process /\ UNCHANGED <<prepared, active>>
        /\ UNCHANGED <<wake, crashes>>
        /\ UNCHANGED binding \/ binding' = [n \in Nodes |-> Unbound]
    BY <1>5 DEF Restart
  <2>2. bindingTypes
    BY <2>1, BindingTypes, Untouched DEF bindingTypes
  <2>3. QED
    BY <2>1, <2>2, LockGoesOn, Untouched DEF TypedStep
<1>6. QED
  BY <1>1, <1>2, <1>3, <1>4, <1>5 DEF ProcessStep

\* Every action of the host keeps the types of its state.
LEMMA HostStepIsTyped ==
  ASSUME HostInv, HostNext
  PROVE  TypedStep
<1>1. CASE LockStep
  BY <1>1, PumpTypes, DispatchTypes, LaunchTypes, OtherTypes DEF LockStep
<1>2. CASE PersonStep \/ WakeFires
  BY <1>2, DecisionTypes
<1>3. ASSUME NEW n \in Nodes, CommitCompletion(n) PROVE TypedStep
  BY <1>3, CompletionTypes DEF CommitCompletion
<1>4. QED
  BY <1>1, <1>2, <1>3, OtherTypes DEF HostNext

-----------------------------------------------------------------------------
(* Processes without a handle *)

\* A cancelled run stays cancelled.
LEMMA CancellationStands ==
  ASSUME HostInv, [Next]_rt, rt.cancellationRequested
  PROVE  rt'.cancellationRequested
<1>1. TypeOK /\ rt \in Runtimes
  BY DEF HostInv, Inv, TypeOK
<1>2. CASE UNCHANGED rt
  BY <1>2
<1>3. CASE Next
  <2>1. CASE Preserves(rt, rt')
    BY <2>1 DEF Preserves
  <2>2. ASSUME NEW n \in Nodes, canStartWorkflowNode(rt, n) PROVE FALSE
    BY <1>1, <2>2, ReadyNode
  <2>3. QED
    BY <1>1, <1>3, <2>1, <2>2, NextStep
<1>4. QED
  BY <1>2, <1>3

\* A cancelled run has nothing to dispatch.
LEMMA CancelledRunIsDone ==
  ASSUME NEW r, r.cancellationRequested
  PROVE  runnableNodeIds(r) = {}
<1>1. \A n \in Nodes : evaluateNodeReadiness(r, n) = "not-runnable"
  BY DEF evaluateNodeReadiness, readinessWith
<1>2. {n \in Nodes : evaluateNodeReadiness(r, n) = "ready"} = {}
  BY <1>1
<1>3. QED
  BY <1>2 DEF runnableNodeIds

\* The node has a process and no handle for it.
setAside(n) == process[n] # NoProcess /\ active[n] = 0

\* A step that sets nothing aside, and leaves the bindings of what is set aside alone,
\* keeps it barred.
LEMMA StaysBarred ==
  ASSUME HostInv, [Next]_rt, NEW n \in Nodes,
         setAside(n)' => /\ setAside(n) /\ binding'[n] = binding[n]
                         /\ rt.cancellationRequested => lock'.todo \subseteq lock.todo
  PROVE  barred(n)'
<1>1. barred(n)
  BY DEF HostInv
<1>2. QED
  BY <1>1, CancellationStands DEF barred, setAside

\* What is set aside waits for no approval, is not running and is no gate.
LEMMA SetAside ==
  ASSUME HostInv, NEW n \in Nodes, setAside(n)
  PROVE  binding[n].phase \in {"none", "launching", "failed"} /\ n \notin Gates
<1>1. barred(n) /\ owned(n) /\ held(n)
  BY DEF HostInv, nodeInv
<1>2. binding[n].phase \in {"none", "launching", "failed"}
  BY <1>1 DEF barred, setAside
<1>3. QED
  BY <1>1, <1>2 DEF owned, held, setAside

\* Steps that change at most the binding of a node that is not set aside.
LEMMA BindingIsBarred ==
  ASSUME HostInv, [Next]_rt, UNCHANGED process, UNCHANGED active, NEW x, ~setAside(x),
         \A n \in Nodes : n # x => binding'[n] = binding[n],
         rt.cancellationRequested => lock'.todo \subseteq lock.todo
  PROVE  \A n \in Nodes : barred(n)'
  BY StaysBarred DEF setAside

\* The steps of the pump.
LEMMA PumpKeepsBarred ==
  ASSUME HostInv, [Next]_rt, PumpReconcile \/ PumpRevise \/ PumpSchedule \/ DispatchEnds,
         NEW n \in Nodes
  PROVE  barred(n)'
<1>1. UNCHANGED process /\ UNCHANGED active /\ lock \in Locks
  BY Typed DEF PumpReconcile, PumpRevise, PumpSchedule, DispatchEnds
<1>2. ASSUME UNCHANGED binding, lock'.todo \subseteq lock.todo PROVE barred(n)'
  BY <1>1, <1>2, StaysBarred DEF setAside
<1>3. CASE PumpReconcile
  <2>1. lock'.todo = lock.todo /\ UNCHANGED binding
    BY <1>1, <1>3 DEF PumpReconcile, Locks
  <2>2. QED
    BY <1>2, <2>1
<1>4. CASE PumpRevise
  <2>1. UNCHANGED binding
    BY <1>4 DEF PumpRevise
  <2>2. lock' \in {[lock EXCEPT !.at = "schedule", !.progressed = TRUE],
                   [lock EXCEPT !.at = "schedule"], Idle}
    BY <1>4 DEF PumpRevise
  <2>3. /\ [lock EXCEPT !.at = "schedule", !.progressed = TRUE].todo = lock.todo
        /\ [lock EXCEPT !.at = "schedule"].todo = lock.todo
    BY <1>1 DEF Locks
  <2>4. Idle.todo = {}
    BY DEF Idle
  <2>5. lock'.todo \subseteq lock.todo
    BY <2>2, <2>3, <2>4
  <2>6. QED
    BY <1>2, <2>1, <2>5
<1>5. CASE PumpSchedule
  <2>1. CASE runnableNodeIds(rt') = {}
    <3>1. UNCHANGED binding /\ \E progressed : nextIteration(rt', progressed)
      BY <1>5, <2>1 DEF PumpSchedule
    <3>2. QED
      BY <1>2, <3>1, NextIterationAt
  <2>2. CASE runnableNodeIds(rt') # {}
    <3>1. ~rt.cancellationRequested
      BY <2>2, CancellationStands, CancelledRunIsDone
    <3>2. binding' = [m \in Nodes |-> IF Expired(m) THEN Unbound ELSE binding[m]]
      BY <1>5, <2>2 DEF PumpSchedule
    <3>3. setAside(n) => binding'[n] = binding[n]
      BY <3>2, SetAside DEF Expired
    <3>4. QED
      BY <1>1, <3>1, <3>3, StaysBarred DEF setAside
  <2>3. QED
    BY <2>1, <2>2
<1>6. CASE DispatchEnds
  <2>1. UNCHANGED binding /\ lock'.todo \subseteq lock.todo
    BY <1>6, NextIterationAt DEF DispatchEnds
  <2>2. QED
    BY <1>2, <2>1
<1>7. QED
  BY <1>3, <1>4, <1>5, <1>6

\* Dispatching a node binds it; it has no process.
LEMMA DispatchKeepsBarred ==
  ASSUME HostInv, [Next]_rt, NEW x \in Nodes, DispatchStep(x)
  PROVE  \A n \in Nodes : barred(n)'
<1>1. UNCHANGED process /\ UNCHANGED active /\ lock \in Locks
  BY Typed DEF DispatchStep, DispatchSkips, StartInternalGate, Prepare, PrepareNeedsDelegate,
               PrepareFails
<1>2. CASE DispatchSkips(x)
  <2>1. UNCHANGED binding /\ lock'.todo \subseteq lock.todo
    BY <1>1, <1>2 DEF DispatchSkips, Locks
  <2>2. QED
    BY <1>1, <2>1, StaysBarred DEF setAside
<1>3. CASE ~DispatchSkips(x)
  <2>1. ~setAside(x)
    BY <1>3, DispatchedIsFree
    DEF DispatchStep, StartInternalGate, Prepare, PrepareNeedsDelegate, PrepareFails, Preparing,
        setAside
  <2>2. UNCHANGED binding \/ \E b : binding' = [binding EXCEPT ![x] = b]
    BY <1>3 DEF DispatchStep, StartInternalGate, Prepare, PrepareNeedsDelegate, PrepareFails
  <2>3. \A n \in Nodes : n # x => binding'[n] = binding[n]
    BY <2>2, Typed
  <2>4. \/ lock' = Idle \/ lock' = handled(x)
        \/ \E p : lock' = [lock EXCEPT !.at = p, !.node = x]
        \/ \E S : lock' = [handled(x) EXCEPT !.fresh = S] \/ lock' = [handled(x) EXCEPT !.deferred = S]
    BY <1>3 DEF DispatchStep, StartInternalGate, Prepare, PrepareNeedsDelegate, PrepareFails
  <2>5. handled(x) \in Locks /\ handled(x).todo \subseteq lock.todo
    BY <1>1, LockTypes DEF handled, Locks
  <2>6. lock'.todo \subseteq lock.todo
    <3>1. \A p : [lock EXCEPT !.at = p, !.node = x].todo = lock.todo
      BY <1>1 DEF Locks
    <3>2. \A S : /\ [handled(x) EXCEPT !.fresh = S].todo = handled(x).todo
                 /\ [handled(x) EXCEPT !.deferred = S].todo = handled(x).todo
      BY <2>5 DEF Locks
    <3>3. Idle.todo = {}
      BY DEF Idle
    <3>4. QED
      BY <2>4, <2>5, <3>1, <3>2, <3>3
  <2>7. QED
    BY <1>1, <2>1, <2>3, <2>6, BindingIsBarred
<1>4. QED
  BY <1>2, <1>3

\* A launch that goes on, is given up or is recorded, and the end of the gate.
LEMMA LaunchKeepsBarred ==
  ASSUME HostInv, [Next]_rt,
         \/ CompleteInternalGate \/ LaunchSucceeds \/ LaunchFails
         \/ RecordStarted \/ StartRejected \/ PersistStartedFails
  PROVE  \A n \in Nodes : barred(n)'
<1>0. lock.at \in {"gate", "launch", "launched"} /\ lock \in Locks
  BY Typed DEF CompleteInternalGate, LaunchSucceeds, LaunchFails, RecordStarted,
               StartRejected, PersistStartedFails
<1>1. PICK x \in Nodes : x = lock.node
  BY <1>0 DEF HostInv
<1>2. lock'.todo \subseteq lock.todo
  <2>1. \/ lock' = handled(x) \/ lock' = [lock EXCEPT !.at = "launched"]
        \/ lock' = Idle \/ lock' = pumpLocked
    BY <1>1 DEF CompleteInternalGate, LaunchSucceeds, LaunchFails, RecordStarted,
                StartRejected, PersistStartedFails, afterLaunch
  <2>2. handled(x).todo \subseteq lock.todo /\ [lock EXCEPT !.at = "launched"].todo = lock.todo
    BY <1>0 DEF handled, Locks
  <2>3. Idle.todo = {} /\ pumpLocked.todo = {}
    BY DEF Idle, pumpLocked
  <2>4. QED
    BY <2>1, <2>2, <2>3
<1>3. ASSUME \A m \in Nodes : m # x => UNCHANGED <<binding[m], process[m], active[m]>>,
             NEW n \in Nodes, n # x
      PROVE  barred(n)'
  BY <1>2, <1>3, StaysBarred DEF setAside
<1>4. CASE CompleteInternalGate
  <2>1. lock.at = "gate" /\ UNCHANGED process /\ UNCHANGED active
        /\ binding' = [binding EXCEPT ![x] = Unbound]
    BY <1>1, <1>4 DEF CompleteInternalGate
  <2>2. x \in Gates
    BY <1>1, <2>1 DEF HostInv, nodeInv, held
  <2>3. ~setAside(x)
    BY <1>1, <2>2, SetAside
  <2>4. \A n \in Nodes : n # x => binding'[n] = binding[n]
    BY <2>1, Typed
  <2>5. QED
    BY <1>2, <2>1, <2>3, <2>4, BindingIsBarred
<1>5. CASE LaunchSucceeds \/ LaunchFails \/ StartRejected \/ PersistStartedFails
  <2>1. lock.at \in {"launch", "launched"} /\ UNCHANGED active
    BY <1>5 DEF LaunchSucceeds, LaunchFails, StartRejected, PersistStartedFails
  <2>2. UNCHANGED binding \/ binding' = [binding EXCEPT ![x].phase = "failed"]
    BY <1>1, <1>5 DEF LaunchSucceeds, LaunchFails, StartRejected, PersistStartedFails
  <2>3. \/ UNCHANGED process \/ settledCancellation(x)
        \/ \E p : process' = [process EXCEPT ![x] = p]
    BY <1>1, <1>5 DEF LaunchSucceeds, LaunchFails, StartRejected, PersistStartedFails
  <2>4. binding[x].phase = "launching"
    BY <1>1, <2>1, DuringLaunch DEF Bound
  <2>5. binding'[x].phase \in {"launching", "failed"}
    BY <1>1, <2>2, <2>4, Typed DEF Bindings
  <2>6. \A m \in Nodes : m # x => UNCHANGED <<binding[m], process[m], active[m]>>
    <3>1. \A m \in Nodes : m # x => binding'[m] = binding[m]
      BY <2>2, Typed
    <3>2. \A m \in Nodes : m # x => process'[m] = process[m]
      BY <1>1, <2>3, Typed, SettledProcess
    <3>3. QED
      BY <2>1, <3>1, <3>2
  <2>7. barred(x)'
    BY <2>5 DEF barred
  <2>8. QED
    BY <1>3, <2>6, <2>7
<1>6. CASE RecordStarted
  <2>1. /\ UNCHANGED process /\ binding' = [binding EXCEPT ![x].phase = "running"]
        /\ active' = [active EXCEPT ![x] = rt.attempt[x]]
    BY <1>1, <1>6 DEF RecordStarted
  <2>2. active'[x] # 0
    BY <1>1, <2>1, Typed DEF HostInv, Inv, TypeOK, Runtimes
  <2>3. \A m \in Nodes : m # x => UNCHANGED <<binding[m], process[m], active[m]>>
    BY <2>1, Typed
  <2>4. barred(x)'
    BY <2>2 DEF barred
  <2>5. QED
    BY <1>3, <2>3, <2>4
<1>7. QED
  BY <1>4, <1>5, <1>6

\* A completion ends its process with its handle.
LEMMA CompletionKeepsBarred ==
  ASSUME HostInv, [Next]_rt, NEW x \in Nodes, NEW result, completeLocked(x, result),
         NEW n \in Nodes
  PROVE  barred(n)'
<1>1. /\ active' = [active EXCEPT ![x] = 0] /\ process' = [process EXCEPT ![x] = NoProcess]
      /\ UNCHANGED binding \/ binding' = [binding EXCEPT ![x] = Unbound]
      /\ lock' = Idle \/ lock' = pumpLocked
  BY DEF completeLocked
<1>2. lock'.todo = {}
  BY <1>1 DEF Idle, pumpLocked
<1>3. process'[x] = NoProcess
  BY <1>1, Typed
<1>4. n # x => UNCHANGED <<binding[n], process[n], active[n]>>
  BY <1>1, Typed
<1>5. QED
  BY <1>2, <1>3, <1>4, StaysBarred DEF setAside

\* What the person does, or a timer. Only the cancellation of the run undoes bindings
\* of nodes that are set aside, and then nothing is left to dispatch.
LEMMA DecisionKeepsBarred ==
  ASSUME HostInv, [Next]_rt, PersonStep \/ WakeFires, NEW n \in Nodes
  PROVE  barred(n)'
<1>1. ASSUME UNCHANGED <<binding, active>>, UNCHANGED process \/ stopActive, ThenPump
      PROVE  barred(n)'
  <2>1. lock'.todo = {}
    BY <1>1 DEF ThenPump, pumpLocked, Idle
  <2>2. active[n] = 0 => process'[n] = process[n]
    BY <1>1, StoppingIsCalm
  <2>3. QED
    BY <1>1, <2>1, <2>2, StaysBarred DEF setAside
<1>2. ASSUME NEW x \in Nodes, ApproveNode(x) PROVE barred(n)'
  <2>1. /\ binding[x].phase = "waiting-approval" /\ UNCHANGED process /\ UNCHANGED active
        /\ \/ UNCHANGED binding /\ UNCHANGED lock
           \/ /\ binding' = [binding EXCEPT ![x] = Bound("launching", rt.attempt[x])]
              /\ lock' = [Idle EXCEPT !.at = "launch", !.node = x]
    BY <1>2 DEF ApproveNode, ApprovalMatches
  <2>2. ~setAside(x)
    BY <2>1, SetAside
  <2>3. \A m \in Nodes : m # x => binding'[m] = binding[m]
    BY <2>1, Typed
  <2>4. lock'.todo \subseteq lock.todo
    BY <2>1 DEF Idle
  <2>5. QED
    BY <2>1, <2>2, <2>3, <2>4, BindingIsBarred
<1>3. ASSUME NEW x \in Nodes, NEW result, CancelNode(x, result) PROVE barred(n)'
  BY <1>3, CompletionKeepsBarred DEF CancelNode
<1>4. CASE HostCancel
  <2>1. /\ binding' = [m \in Nodes |-> IF binding[m].phase = "running" THEN binding[m] ELSE Unbound]
        /\ stopActive /\ UNCHANGED active /\ UNCHANGED lock /\ lock.at = "idle"
        /\ CancelExecution
    BY <1>4 DEF HostCancel
  <2>2. lock'.todo = {}
    BY <2>1 DEF HostInv
  <2>3. rt'.cancellationRequested
    <3> DEFINE p == requestWorkflowCancellation(rt)
    <3>1. p \in Runtimes
      BY RequestCancellation DEF HostInv, Inv, TypeOK, Preserves
    <3>2. rt' = [p EXCEPT !.cancellationRequested = TRUE, !.activeLoops = {}]
      BY <2>1 DEF CancelExecution, cancelWorkflowExecution
    <3> HIDE DEF p
    <3>3. QED
      BY <3>1, <3>2 DEF Runtimes
  <2>4. setAside(n)' => setAside(n)
    BY <2>1, StoppingIsCalm DEF setAside
  <2>5. setAside(n) => binding'[n].phase = "none"
    BY <2>1, SetAside DEF Unbound, Bound
  <2>6. QED
    BY <2>2, <2>3, <2>4, <2>5 DEF barred, setAside
<1>5. CASE Poll \/ WakeFires
  BY <1>1, <1>5 DEF Poll, WakeFires
<1>6. ASSUME NEW t \in ApprovalTargets, HostApproveHumanDecision(t) PROVE barred(n)'
  BY <1>1, <1>6 DEF HostApproveHumanDecision
<1>7. ASSUME NEW e, NEW d, HostRecordHumanReview(e, d) PROVE barred(n)'
  BY <1>1, <1>7 DEF HostRecordHumanReview
<1>8. ASSUME NEW l \in Loops, HostCancelEscape(l) \/ HostAcceptEscape(l) PROVE barred(n)'
  BY <1>1, <1>8 DEF HostCancelEscape, HostAcceptEscape
<1>9. QED
  BY <1>2, <1>3, <1>4, <1>5, <1>6, <1>7, <1>8 DEF PersonStep

\* Every step of the host keeps a node barred whose process has no handle.
LEMMA HostStepKeepsBarred ==
  ASSUME HostInv, [Next]_rt, HostNext, NEW n \in Nodes
  PROVE  barred(n)'
<1>1. CASE Restart
  <2>1. lock.at = "down" /\ UNCHANGED process
    BY <1>1 DEF Restart
  <2>2. process[n] = NoProcess
    BY <2>1 DEF HostInv, nodeInv, watched, owned
  <2>3. QED
    BY <2>1, <2>2 DEF barred
<1>2. CASE LockStep
  BY <1>1, <1>2, PumpKeepsBarred, DispatchKeepsBarred, LaunchKeepsBarred DEF LockStep
<1>3. CASE PersonStep \/ WakeFires
  BY <1>3, DecisionKeepsBarred
<1>4. ASSUME NEW x \in Nodes, NEW result, ProcessExits(x, result) PROVE barred(n)'
  <2>1. /\ process[x].alive /\ UNCHANGED <<binding, active, lock>>
        /\ process' = [process EXCEPT ![x].alive = FALSE, ![x].result = result]
    BY <1>4 DEF ProcessExits
  <2>2. process[x] # NoProcess /\ (n # x => process'[n] = process[n])
    BY <2>1, NoProcessType, Typed
  <2>3. QED
    BY <2>1, <2>2, StaysBarred DEF setAside
<1>5. ASSUME NEW x \in Nodes, PreparationExpires(x) PROVE barred(n)'
  <2>1. /\ binding[x].phase = "waiting-approval" /\ UNCHANGED <<process, active, lock>>
        /\ \A m \in Nodes : m # x => binding'[m] = binding[m]
    BY <1>5, Typed DEF PreparationExpires
  <2>2. ~setAside(x)
    BY <2>1, SetAside
  <2>3. QED
    BY <2>1, <2>2, BindingIsBarred
<1>6. ASSUME NEW x \in Nodes, CommitCompletion(x) PROVE barred(n)'
  BY <1>6, CompletionKeepsBarred DEF CommitCompletion
<1>7. ASSUME NEW l \in Loops, HostBackoffElapses(l) PROVE barred(n)'
  <2>1. UNCHANGED <<binding, process, active, lock>>
    BY <1>7 DEF HostBackoffElapses
  <2>2. QED
    BY <2>1, StaysBarred DEF setAside
<1>8. CASE Crash
  <2>1. process'[n] = NoProcess
    BY <1>8 DEF Crash
  <2>2. QED
    BY <2>1 DEF barred
<1>9. QED
  BY <1>2, <1>3, <1>4, <1>5, <1>6, <1>7, <1>8 DEF HostNext, ProcessStep

-----------------------------------------------------------------------------
(* The invariant of the host, and what follows from it *)

\* The host starts with nothing launched and the pump holding the lock.
LEMMA HostInitInv == HostInit => HostInv
<1> SUFFICES ASSUME HostInit PROVE HostInv
  OBVIOUS
<1>1. /\ Init /\ binding = [n \in Nodes |-> Unbound] /\ prepared = [n \in Nodes |-> 0]
      /\ process = [n \in Nodes |-> NoProcess] /\ active = [n \in Nodes |-> 0]
      /\ wake = FALSE /\ lock = pumpLocked /\ crashes = 0
  BY DEF HostInit
<1>2. Inv /\ gateLoops(rt)
  BY <1>1, InitInv, GateLoopsInit
<1>3. lock.at = "reconcile" /\ lock \in Locks
  BY <1>1 DEF pumpLocked, Idle, Locks, Positions
<1>4. Unbound \in Bindings /\ Unbound.phase = "none"
  BY DEF Unbound, Bound, Bindings, Phases
<1>5. hostTypes
  <2>1. crashes \in 0..MaxCrashes
    BY <1>1, HostAssumption
  <2>2. binding \in [Nodes -> Bindings]
    BY <1>1, <1>4
  <2>3. process \in [Nodes -> [attempt : Nat, alive : BOOLEAN, stopAsked : BOOLEAN,
                               result : Reports]]
        /\ \A n \in Nodes : process[n].result \in ExecutorResults(n)
    BY <1>1, NoProcessType
  <2>4. prepared \in [Nodes -> Nat] /\ active \in [Nodes -> Nat] /\ wake \in BOOLEAN
    BY <1>1
  <2>5. QED
    BY <1>3, <2>1, <2>2, <2>3, <2>4 DEF hostTypes, Locks, Bindings
<1>6. \A n \in Nodes : rt.status[n] = "queued"
  BY <1>1 DEF Init, createWorkflowExecutionRuntime
<1>7. ASSUME NEW n \in Nodes PROVE nodeInv(n) /\ barred(n)
  <2>1. /\ active[n] = 0 /\ process[n] = NoProcess /\ binding[n].phase = "none"
        /\ rt.status[n] \notin ActiveStatus
    BY <1>1, <1>4, <1>6 DEF ActiveStatus
  <2>2. QED
    BY <1>3, <2>1 DEF nodeInv, watched, owned, known, held, internal, barred
<1>8. QED
  BY <1>2, <1>3, <1>5, <1>7 DEF HostInv

\* Every step of the host keeps the invariant and is a step of the runtime or none.
LEMMA HostInvNext == HostInv /\ [HostNext]_hostVars => HostInv' /\ [Next]_rt
<1>1. ASSUME HostInv, HostNext PROVE HostInv' /\ [Next]_rt
  <2>1. [Next]_rt /\ \A n \in Nodes : nodeInv(n)'
    BY <1>1, HostStepIsSound DEF Sound
  <2>2. Inv' /\ gateLoops(rt)'
    BY <1>1, <2>1, InvNext, GateLoopsNext DEF HostInv
  <2>3. TypedStep
    BY <1>1, HostStepIsTyped
  <2>4. /\ hostTypes' /\ (lock.at \in {"gate", "launch", "launched"} => lock.node \in Nodes)'
        /\ (lock.at = "idle" => lock.todo = {})'
    BY <2>3 DEF TypedStep, bindingTypes, countTypes, timerTypes, processTypes, lockTypes,
                hostTypes, Bindings, Processes, Locks
  <2>5. \A n \in Nodes : barred(n)'
    BY <1>1, <2>1, HostStepKeepsBarred
  <2>6. QED
    BY <2>1, <2>2, <2>4, <2>5 DEF HostInv
<1>2. ASSUME HostInv, UNCHANGED hostVars PROVE HostInv' /\ [Next]_rt
  <2>1. UNCHANGED <<rt, binding, prepared, process, active, wake, lock, crashes>>
    BY <1>2 DEF hostVars
  <2>2. Inv'
    BY <1>2, <2>1, InvNext DEF HostInv
  <2>3. gateLoops(rt)' /\ hostTypes'
    BY <1>2, <2>1 DEF HostInv, gateLoops, hostTypes
  <2>4. \A n \in Nodes : nodeInv(n)' /\ barred(n)'
    BY <1>2, <2>1 DEF HostInv, nodeInv, watched, owned, known, held, internal, barred
  <2>5. QED
    BY <1>2, <2>1, <2>2, <2>3, <2>4 DEF HostInv
<1>3. QED
  BY <1>1, <1>2

\* Whatever the host interleaves and wherever it dies, its invariant holds.
THEOREM HostInvariance == HostSpec => []HostInv
<1>1. QED
  BY HostInitInv, HostInvNext, PTL DEF HostSpec

\* The stored runtime and bindings, the host's maps and the position of the holder
\* of the lock keep their types (service.ts, the fields of WorkflowHostService).
THEOREM HostTypeCorrect == HostSpec => []HostTypeOK
<1>1. HostInv => HostTypeOK
  <2> SUFFICES ASSUME HostInv PROVE HostTypeOK
    OBVIOUS
  <2>1. \A n \in Nodes : process[n].attempt \in Nat /\ process[n].result \in ExecutorResults(n)
    BY Typed DEF Processes
  <2>2. lock.node \in Nodes \cup {NoNode} /\ lock.todo \cup lock.fresh \cup lock.deferred \subseteq Nodes
    BY Typed DEF Locks
  <2>3. QED
    BY <2>1, <2>2 DEF HostInv, Inv, hostTypes, HostTypeOK
<1>2. QED
  BY <1>1, HostInvariance, PTL

\* No process runs unaccounted for: a live process is being launched right now, or is
\* the watched one of the current attempt of an active node (#active, #launchPrepared),
\* or was asked to stop when its launch was given up, without the host seeing it stop
\* (settledCancellation), and no second one is launched beside it.
THEOREM ProcessesAccountedFor == HostSpec => []EveryProcessIsAccountedFor
<1>1. HostInv => EveryProcessIsAccountedFor
  <2> SUFFICES ASSUME HostInv, NEW n \in Nodes, process[n].alive
               PROVE  \/ lock.at = "launched" /\ lock.node = n
                      \/ /\ rt.status[n] \in ActiveStatus
                         /\ process[n].attempt = rt.attempt[n] /\ active[n] = rt.attempt[n]
                         /\ binding[n] = Bound("running", rt.attempt[n])
                      \/ LeftRunning(n)
    BY DEF EveryProcessIsAccountedFor
  <2>1. watched(n) /\ owned(n) /\ known(n) /\ barred(n)
    BY DEF HostInv, nodeInv
  <2>2. process[n] # NoProcess
    BY NoProcessType
  <2>3. ASSUME active[n] = 0, ~(lock.at = "launched" /\ lock.node = n) PROVE LeftRunning(n)
    <3>1. process[n].stopAsked /\ lock.at # "down" /\ n \notin Gates
      BY <2>1, <2>2, <2>3 DEF owned
    <3>2. rt.status[n] \notin ActiveStatus
      BY <2>1, <2>3, <3>1 DEF known
    <3>3. binding[n].phase \in {"launching", "failed"} \/ rt.cancellationRequested
      BY <2>1, <2>2, <2>3 DEF barred
    <3>4. QED
      BY <2>3, <3>1, <3>2, <3>3 DEF LeftRunning
  <2>4. QED
    BY <2>1, <2>3 DEF watched
<1>2. QED
  BY <1>1, HostInvariance, PTL

\* Every node recorded as active has a watched process of its attempt, unless the
\* program is down or the node is the gate the host completes under the same lock.
THEOREM ActiveNodesWatched == HostSpec => []EveryActiveNodeIsWatched
<1>1. HostInv => EveryActiveNodeIsWatched
  <2> SUFFICES ASSUME HostInv, lock.at # "down", NEW n \in ActiveNodes(rt)
               PROVE  IF n \in Gates THEN lock.at = "gate" /\ lock.node = n
                      ELSE active[n] = rt.attempt[n] /\ process[n].attempt = active[n]
    BY DEF EveryActiveNodeIsWatched
  <2>1. n \in Nodes /\ rt.status[n] \in ActiveStatus
    BY DEF ActiveNodes
  <2>2. watched(n) /\ known(n)
    BY <2>1 DEF HostInv, nodeInv
  <2>3. QED
    BY <2>1, <2>2 DEF watched, known
<1>2. QED
  BY <1>1, HostInvariance, PTL

\* A launch never meets a process, or a handle, of an earlier attempt of its node.
THEOREM LaunchesFindNoProcess == HostSpec => []LaunchFindsNoProcess
<1>1. HostInv => LaunchFindsNoProcess
  BY DuringLaunch DEF LaunchFindsNoProcess
<1>2. QED
  BY <1>1, HostInvariance, PTL

\* The host implements the runtime: it starts in an initial state of the runtime,
\* and each of its steps, in every state it can reach, is a step of the runtime's
\* own state machine or leaves the stored runtime alone.
THEOREM HostRefinesRuntime == HostSpec => HostImplementsRuntime
<1>1. HostInit => Init
  BY DEF HostInit
<1>2. HostSpec => Spec
  BY <1>1, HostInvNext, HostInvariance, PTL DEF HostSpec, Spec
<1>3. QED
  BY <1>2 DEF HostImplementsRuntime

\* So the host inherits what was proved of the runtime: here that no exclusive key is
\* held by two active nodes, however the host interleaves and wherever it dies.
THEOREM HostKeepsKeysExclusive == HostSpec => []ExclusiveKeysHeldOnce
<1>1. HostSpec => Spec
  BY HostRefinesRuntime DEF HostImplementsRuntime
<1>2. QED
  BY <1>1, KeysAreExclusive, PTL
=============================================================================
