------------------------- MODULE WorkflowGateProofs -------------------------
(***************************************************************************)
(* What a step of WorkflowRuntime may do to a node that has ended, and why *)
(* no work is under way behind a gate that has not passed.                 *)
(*                                                                         *)
(* Most operations move nodes forward only: Forward(r, q) is transitive    *)
(* and each operation gets one lemma.  The four steps that do more (the    *)
(* end of a gate, a revision, and the two ways out of an exhausted loop)   *)
(* are followed on their own.  A succeeded gate is never reopened because  *)
(* its loop is over by then: that is GateLoops, the inductive invariant.   *)
(*                                                                         *)
(* The second half proves that a gate that passed keeps standing on its    *)
(* evidence: Keeps(r, q, N, g) says that nothing is lost that gate g rests *)
(* on, PassedKept that the evaluation of the gate then stays as it is, and *)
(* each operation gets a lemma that says for which gates it keeps what     *)
(* they rest on.  Standing is the inductive invariant.                     *)
(***************************************************************************)
EXTENDS WorkflowRuntimeProofs

-----------------------------------------------------------------------------
(* Steps that only go forward *)

\* What has ended stays as it is, no gate succeeds, no attempt or loop changes, and
\* no active node outside X ends.
Forward(r, q, X) ==
  /\ q \in Runtimes
  /\ q.attempt = r.attempt /\ q.loop = r.loop
  /\ \A n \in Nodes : isTerminalRunStatus(r.status[n]) => q.status[n] = r.status[n]
  /\ \A g \in Gates : q.status[g] = "succeeded" => r.status[g] = "succeeded"
  /\ \A n \in Nodes \ X : r.status[n] \in ActiveStatus => q.status[n] \in ActiveStatus

\* Doing nothing goes forward, and so does one forward step after another.
LEMMA ForwardRefl == \A r \in Runtimes : \A X : Forward(r, r, X)
  BY DEF Forward

\* Forward steps compose.
LEMMA ForwardTrans ==
  \A r, p, q, X : Forward(r, p, X) /\ Forward(p, q, X) => Forward(r, q, X)
  BY DEF Forward

\* New statuses for nodes that have not ended.
LEMMA ForwardRuns ==
  ASSUME NEW r \in Runtimes, NEW X, NEW st \in [Nodes -> RunStatus], NEW f \in [Nodes -> FailureCode],
         \A n \in Nodes : isTerminalRunStatus(r.status[n]) => st[n] = r.status[n],
         \A g \in Gates : st[g] = "succeeded" => r.status[g] = "succeeded",
         \A n \in Nodes \ X : r.status[n] \in ActiveStatus => st[n] \in ActiveStatus
  PROVE  /\ Forward(r, replaceRunState(r, st), X)
         /\ Forward(r, [replaceRunState(r, st) EXCEPT !.failureCode = f], X)
<1> DEFINE p == replaceRunState(r, st)
<1>1. p \in Runtimes /\ p.status = st /\ sameRecords(r, p)
  BY ReplaceRunState
<1> HIDE DEF p
<1> DEFINE q == [p EXCEPT !.failureCode = f]
<1>2. q \in Runtimes /\ q.status = st /\ sameRecords(p, q)
  BY <1>1, SetFailureCode
<1> HIDE DEF q
<1>3. Forward(r, p, X) /\ Forward(r, q, X)
  BY <1>1, <1>2 DEF Forward, sameRecords
<1>4. QED
  BY <1>3 DEF p, q

\* One node that has not ended gets a new status.
LEMMA ForwardNode ==
  ASSUME NEW r \in Runtimes, NEW X, NEW n \in Nodes, NEW s \in RunStatus, NEW c \in FailureCode,
         ~isTerminalRunStatus(r.status[n]), n \in Gates => s # "succeeded",
         r.status[n] \in ActiveStatus => n \in X \/ s \in ActiveStatus
  PROVE  Forward(r, setNodeRun(r, n, s, c), X)
<1> DEFINE q == setNodeRun(r, n, s, c)
<1>1. q \in Runtimes /\ q.status = [r.status EXCEPT ![n] = s] /\ sameRecords(r, q)
  BY SetNodeRun
<1> HIDE DEF q
<1>2. Forward(r, q, X)
  BY <1>1 DEF Forward, sameRecords, Runtimes, Gates
<1>3. QED
  BY <1>2 DEF q

\* cancelUnstarted ends nodes nobody has started.
LEMMA ForwardCancelUnstarted ==
  ASSUME NEW r \in Runtimes, NEW X, NEW S
  PROVE  Forward(r, cancelUnstarted(r, S), X)
<1> DEFINE hit == {n \in Nodes : n \in S /\ r.status[n] \in UnstartedStatus}
           st == [n \in Nodes |-> IF n \in hit THEN "cancelled" ELSE r.status[n]]
           f == [n \in Nodes |-> IF n \in hit THEN "none" ELSE r.failureCode[n]]
<1>1. CASE hit = {}
  BY <1>1, ForwardRefl DEF cancelUnstarted
<1>2. CASE hit # {}
  <2>1. st \in [Nodes -> RunStatus] /\ f \in [Nodes -> FailureCode]
    BY DEF Runtimes, RunStatus, FailureCode
  <2>2. /\ \A n \in Nodes : isTerminalRunStatus(r.status[n]) => st[n] = r.status[n]
        /\ \A g \in Gates : st[g] = "succeeded" => r.status[g] = "succeeded"
        /\ \A n \in Nodes \ X : r.status[n] \in ActiveStatus => st[n] \in ActiveStatus
    BY DEF ActiveStatus, UnstartedStatus, isTerminalRunStatus, TerminalStatus, Gates
  <2> HIDE DEF st
  <2>3. replaceRunState(r, st).failureCode = r.failureCode
    BY <2>1, ReplaceRunState
  <2>4. cancelUnstarted(r, S) = [replaceRunState(r, st) EXCEPT !.failureCode = f]
    BY <1>2, <2>3 DEF cancelUnstarted, st
  <2> HIDE DEF f
  <2>5. QED
    BY <2>1, <2>2, <2>4, ForwardRuns
<1>3. QED
  BY <1>1, <1>2

\* settleBlockedWorkflowNodes, whatever set its rounds arrive at.
LEMMA ForwardSettle ==
  ASSUME NEW r \in Runtimes, NEW X
  PROVE  Forward(r, settleBlockedWorkflowNodes(r), X)
  BY ForwardCancelUnstarted DEF settleBlockedWorkflowNodes

\* markWaitingForApprovals moves queued nodes.
LEMMA ForwardMarkWaiting ==
  ASSUME NEW r \in Runtimes, NEW X
  PROVE  Forward(r, markWaitingForApprovals(r), X)
<1> DEFINE st == [n \in Nodes |->
       IF r.status[n] = "queued" /\ evaluateNodeReadiness(r, n) = "waiting-for-approval"
       THEN "waiting-for-approval" ELSE r.status[n]]
<1>1. st \in [Nodes -> RunStatus] /\ r.failureCode \in [Nodes -> FailureCode]
  BY DEF Runtimes, RunStatus
<1>2. /\ \A n \in Nodes : isTerminalRunStatus(r.status[n]) => st[n] = r.status[n]
      /\ \A g \in Gates : st[g] = "succeeded" => r.status[g] = "succeeded"
      /\ \A n \in Nodes \ X : r.status[n] \in ActiveStatus => st[n] \in ActiveStatus
  BY DEF ActiveStatus, isTerminalRunStatus, TerminalStatus, Gates
<1>3. markWaitingForApprovals(r) = replaceRunState(r, st)
  BY DEF markWaitingForApprovals
<1> HIDE DEF st
<1>4. QED
  BY <1>1, <1>2, <1>3, ForwardRuns

\* An update of records that touches no status, attempt or loop.
LEMMA ForwardRecords ==
  ASSUME NEW r \in Runtimes, NEW X, NEW q \in Runtimes, q.status = r.status, q.attempt = r.attempt,
         q.loop = r.loop
  PROVE  Forward(r, q, X)
  BY DEF Forward

\* completeWorkflowNode of an active node that is not a succeeding gate.
LEMMA ForwardComplete ==
  ASSUME NEW r \in Runtimes, NEW X, NEW n \in Nodes, NEW s \in TerminalStatus,
         r.status[n] \in ActiveStatus, n \in X, n \in Gates => s # "succeeded"
  PROVE  Forward(r, completeWorkflowNode(r, n, s), X)
<1>1. ~isTerminalRunStatus(r.status[n])
  BY DEF isTerminalRunStatus, TerminalStatus, ActiveStatus
<1>2. CASE s = "succeeded" /\ DirectReviews(n) # {}
  BY <1>1, <1>2, ForwardNode DEF completeWorkflowNode, RunStatus, FailureCode
<1>3. CASE ~(s = "succeeded" /\ DirectReviews(n) # {})
  <2> DEFINE code == IF s \in {"failed", "lost"} THEN "other" ELSE "none"
             revised == {l \in r.activeLoops : s = "succeeded" /\ LoopOf[l].implementation = n}
             p == setNodeRun(r, n, s, code)
             q == [p EXCEPT !.activeLoops = p.activeLoops \ revised]
  <2>1. Forward(r, p, X)
    BY <1>1, ForwardNode DEF RunStatus, TerminalStatus, FailureCode
  <2>2. p \in Runtimes /\ p.activeLoops \ revised \in SUBSET Loops
    BY <2>1 DEF Forward, Runtimes
  <2>3. completeWorkflowNode(r, n, s) = settleBlockedWorkflowNodes(q)
    BY <1>3 DEF completeWorkflowNode
  <2> HIDE DEF p, revised
  <2>4. q \in Runtimes /\ q.status = p.status /\ q.attempt = p.attempt /\ q.loop = p.loop
    BY <2>2 DEF Runtimes
  <2> HIDE DEF q
  <2>5. Forward(p, q, X)
    BY <2>2, <2>4, ForwardRecords
  <2>6. Forward(q, settleBlockedWorkflowNodes(q), X)
    BY <2>4, ForwardSettle
  <2>7. QED
    BY <2>1, <2>3, <2>5, <2>6, ForwardTrans
<1>4. QED
  BY <1>2, <1>3

\* A launch that failed ends a queued node.
LEMMA ForwardFailBeforeLaunch ==
  ASSUME NEW r \in Runtimes, NEW X, NEW n \in Nodes, r.status[n] = "queued"
  PROVE  Forward(r, failWorkflowNodeBeforeLaunch(r, n), X)
<1> DEFINE q == setNodeRun(r, n, "failed", "other")
<1>1. Forward(r, q, X)
  BY ForwardNode DEF RunStatus, FailureCode, isTerminalRunStatus, TerminalStatus, ActiveStatus
<1> HIDE DEF q
<1>2. Forward(q, settleBlockedWorkflowNodes(q), X)
  BY <1>1, ForwardSettle DEF Forward
<1>3. QED
  BY <1>1, <1>2, ForwardTrans DEF failWorkflowNodeBeforeLaunch, q

\* Evidence reconciled with the current attempts.
LEMMA ForwardReconcile ==
  ASSUME NEW r \in Runtimes, NEW X
  PROVE  Forward(r, reconcile(r), X)
<1> DEFINE p == recordWorkflowContextResolutions(r)
<1>1. p \in Runtimes
  BY ResolveContexts DEF Preserves
<1>2. p.status = r.status /\ p.attempt = r.attempt /\ p.loop = r.loop
  BY DEF recordWorkflowContextResolutions, Runtimes
<1> HIDE DEF p
<1> DEFINE q == reconcilePersistedGateChecks(p)
<1>3. q \in Runtimes
  BY <1>1, ReconcileChecks DEF Preserves
<1>4. q.status = p.status /\ q.attempt = p.attempt /\ q.loop = p.loop
  BY <1>1 DEF reconcilePersistedGateChecks, Runtimes
<1>5. reconcile(r) = q
  BY DEF reconcile, p
<1> HIDE DEF q
<1>6. QED
  BY <1>1, <1>2, <1>3, <1>4, <1>5, ForwardRecords

\* An approval touches no run.
LEMMA ForwardApprove ==
  ASSUME NEW r \in Runtimes, NEW X, NEW t \in ApprovalTargets
  PROVE  Forward(r, approveWorkflowHumanDecision(r, t), X)
<1> DEFINE q == approveWorkflowHumanDecision(r, t)
<1>1. q \in Runtimes
  BY ApproveDecision DEF Preserves
<1>2. q.status = r.status /\ q.attempt = r.attempt /\ q.loop = r.loop
  BY DEF approveWorkflowHumanDecision, Runtimes
<1> HIDE DEF q
<1>3. Forward(r, q, X)
  BY <1>1, <1>2, ForwardRecords
<1>4. QED
  BY <1>3 DEF q

\* A person's review ends the review node, which nobody has started and which is no gate.
LEMMA ForwardDecision ==
  ASSUME NEW r \in Runtimes, NEW X, NEW e \in HumanReviewEdges, NEW d \in {"approved", "changes-requested"},
         r.status[EdgeOf[e].target] \in UnstartedStatus
  PROVE  Forward(r, recordWorkflowHumanReviewDecision(r, e, d), X)
<1> DEFINE n == EdgeOf[e].target
           p == IF d = "approved" THEN setNodeRun(r, n, "succeeded", "none")
                                  ELSE setNodeRun(r, n, "failed", "other")
           x == [decision |-> d, fingerprint |-> approvalRequestUnchecked(r, e)]
           q == [p EXCEPT !.decisions[e] = x]
<1>1. e \in Edges /\ EdgeOf[e].type = "review" /\ n \in Nodes /\ n \notin Gates
  BY CanvasAssumption, ValidCanvas DEF HumanReviewEdges, EdgesOfType, Gates
<1>2. ~isTerminalRunStatus(r.status[n]) /\ r.status[n] \notin ActiveStatus
  BY DEF UnstartedStatus, isTerminalRunStatus, TerminalStatus, ActiveStatus
<1>3. Forward(r, p, X)
  BY <1>1, <1>2, ForwardNode DEF RunStatus, FailureCode
<1>4. recordWorkflowHumanReviewDecision(r, e, d) = settleBlockedWorkflowNodes(q)
  BY DEF recordWorkflowHumanReviewDecision
<1>5. approvalRequestUnchecked(r, e) \in Fingerprints
  BY <1>1, ApprovalRequestType
<1> HIDE DEF p
<1>6. p \in Runtimes
  BY <1>3 DEF Forward
<1>7. q \in Runtimes /\ q.status = p.status /\ q.attempt = p.attempt /\ q.loop = p.loop
  <2> DEFINE D == [p.decisions EXCEPT ![e] = x]
  <2>1. q = [p EXCEPT !.decisions = D]
    OBVIOUS
  <2>2. D \in [Edges -> [decision : {"none", "approved", "changes-requested"},
                         fingerprint : Fingerprints]]
    BY <1>1, <1>5, <1>6 DEF Runtimes
  <2> HIDE DEF D, q
  <2>3. QED
    BY <1>6, <2>1, <2>2 DEF Runtimes
<1> HIDE DEF q
<1>8. Forward(p, q, X) /\ Forward(q, settleBlockedWorkflowNodes(q), X)
  BY <1>6, <1>7, ForwardRecords, ForwardSettle
<1>9. QED
  BY <1>3, <1>4, <1>8, ForwardTrans

\* A direct reviewer that waits for its assessment ends with it.
LEMMA ForwardReview ==
  ASSUME NEW r \in Runtimes, NEW X, NEW n \in Nodes, NEW e \in ReviewEdgesBy(n),
         NEW v \in {"approved", "changes-requested"}, n \in X, n \notin Gates,
         EdgeOf[e].reviewer = "agent" => ~isTerminalRunStatus(r.status[n])
  PROVE  Forward(r, recordWorkflowReview(r, e, v), X)
<1> DEFINE p == storeAssessment(r, e, v)
           q == IF EdgeOf[e].reviewer = "agent" THEN finishReviewer(p, ReviewerOf(e)) ELSE p
<1>1. p \in Runtimes
  BY StoreAssessment DEF Preserves
<1>2. p.status = r.status /\ p.attempt = r.attempt /\ p.loop = r.loop
  BY DEF storeAssessment, Runtimes
<1>3. recordWorkflowReview(r, e, v) = settleBlockedWorkflowNodes(q)
  BY DEF recordWorkflowReview
<1>4. ReviewerOf(e) = n
  BY DEF ReviewEdgesBy
<1> HIDE DEF p
<1>5. Forward(r, p, X)
  BY <1>1, <1>2, ForwardRecords
<1>6. EdgeOf[e].reviewer = "agent" => \A verdicts : Forward(p, assessedReviewer(p, n, verdicts), X)
  BY <1>1, <1>2, ForwardNode, ForwardRefl DEF assessedReviewer, RunStatus, FailureCode
<1>7. Forward(p, q, X)
  BY <1>1, <1>4, <1>6, ForwardRefl DEF finishReviewer
<1> HIDE DEF q
<1>8. Forward(q, settleBlockedWorkflowNodes(q), X)
  BY <1>7, ForwardSettle DEF Forward
<1>9. QED
  BY <1>3, <1>5, <1>7, <1>8, ForwardTrans

\* The completion of an agent, a task or a test, with or without acceptable evidence.
LEMMA ForwardCompletion ==
  ASSUME NEW r \in Runtimes, NEW X, NEW n \in Nodes, NEW result \in ExecutorResults(n),
         r.status[n] \in ActiveStatus, n \in X, n \notin Gates
  PROVE  Forward(r, recordCompletion(r, n, result), X)
<1> DEFINE c == completeWorkflowNode(r, n, result.status)
           a == IF result.status = "succeeded" /\ result.evidence = "full"
                THEN [c EXCEPT !.artifacts[n] = c.attempt[n]] ELSE c
<1>1. result.status \in TerminalStatus /\ result.verdict \in {"approved", "changes-requested"}
  BY DEF ExecutorResults, TerminalStatus
<1>2. Forward(r, c, X) /\ Forward(r, completeWorkflowNode(r, n, "failed"), X)
  BY <1>1, ForwardComplete DEF TerminalStatus
<1>3. ASSUME result.status = "succeeded", DirectReviews(n) # {}
      PROVE  c.status[n] = "waiting-for-approval"
  <2>1. c = setNodeRun(r, n, "waiting-for-approval", "none")
    BY <1>3 DEF completeWorkflowNode
  <2>2. "waiting-for-approval" \in RunStatus /\ "none" \in FailureCode
    BY DEF RunStatus, FailureCode
  <2> HIDE DEF c
  <2>3. c.status = [r.status EXCEPT ![n] = "waiting-for-approval"]
    BY <2>1, <2>2, SetNodeRun
  <2>4. QED
    BY <2>3 DEF Runtimes
<1>4. recordCompletion(r, n, result) = recordCompletionEvidence(r, c, n, result)
  BY DEF recordCompletion
<1> HIDE DEF c
<1>5. c \in Runtimes
  BY <1>2 DEF Forward
<1>6. a \in Runtimes /\ a.status = c.status /\ a.attempt = c.attempt /\ a.loop = c.loop
  <2>1. a \in Runtimes
    BY <1>5, RecordArtifact DEF Preserves
  <2>2. QED
    BY <1>5, <2>1 DEF Runtimes
<1>7. ASSUME NEW x \in Runtimes
      PROVE  LET p == publishCompletionOutputs(x, n, result.evidence) IN
             p \in Runtimes /\ p.status = x.status /\ p.attempt = x.attempt /\ p.loop = x.loop
  <2>1. publishCompletionOutputs(x, n, result.evidence) \in Runtimes
    BY <1>7, PublishOutputs DEF Preserves
  <2>2. QED
    BY <1>7, <2>1 DEF publishCompletionOutputs, Runtimes
<1> DEFINE p == publishCompletionOutputs(c, n, result.evidence)
           b == publishCompletionOutputs(a, n, result.evidence)
           t == recordExactCheckForGates(p, n, result.status)
<1>8. recordTestCompletion(c, n, result) = t
  BY DEF recordTestCompletion
<1>9. recordAgentCompletion(c, n, result) =
        IF result.status = "succeeded" /\ NodeOf[n].type = "agent"
        THEN recordReviewerFinalAssessments(b, n, result.verdict) ELSE b
  BY DEF recordAgentCompletion
<1> HIDE DEF a
<1>10. /\ p \in Runtimes /\ p.status = c.status /\ p.attempt = c.attempt /\ p.loop = c.loop
       /\ b \in Runtimes /\ b.status = c.status /\ b.attempt = c.attempt /\ b.loop = c.loop
  BY <1>5, <1>6, <1>7
<1> HIDE DEF p, b
<1>11. ASSUME n \in Tests PROVE Forward(c, t, X)
  <2>1. t \in Runtimes
    BY <1>1, <1>10, <1>11, RecordExactCheck DEF Preserves
  <2>2. t.status = p.status /\ t.attempt = p.attempt /\ t.loop = p.loop
    BY <1>10 DEF recordExactCheckForGates, Runtimes
  <2> HIDE DEF t
  <2>3. QED
    BY <1>5, <1>10, <2>1, <2>2, ForwardRecords
<1>12. Forward(c, b, X)
  BY <1>5, <1>10, ForwardRecords
<1>13. ASSUME result.status = "succeeded"
       PROVE  Forward(b, recordReviewerFinalAssessments(b, n, result.verdict), X)
  <2>1. CASE ReviewEdgesBy(n) = {}
    BY <1>10, <2>1, ForwardRefl DEF recordReviewerFinalAssessments
  <2>2. CASE ReviewEdgesBy(n) # {}
    <3>1. PICK e \in ReviewEdgesBy(n) :
                 recordReviewerFinalAssessments(b, n, result.verdict)
                   = recordWorkflowReview(b, e, result.verdict)
      BY <2>2 DEF recordReviewerFinalAssessments
    <3>2. EdgeOf[e].reviewer = "agent" => e \in DirectReviews(n)
      BY DEF ReviewEdgesBy, DirectReviews, ReviewerOf
    <3>3. EdgeOf[e].reviewer = "agent" => ~isTerminalRunStatus(b.status[n])
      BY <1>3, <1>10, <1>13, <3>2 DEF isTerminalRunStatus, TerminalStatus
    <3>4. QED
      BY <1>1, <1>10, <3>1, <3>3, ForwardReview
  <2>3. QED
    BY <2>1, <2>2
<1>14. Forward(c, recordAgentCompletion(c, n, result), X)
  BY <1>9, <1>12, <1>13, ForwardTrans
<1>15. QED
  BY <1>2, <1>4, <1>8, <1>11, <1>14, ForwardTrans DEF recordCompletionEvidence
\* A cancellation request leaves ended nodes alone.
LEMMA ForwardRequestCancellation ==
  ASSUME NEW r \in Runtimes, NEW X
  PROVE  Forward(r, requestWorkflowCancellation(r), X)
<1> DEFINE st == [n \in Nodes |-> cancellationStatus(r.status[n])]
           f == [n \in Nodes |-> IF cancellationStatus(r.status[n]) = r.status[n]
                                 THEN r.failureCode[n] ELSE "none"]
<1>1. st \in [Nodes -> RunStatus] /\ f \in [Nodes -> FailureCode]
  BY DEF Runtimes, cancellationStatus, RunStatus, FailureCode
<1>2. /\ \A n \in Nodes : isTerminalRunStatus(r.status[n]) => st[n] = r.status[n]
      /\ \A g \in Gates : st[g] = "succeeded" => r.status[g] = "succeeded"
      /\ \A n \in Nodes \ X : r.status[n] \in ActiveStatus => st[n] \in ActiveStatus
  BY DEF ActiveStatus, TerminalStatus, isTerminalRunStatus, cancellationStatus, Gates
<1> HIDE DEF st
<1>3. replaceRunState(r, st).failureCode = r.failureCode
  BY <1>1, ReplaceRunState
<1>4. requestWorkflowCancellation(r) = [replaceRunState(r, st) EXCEPT !.failureCode = f]
  BY <1>3 DEF requestWorkflowCancellation, st
<1> HIDE DEF f
<1>5. QED
  BY <1>1, <1>2, <1>4, ForwardRuns

\* Cancelling a run: the request, then the flag.
LEMMA ForwardCancelExecution ==
  ASSUME NEW r \in Runtimes, NEW X
  PROVE  Forward(r, cancelWorkflowExecution(r), X)
<1> DEFINE p == requestWorkflowCancellation(r)
           q == [p EXCEPT !.cancellationRequested = TRUE, !.activeLoops = {}]
<1>1. Forward(r, p, X)
  BY ForwardRequestCancellation
<1>2. cancelWorkflowExecution(r) = q
  BY DEF cancelWorkflowExecution
<1> HIDE DEF p
<1>3. p \in Runtimes
  BY <1>1 DEF Forward
<1>4. q \in Runtimes /\ q.status = p.status /\ q.attempt = p.attempt /\ q.loop = p.loop
  BY <1>3 DEF Runtimes
<1> HIDE DEF q
<1>5. Forward(p, q, X)
  BY <1>3, <1>4, ForwardRecords
<1>6. QED
  BY <1>1, <1>2, <1>5, ForwardTrans

\* Recovery after a restart ends active nodes only.
LEMMA ForwardRecover ==
  ASSUME NEW r \in Runtimes, NEW X, Nodes \subseteq X
  PROVE  Forward(r, recoverWorkflowExecution(r), X)
<1> DEFINE st == [n \in Nodes |-> IF n \in ActiveNodes(r) THEN "lost" ELSE r.status[n]]
           f == [n \in Nodes |-> IF n \in ActiveNodes(r) THEN "other" ELSE r.failureCode[n]]
           p == [replaceRunState(r, st) EXCEPT !.failureCode = f]
           q == [p EXCEPT !.activeLoops = {}]
<1>1. st \in [Nodes -> RunStatus] /\ f \in [Nodes -> FailureCode]
  BY DEF Runtimes, RunStatus, FailureCode
<1>2. /\ \A n \in Nodes : isTerminalRunStatus(r.status[n]) => st[n] = r.status[n]
      /\ \A g \in Gates : st[g] = "succeeded" => r.status[g] = "succeeded"
  BY DEF ActiveNodes, ActiveStatus, isTerminalRunStatus, TerminalStatus, Gates
<1> HIDE DEF st
<1>3. replaceRunState(r, st).failureCode = r.failureCode
  BY <1>1, ReplaceRunState
<1>4. recoverWorkflowExecution(r) = settleBlockedWorkflowNodes(q)
  BY <1>3 DEF recoverWorkflowExecution, st
<1> HIDE DEF f
<1>5. Forward(r, p, X)
  BY <1>1, <1>2, ForwardRuns
<1> HIDE DEF p
<1>6. p \in Runtimes
  BY <1>5 DEF Forward
<1>7. q \in Runtimes /\ q.status = p.status /\ q.attempt = p.attempt /\ q.loop = p.loop
  BY <1>6 DEF Runtimes
<1> HIDE DEF q
<1>8. Forward(p, q, X) /\ Forward(q, settleBlockedWorkflowNodes(q), X)
  BY <1>6, <1>7, ForwardRecords, ForwardSettle
<1>9. QED
  BY <1>4, <1>5, <1>8, ForwardTrans

\* Starting a node that has not ended goes forward.
LEMMA ForwardStart ==
  ASSUME NEW r \in Runtimes, NEW X, NEW n \in Nodes, canStartWorkflowNode(r, n)
  PROVE  Forward(r, startWorkflowNode(r, n), X)
  BY ReadyNode, ForwardNode
  DEF ActiveStatus, startWorkflowNode, UnstartedStatus, isTerminalRunStatus, TerminalStatus, RunStatus, FailureCode

-----------------------------------------------------------------------------
(* A gate and its loop *)

\* While a loop may still ask for a revision, or waits for one or for a person,
\* its gate has not succeeded; once a revision or a person is due, it has ended.
gateLoops(r) ==
  \A l \in Loops : LoopOf[l].review \in Gates =>
    /\ r.loop[l].status \in {"revision-required", "waiting-human"} =>
         r.status[LoopOf[l].review] \in TerminalStatus \ {"succeeded"}
    /\ r.loop[l].status = "review-required" => r.status[LoopOf[l].review] # "succeeded"

\* The ways in which a node that has ended may change its status.
endedAsAllowed(r, q) ==
  \A n \in Nodes :
    isTerminalRunStatus(r.status[n]) /\ q.status[n] # r.status[n] =>
      \/ q.status[n] = "queued" /\ q.attempt[n] = r.attempt[n] + 1
      \/ /\ r.status[n] \in {"failed", "lost"} /\ q.status[n] = "cancelled"
         /\ \E l \in Loops : r.loop[l].status = "waiting-human" /\ q.loop[l].status = "cancelled"
      \/ /\ r.status[n] = "failed" /\ q.status[n] = "succeeded"
         /\ \E l \in Loops : /\ LoopOf[l].review = n
                             /\ r.loop[l].status = "waiting-human"
                             /\ q.loop[l].stopCondition = "human-accepted"

\* A gate that succeeded is reopened only as the implementation of a loop.
gatesStayOpen(r, q) ==
  \A g \in Gates : r.status[g] = "succeeded" =>
    q.status[g] = "succeeded" \/ \E l \in Loops : LoopOf[l].implementation = g

\* What every step does to nodes that have ended and to gates.
Respects(r, q) == endedAsAllowed(r, q) /\ gateLoops(q) /\ gatesStayOpen(r, q)

\* Going forward respects all of it.
LEMMA ForwardRespects ==
  ASSUME NEW r \in Runtimes, NEW X, NEW q, Forward(r, q, X), gateLoops(r)
  PROVE  Respects(r, q)
<1>1. endedAsAllowed(r, q)
  BY DEF Forward, endedAsAllowed
<1>2. gatesStayOpen(r, q)
  BY DEF Forward, gatesStayOpen, Gates, isTerminalRunStatus, TerminalStatus
<1>3. gateLoops(q)
  BY DEF Forward, gateLoops, Gates, isTerminalRunStatus
<1>4. QED
  BY <1>1, <1>2, <1>3 DEF Respects

\* Moving one loop respects it when the loop's review is no gate, or when the
\* loop neither waits for a revision, a review nor a person any more.
LEMMA MoveLoopRespects ==
  ASSUME NEW r \in Runtimes, NEW p \in Runtimes, NEW q, NEW l \in Loops, NEW s,
         Respects(r, p), q.status = p.status, q.attempt = p.attempt,
         p.loop = r.loop, q.loop = [p.loop EXCEPT ![l] = s],
         \A n \in Nodes : isTerminalRunStatus(r.status[n]) => p.status[n] = r.status[n],
         LoopOf[l].review \in Gates => s.status \in {"satisfied", "cancelled", r.loop[l].status}
  PROVE  Respects(r, q)
<1>1. endedAsAllowed(r, q)
  BY DEF endedAsAllowed
<1>2. gatesStayOpen(r, q)
  BY DEF Respects, gatesStayOpen
<1>3. ASSUME NEW k \in Loops, LoopOf[k].review \in Gates
      PROVE  q.loop[k].status \in {"satisfied", "cancelled", r.loop[k].status}
  BY <1>3 DEF Runtimes
<1>4. gateLoops(q)
  BY <1>3 DEF Respects, gateLoops
<1>5. QED
  BY <1>1, <1>2, <1>4 DEF Respects

-----------------------------------------------------------------------------
(* The end of a gate *)

\* settleBlockedWorkflowNodes touches no evidence.
LEMMA SettleRecords ==
  ASSUME NEW r \in Runtimes
  PROVE  sameRecords(r, settleBlockedWorkflowNodes(r))
<1>1. ASSUME NEW S PROVE sameRecords(r, cancelUnstarted(r, S))
  <2> DEFINE hit == {n \in Nodes : n \in S /\ r.status[n] \in UnstartedStatus}
             st == [n \in Nodes |-> IF n \in hit THEN "cancelled" ELSE r.status[n]]
             f == [n \in Nodes |-> IF n \in hit THEN "none" ELSE r.failureCode[n]]
             p == replaceRunState(r, st)
  <2>1. CASE hit = {}
    BY <2>1 DEF cancelUnstarted, sameRecords
  <2>2. CASE hit # {}
    <3>1. st \in [Nodes -> RunStatus] /\ f \in [Nodes -> FailureCode]
      BY DEF Runtimes, RunStatus, FailureCode
    <3> HIDE DEF st
    <3>2. p \in Runtimes /\ p.failureCode = r.failureCode /\ sameRecords(r, p)
      BY <3>1, ReplaceRunState
    <3>3. cancelUnstarted(r, S) = [p EXCEPT !.failureCode = f]
      BY <2>2, <3>2 DEF cancelUnstarted, st
    <3> HIDE DEF f, p
    <3>4. sameRecords(p, [p EXCEPT !.failureCode = f])
      BY <3>1, <3>2, SetFailureCode
    <3>5. QED
      BY <3>2, <3>3, <3>4 DEF sameRecords
  <2>3. QED
    BY <2>1, <2>2
<1>2. QED
  BY <1>1 DEF settleBlockedWorkflowNodes

\* No agent reviews in the place of a gate.
LEMMA GateReviewsNothing == \A g \in Gates : g \in Nodes /\ DirectReviews(g) = {}
  BY CanvasAssumption, ValidCanvas DEF Gates, DirectReviews, EdgesOfType

\* What completing a running gate does.
LEMMA GateCompleted ==
  ASSUME NEW r \in Runtimes, NEW g \in Gates, NEW s \in TerminalStatus,
         r.status[g] = "running"
  PROVE  LET q == completeWorkflowNode(r, g, s) IN
         /\ q \in Runtimes /\ q.status[g] = s /\ sameRecords(r, q)
         /\ \A n \in Nodes : isTerminalRunStatus(r.status[n]) => q.status[n] = r.status[n]
         /\ \A h \in Gates \ {g} : q.status[h] = "succeeded" => r.status[h] = "succeeded"
<1> DEFINE code == IF s \in {"failed", "lost"} THEN "other" ELSE "none"
           revised == {l \in r.activeLoops : s = "succeeded" /\ LoopOf[l].implementation = g}
           p == setNodeRun(r, g, s, code)
           A == p.activeLoops \ revised
           x == [p EXCEPT !.activeLoops = A]
           q == settleBlockedWorkflowNodes(x)
<1>1. g \in Nodes /\ DirectReviews(g) = {}
  BY GateReviewsNothing
<1>2. completeWorkflowNode(r, g, s) = q
  BY <1>1 DEF completeWorkflowNode
<1>3. s \in RunStatus /\ code \in FailureCode
  BY DEF TerminalStatus, RunStatus, FailureCode
<1> HIDE DEF code
<1>4. p \in Runtimes /\ p.status = [r.status EXCEPT ![g] = s] /\ sameRecords(r, p)
  BY <1>1, <1>3, SetNodeRun
<1> HIDE DEF p
<1>5. A \in SUBSET Loops
  BY <1>4 DEF Runtimes
<1> HIDE DEF A
<1>6. x \in Runtimes /\ x.status = p.status /\ sameRecords(p, x)
  BY <1>4, <1>5 DEF Runtimes, sameRecords
<1> HIDE DEF x
<1>7. Forward(x, q, {}) /\ sameRecords(x, q)
  BY <1>6, ForwardSettle, SettleRecords
<1> HIDE DEF q
<1>8. q \in Runtimes /\ sameRecords(r, q)
  BY <1>4, <1>6, <1>7 DEF Forward, sameRecords
<1>9. q.status[g] = s
  <2>1. x.status[g] = s
    BY <1>1, <1>4, <1>6 DEF Runtimes
  <2>2. QED
    BY <1>1, <1>7, <2>1 DEF Forward, isTerminalRunStatus
<1>10. ASSUME NEW n \in Nodes, isTerminalRunStatus(r.status[n]) PROVE q.status[n] = r.status[n]
  <2>1. n # g
    BY <1>10 DEF isTerminalRunStatus, TerminalStatus
  <2>2. x.status[n] = r.status[n]
    BY <1>4, <1>6, <2>1 DEF Runtimes
  <2>3. QED
    BY <1>7, <1>10, <2>2 DEF Forward
<1>11. ASSUME NEW h \in Gates \ {g}, q.status[h] = "succeeded" PROVE r.status[h] = "succeeded"
  <2>1. x.status[h] = r.status[h]
    BY <1>4, <1>6, <1>11 DEF Runtimes, Gates
  <2>2. QED
    BY <1>7, <1>11, <2>1 DEF Forward
<1>12. QED
  BY <1>2, <1>8, <1>9, <1>10, <1>11

\* The check results a gate counts are those stored for it, or none.
LEMMA CountedChecks ==
  ASSUME NEW r, NEW g \in Gates, NEW p \in NodeOf[g].checks
  PROVE  currentGateChecks(r, g)[p] \in {r.checks[g][p], NoCheck}
  BY DEF currentGateChecks

\* The verdict a review edge counts is the one stored for it, or none.
LEMMA CountedVerdict ==
  ASSUME NEW r, NEW e
  PROVE  currentReviewerAssessmentForEdge(r, e).verdict \in {r.assessments[e].verdict, "none"}
  BY DEF currentReviewerAssessmentForEdge, AssessmentGiven, NoAssessment

\* A gate that has passed does not fail while its stored evidence stays the same:
\* what is no longer current counts as missing, and missing evidence is pending.
LEMMA PassedDoesNotFail ==
  ASSUME NEW r \in Runtimes, NEW q \in Runtimes, NEW g \in Gates, sameRecords(r, q),
         reviewGateEvaluation(r, g) = "passed"
  PROVE  reviewGateEvaluation(q, g) # "failed"
<1> DEFINE required == NodeOf[g].reviewerAgent # NoNode
<1>1. GateCheckStatuses(r, g) \cap {"failed", "cancelled", "lost", "missing"} = {}
  <2> DEFINE C == GateCheckStatuses(r, g)
             A == GateAssessment(r, g)
             h == hasCurrentHumanApproval(r, g)
  <2>1. evaluateReviewGate(C, required, A, NodeOf[g].humanApproval, h) = "passed"
    BY DEF reviewGateEvaluation
  <2> HIDE DEF C, A, h, required
  <2>2. deterministicStatus(C) \notin {"failed", "pending"}
    BY <2>1 DEF evaluateReviewGate
  <2>3. C \cap {"failed", "cancelled", "lost", "missing"} = {}
    BY <2>2 DEF deterministicStatus
  <2>4. QED
    BY <2>3 DEF C
<1>2. required => GateAssessment(r, g) \notin {"none", "changes-requested"}
  <2> DEFINE C == GateCheckStatuses(r, g)
             A == GateAssessment(r, g)
             h == hasCurrentHumanApproval(r, g)
  <2>1. evaluateReviewGate(C, required, A, NodeOf[g].humanApproval, h) = "passed"
    BY DEF reviewGateEvaluation
  <2> HIDE DEF C, A, h, required
  <2>2. reviewerStatus(required, A) \notin {"failed", "pending"}
    BY <2>1 DEF evaluateReviewGate
  <2>3. required => A \notin {"none", "changes-requested"}
    BY <2>2 DEF reviewerStatus
  <2>4. QED
    BY <2>3 DEF A
<1>3. GateCheckStatuses(q, g) \cap {"failed", "cancelled", "lost"} = {}
  <2> SUFFICES ASSUME NEW p \in NodeOf[g].checks
               PROVE  currentGateChecks(q, g)[p].status \notin {"failed", "cancelled", "lost"}
    BY DEF GateCheckStatuses, Range, currentGateChecks
  <2>1. currentGateChecks(r, g)[p].status \notin {"failed", "cancelled", "lost", "missing"}
    BY <1>1 DEF GateCheckStatuses, Range, currentGateChecks
  <2>2. currentGateChecks(r, g)[p] = r.checks[g][p]
    BY <2>1, CountedChecks DEF NoCheck
  <2>3. currentGateChecks(q, g)[p] \in {r.checks[g][p], NoCheck}
    BY CountedChecks DEF sameRecords
  <2>4. QED
    BY <2>1, <2>2, <2>3 DEF NoCheck
<1>4. required => GateAssessment(q, g) # "changes-requested"
  <2> SUFFICES ASSUME required PROVE GateAssessment(q, g) # "changes-requested"
    OBVIOUS
  <2> DEFINE V(x) == {currentReviewerAssessmentForEdge(x, e).verdict : e \in GateReviewEdges(g)}
  <2>1. \A x : GateAssessment(x, g) = givenVerdict(V(x))
    BY DEF GateAssessment
  <2>2. PICK e \in GateReviewEdges(g) : currentReviewerAssessmentForEdge(r, e).verdict
                                          \notin {"none", "changes-requested"}
    <3>1. \E v \in V(r) : v \notin {"none", "changes-requested"}
      BY <1>2, <2>1 DEF givenVerdict
    <3>2. QED
      BY <3>1
  <2>3. r.assessments[e].verdict # "changes-requested"
    BY <2>2, CountedVerdict
  <2>4. ASSUME NEW x \in GateReviewEdges(g) PROVE x = e
    <3>1. NodeOf[g].reviewerAgent \in Nodes
      BY CanvasAssumption DEF NodeConfig, Gates
    <3>2. e \in ReviewEdgesBy(NodeOf[g].reviewerAgent) /\ x \in ReviewEdgesBy(NodeOf[g].reviewerAgent)
      BY DEF GateReviewEdges, ReviewEdgesBy, ReviewerOf
    <3>3. QED
      BY <3>1, <3>2, SingleReviewAssumption
  <2>5. V(q) \subseteq {r.assessments[e].verdict, "none"}
    BY <2>4, CountedVerdict DEF sameRecords
  <2> HIDE DEF V
  <2>6. givenVerdict(V(q)) \in V(q) \cup {"none"}
    BY DEF givenVerdict
  <2>7. QED
    BY <2>1, <2>3, <2>5, <2>6
<1>5. QED
  <2> DEFINE C == GateCheckStatuses(q, g)
             A == GateAssessment(q, g)
             h == hasCurrentHumanApproval(q, g)
  <2>1. reviewGateEvaluation(q, g) = evaluateReviewGate(C, required, A, NodeOf[g].humanApproval, h)
    BY DEF reviewGateEvaluation
  <2>2. C \cap {"failed", "cancelled", "lost"} = {} /\ (required => A # "changes-requested")
    BY <1>3, <1>4
  <2> HIDE DEF C, A, h, required
  <2>3. deterministicStatus(C) # "failed" /\ reviewerStatus(required, A) # "failed"
    BY <2>2 DEF deterministicStatus, reviewerStatus
  <2>4. QED
    BY <2>1, <2>3 DEF evaluateReviewGate

\* A review outcome moves its loop and nothing else.
LEMMA ReviewApplied ==
  ASSUME NEW r \in Runtimes, NEW l \in Loops
  PROVE  LET q == applyRevisionReview(r, l) IN
         /\ q \in Runtimes /\ q.status = r.status /\ q.attempt = r.attempt
         /\ \E s : /\ q.loop = [r.loop EXCEPT ![l] = s]
                   /\ reviewOutcome(r, l) = "passed" => s.status = "satisfied"
<1> DEFINE met == loopStopConditionMet(r.loop[l], stopConditionMet(r, l))
           failed == loopReviewFailed(LoopOf[l].maximumAttempts, r.loop[l],
                                      NodeOf[LoopOf[l].review].backoff)
           s == IF reviewOutcome(r, l) = "passed" THEN met ELSE failed
           L == [r.loop EXCEPT ![l] = s]
           q == [r EXCEPT !.loop = L]
<1>1. applyRevisionReview(r, l) = q
  BY DEF applyRevisionReview
<1>2. stopConditionMet(r, l) \in StopCondition \cup {"none"}
  BY DEF stopConditionMet, StopCondition
<1>3. s \in LoopStates /\ (reviewOutcome(r, l) = "passed" => s.status = "satisfied")
  BY <1>2, LoopTypes, LoopSteps
<1> HIDE DEF s
<1>4. L \in [Loops -> LoopStates]
  BY <1>3 DEF Runtimes
<1> HIDE DEF L
<1>5. q \in Runtimes /\ q.status = r.status /\ q.attempt = r.attempt /\ q.loop = L
  BY <1>4 DEF Runtimes
<1> HIDE DEF q
<1>6. QED
  BY <1>1, <1>3, <1>5 DEF L

\* No two loops share a review.
LEMMA OneLoopPerReview ==
  \A l, k \in Loops : LoopOf[l].review = LoopOf[k].review => l = k
  BY DisjointLoops DEF RequeuedNodes

\* The end of a gate respects everything if a gate that succeeds leaves its loop
\* closed and no other loop moves.
LEMMA GateEndRespects ==
  ASSUME NEW r \in Runtimes, NEW g \in Gates, r.status[g] = "running", gateLoops(r),
         NEW q, q.status[g] \in TerminalStatus,
         \A n \in Nodes : isTerminalRunStatus(r.status[n]) => q.status[n] = r.status[n],
         \A h \in Gates \ {g} : q.status[h] = "succeeded" => r.status[h] = "succeeded",
         \A k \in Loops : LoopOf[k].review # g => q.loop[k] = r.loop[k],
         q.status[g] = "succeeded" =>
           \A k \in Loops : LoopOf[k].review = g => q.loop[k].status \in {"satisfied", "cancelled"}
  PROVE  Respects(r, q)
<1>1. endedAsAllowed(r, q)
  BY DEF endedAsAllowed
<1>2. gatesStayOpen(r, q)
  BY DEF gatesStayOpen, Gates, isTerminalRunStatus, TerminalStatus
<1>3. gateLoops(q)
  <2> SUFFICES ASSUME NEW k \in Loops, LoopOf[k].review \in Gates
               PROVE  /\ q.loop[k].status \in {"revision-required", "waiting-human"} =>
                           q.status[LoopOf[k].review] \in TerminalStatus \ {"succeeded"}
                      /\ q.loop[k].status = "review-required" => q.status[LoopOf[k].review] # "succeeded"
    BY DEF gateLoops
  <2>1. CASE LoopOf[k].review = g
    BY <2>1
  <2>2. CASE LoopOf[k].review # g
    BY <2>2 DEF gateLoops, Gates, isTerminalRunStatus
  <2>3. QED
    BY <2>1, <2>2
<1>4. QED
  BY <1>1, <1>2, <1>3 DEF Respects

\* The host's own completion of a gate: whichever way it takes, a gate that has
\* succeeded leaves no open loop behind.
LEMMA CompleteGateRespects ==
  ASSUME NEW r \in Runtimes, NEW g \in Gates, r.status[g] = "running", gateLoops(r)
  PROVE  Respects(r, completeInternalReviewGate(r, g))
<1> DEFINE open == OpenLoops(r, g)
           l == CHOOSE k \in open : TRUE
           c == completeWorkflowNode(r, g, "succeeded")
           routed == IF /\ reviewGateEvaluation(r, g) = "failed" /\ Cardinality(open) = 1
                        /\ canApplyRevisionReview(r, l)
                     THEN applyRevisionReview(r, l) ELSE r
           result == completeInternalReviewGate(r, g)
<1>1. \A k \in Loops : LoopOf[k].review = g /\ k \notin open =>
        r.loop[k].status \in {"satisfied", "cancelled"}
  BY LoopTypes DEF OpenLoops, gateLoops, TerminalStatus, LoopStates, LoopStatus
<1>2. open \subseteq Loops /\ \A k \in open : LoopOf[k].review = g
  BY DEF OpenLoops
<1>3. \A k, j \in open : k = j
  BY <1>2, OneLoopPerReview
<1>4. Cardinality(open) = 1 => l \in open
  <2> HIDE DEF open
  <2>1. Cardinality(open) = 1 => open # {}
    BY FS_EmptySet
  <2>2. QED
    BY <2>1
<1>5. Cardinality(open) = 0 => open = {}
  <2> HIDE DEF open
  <2>1. CASE open = {}
    BY <2>1
  <2>2. CASE open # {}
    <3>1. PICK k \in open : TRUE
      BY <2>2
    <3>2. open = {k}
      BY <1>3, <3>1
    <3>3. Cardinality({k}) = 1
      BY FS_Singleton
    <3>4. QED
      BY <3>2, <3>3
  <2>3. QED
    BY <2>1, <2>2
<1>6. \/ /\ reviewGateEvaluation(r, g) = "passed" /\ Cardinality(open) = 0 /\ result = c
      \/ /\ reviewGateEvaluation(r, g) = "passed" /\ Cardinality(open) = 1
         /\ result = closeLoopAfter(r, c, g, l)
      \/ result = completeWorkflowNode(routed, g, "failed")
  BY DEF completeInternalReviewGate
<1>7. "succeeded" \in TerminalStatus /\ "failed" \in TerminalStatus
  BY DEF TerminalStatus
<1>8. /\ c \in Runtimes /\ c.status[g] = "succeeded" /\ sameRecords(r, c)
      /\ \A n \in Nodes : isTerminalRunStatus(r.status[n]) => c.status[n] = r.status[n]
      /\ \A h \in Gates \ {g} : c.status[h] = "succeeded" => r.status[h] = "succeeded"
  BY <1>7, GateCompleted
<1> HIDE DEF open, l, c, result
<1>9. ASSUME NEW p \in Runtimes, p.status = r.status,
             \A k \in Loops : LoopOf[k].review # g => p.loop[k] = r.loop[k]
      PROVE  Respects(r, completeWorkflowNode(p, g, "failed"))
  <2> DEFINE q == completeWorkflowNode(p, g, "failed")
  <2>1. /\ q \in Runtimes /\ q.status[g] = "failed" /\ sameRecords(p, q)
        /\ \A n \in Nodes : isTerminalRunStatus(p.status[n]) => q.status[n] = p.status[n]
        /\ \A h \in Gates \ {g} : q.status[h] = "succeeded" => p.status[h] = "succeeded"
    BY <1>7, <1>9, GateCompleted
  <2> HIDE DEF q
  <2>2. Respects(r, q)
    BY <1>7, <1>9, <2>1, GateEndRespects DEF sameRecords
  <2>3. QED
    BY <2>2 DEF q
<1>10. CASE Cardinality(open) = 0 /\ result = c
  BY <1>1, <1>5, <1>7, <1>8, <1>10, GateEndRespects DEF sameRecords, result
<1>11. CASE /\ reviewGateEvaluation(r, g) = "passed" /\ Cardinality(open) = 1
            /\ result = closeLoopAfter(r, c, g, l)
  <2>1. l \in Loops /\ LoopOf[l].review = g
    BY <1>2, <1>4, <1>11
  <2>2. CASE ~canApplyRevisionReview(c, l)
    BY <1>9, <1>11, <2>2 DEF closeLoopAfter, result
  <2>3. CASE canApplyRevisionReview(c, l)
    <3> DEFINE q == applyRevisionReview(c, l)
    <3>1. result = q
      BY <1>11, <2>3 DEF closeLoopAfter
    <3>2. reviewOutcome(c, l) = "passed"
      <4>1. reviewOutcome(c, l) \in {"passed", "failed"}
        BY <2>3 DEF canApplyRevisionReview, outcomeIsDue
      <4>2. reviewOutcome(c, l) = reviewGateEvaluation(c, g)
        BY <2>1 DEF reviewOutcome
      <4>3. QED
        BY <1>8, <1>11, <4>1, <4>2, PassedDoesNotFail
    <3> HIDE DEF q
    <3>3. PICK s : /\ q \in Runtimes /\ q.status = c.status
                   /\ q.loop = [c.loop EXCEPT ![l] = s] /\ s.status = "satisfied"
      <4>1. c \in Runtimes /\ l \in Loops
        BY <1>8, <2>1
      <4>2. QED
        BY <3>2, <4>1, ReviewApplied DEF q
    <3>4. \A k \in Loops : IF k = l THEN q.loop[k].status = "satisfied" ELSE q.loop[k] = r.loop[k]
      BY <1>8, <3>3 DEF sameRecords, Runtimes
    <3>5. \A k \in Loops : LoopOf[k].review = g => k = l
      BY <2>1, OneLoopPerReview
    <3>6. Respects(r, q)
      <4>1. \A k \in Loops : IF LoopOf[k].review = g THEN q.loop[k].status = "satisfied"
                             ELSE q.loop[k] = r.loop[k]
        BY <2>1, <3>4, <3>5
      <4>2. /\ q.status[g] = "succeeded"
            /\ \A n \in Nodes : isTerminalRunStatus(r.status[n]) => q.status[n] = r.status[n]
            /\ \A h \in Gates \ {g} : q.status[h] = "succeeded" => r.status[h] = "succeeded"
        BY <1>8, <3>3
      <4>3. QED
        BY <1>7, <4>1, <4>2, GateEndRespects
    <3>7. QED
      BY <3>1, <3>6 DEF result
  <2>4. QED
    BY <2>2, <2>3
<1>12. CASE result = completeWorkflowNode(routed, g, "failed")
  <2>1. \/ routed = r
        \/ l \in Loops /\ LoopOf[l].review = g /\ routed = applyRevisionReview(r, l)
    BY <1>2, <1>4
  <2> HIDE DEF routed
  <2>2. CASE routed = r
    BY <1>9, <1>12, <2>2 DEF result
  <2>3. CASE l \in Loops /\ LoopOf[l].review = g /\ routed = applyRevisionReview(r, l)
    <3>1. PICK s : /\ routed \in Runtimes /\ routed.status = r.status
                   /\ routed.loop = [r.loop EXCEPT ![l] = s]
      BY <2>3, ReviewApplied
    <3>2. \A k \in Loops : LoopOf[k].review # g => routed.loop[k] = r.loop[k]
      BY <2>3, <3>1 DEF Runtimes
    <3>3. QED
      BY <1>9, <1>12, <3>1, <3>2 DEF result
  <2>4. QED
    BY <2>1, <2>2, <2>3
<1>13. QED
  BY <1>6, <1>10, <1>11, <1>12

-----------------------------------------------------------------------------
(* Revisions and the ways out of an exhausted loop *)

\* What an additional attempt does to statuses, attempts and loops.
LEMMA AttemptsQueued ==
  ASSUME NEW r \in Runtimes
  PROVE  LET q == queueEligibleRevisionAttempts(r)
             again == AttemptNodes(DueLoops(r)) IN
         /\ q.status = [n \in Nodes |-> IF n \in again THEN "queued" ELSE r.status[n]]
         /\ q.attempt = [n \in Nodes |-> IF n \in again THEN r.attempt[n] + 1 ELSE r.attempt[n]]
         /\ q.loop = [l \in Loops |->
                        IF l \in DueLoops(r)
                        THEN loopRevisionCompleted(LoopOf[l].maximumAttempts, r.loop[l])
                        ELSE r.loop[l]]
<1> DEFINE D == DueLoops(r)
           again == AttemptNodes(D)
           reviews == {LoopOf[l].review : l \in D}
           reviewEdges == {LoopOf[l].reviewEdge : l \in D}
           st == [n \in Nodes |-> IF n \in again THEN "queued" ELSE r.status[n]]
           p == replaceRunState(r, st)
           attempt == [n \in Nodes |-> IF n \in again THEN p.attempt[n] + 1 ELSE p.attempt[n]]
           code == [n \in Nodes |-> IF n \in again THEN "none" ELSE p.failureCode[n]]
           loop == [l \in Loops |-> IF l \in D
                                    THEN loopRevisionCompleted(LoopOf[l].maximumAttempts, p.loop[l])
                                    ELSE p.loop[l]]
           activeLoops == p.activeLoops \cup D
           outputs == [e \in Edges |-> IF producedBy(again, e) THEN 0 ELSE p.outputs[e]]
           contexts == [e \in Edges |-> IF readBy(again, e) THEN 0 ELSE p.contexts[e]]
           artifacts == [n \in Nodes |-> IF n \in again THEN 0 ELSE p.artifacts[n]]
           assessments == [e \in Edges |->
             IF \/ e \in reviewEdges
                \/ producedBy(again, e)
                \/ EdgeOf[e].type = "review" /\ ReviewerOf(e) \in again
             THEN NoAssessment ELSE p.assessments[e]]
           dropped(g) == \/ g \in reviews
                         \/ \E x \in Tests : /\ r.checks[g][x] # NoCheck
                                             /\ x \in again \/ reviewedSourceForGate(g) \in again
           checks == [g \in Gates |-> IF dropped(g) THEN [x \in Tests |-> NoCheck] ELSE p.checks[g]]
           approvals == [t \in Edges \cup Gates |->
             IF \/ t \in reviews \cup reviewEdges
                \/ t \in Edges /\ readBy(again, t)
             THEN NoFingerprint ELSE p.approvals[t]]
           decisions == [e \in Edges |-> IF e \in reviewEdges THEN NoDecision ELSE p.decisions[e]]
           q == [p EXCEPT !.attempt = attempt, !.failureCode = code, !.loop = loop,
                          !.activeLoops = activeLoops, !.outputs = outputs,
                          !.contexts = contexts, !.artifacts = artifacts,
                          !.assessments = assessments, !.checks = checks,
                          !.approvals = approvals, !.decisions = decisions]
<1>1. queueEligibleRevisionAttempts(r) = q
  BY DEF queueEligibleRevisionAttempts, queueRevisionAttempts
<1>2. st \in [Nodes -> RunStatus]
  BY DEF Runtimes, RunStatus
<1>3. p \in Runtimes /\ p.status = st /\ sameRecords(r, p)
  BY <1>2, ReplaceRunState
<1>4. attempt = [n \in Nodes |-> IF n \in again THEN r.attempt[n] + 1 ELSE r.attempt[n]]
  BY <1>3 DEF sameRecords
<1>5. loop = [l \in Loops |-> IF l \in D
                              THEN loopRevisionCompleted(LoopOf[l].maximumAttempts, r.loop[l])
                              ELSE r.loop[l]]
  BY <1>3 DEF sameRecords
<1> HIDE DEF st, p, attempt, code, loop, activeLoops, outputs, contexts, artifacts, assessments,
             checks, approvals, decisions
<1>6. q.status = st /\ q.attempt = attempt /\ q.loop = loop
  BY <1>3 DEF Runtimes
<1> HIDE DEF q
<1>7. QED
  BY <1>1, <1>4, <1>5, <1>6 DEF st

\* A revision reopens the nodes of its loop as a new attempt. The gate among them
\* had ended without success.
LEMMA QueueRevisionsRespects ==
  ASSUME NEW r \in Runtimes, gateLoops(r), loopsWithinAttempts(r)
  PROVE  Respects(r, queueEligibleRevisionAttempts(r))
<1> DEFINE q == queueEligibleRevisionAttempts(r)
           D == DueLoops(r)
           again == AttemptNodes(D)
<1>1. /\ q.status = [n \in Nodes |-> IF n \in again THEN "queued" ELSE r.status[n]]
      /\ q.attempt = [n \in Nodes |-> IF n \in again THEN r.attempt[n] + 1 ELSE r.attempt[n]]
      /\ q.loop = [l \in Loops |->
                     IF l \in D THEN loopRevisionCompleted(LoopOf[l].maximumAttempts, r.loop[l])
                     ELSE r.loop[l]]
  BY AttemptsQueued
<1> HIDE DEF q
<1>2. endedAsAllowed(r, q)
  BY <1>1 DEF endedAsAllowed
<1>3. \A l \in D : l \in Loops /\ r.loop[l].status = "revision-required"
  BY DEF DueLoops, revisionDue
<1>4. \A n \in again : \E l \in D : n \in RequeuedNodes(l)
  BY DEF AttemptNodes
<1> HIDE DEF again, D
<1>5. gatesStayOpen(r, q)
  <2> SUFFICES ASSUME NEW g \in Gates, r.status[g] = "succeeded", q.status[g] # "succeeded"
               PROVE  \E l \in Loops : LoopOf[l].implementation = g
    BY DEF gatesStayOpen
  <2>1. g \in Nodes /\ NodeOf[g].type = "review-gate"
    BY DEF Gates
  <2>2. PICK l \in D : g \in RequeuedNodes(l)
    BY <1>1, <1>4, <2>1
  <2>3. l \in Loops /\ r.loop[l].status = "revision-required" /\ LoopOf[l].review \in Nodes
    BY <1>3, LoopTypes
  <2>4. g # LoopOf[l].review
    BY <2>3 DEF gateLoops
  <2>5. \A p \in NodeOf[LoopOf[l].review].checks : NodeOf[p].type = "test"
    BY <2>3, ValidCanvas
  <2>6. NodeOf[LoopOf[l].review].reviewerAgent # NoNode =>
          NodeOf[NodeOf[LoopOf[l].review].reviewerAgent].type = "agent"
    BY <2>3, ValidCanvas
  <2>7. QED
    BY <2>1, <2>2, <2>3, <2>4, <2>5, <2>6 DEF RequeuedNodes
<1>6. gateLoops(q)
  <2> SUFFICES ASSUME NEW k \in Loops, LoopOf[k].review \in Gates
               PROVE  /\ q.loop[k].status \in {"revision-required", "waiting-human"} =>
                           q.status[LoopOf[k].review] \in TerminalStatus \ {"succeeded"}
                      /\ q.loop[k].status = "review-required" => q.status[LoopOf[k].review] # "succeeded"
    BY DEF gateLoops
  <2> DEFINE g == LoopOf[k].review
  <2>1. g \in Nodes /\ g \in RequeuedNodes(k)
    BY DEF Gates, RequeuedNodes
  <2>2. CASE k \in D
    <3>1. /\ r.loop[k] \in LoopStates /\ LoopOf[k].maximumAttempts \in Nat
          /\ NodeOf[g].backoff \in BOOLEAN
      BY LoopTypes
    <3>2. r.loop[k].attemptsStarted < LoopOf[k].maximumAttempts
      BY <1>3, <2>2 DEF loopsWithinAttempts, withinAttempts
    <3>3. q.loop[k].status = "review-required"
      BY <1>1, <2>2, <3>1, <3>2, LoopSteps
    <3>4. g \in AttemptNodes(D)
      BY <2>1, <2>2 DEF AttemptNodes
    <3>5. q.status[g] = "queued"
      BY <1>1, <2>1, <3>4 DEF again
    <3>6. QED
      BY <3>3, <3>5
  <2>3. CASE k \notin D
    <3>1. g \notin again
      <4> SUFFICES ASSUME g \in again PROVE FALSE
        OBVIOUS
      <4>1. PICK l \in D : g \in RequeuedNodes(l)
        BY <1>4
      <4>2. l \in Loops /\ l # k
        BY <1>3, <2>3, <4>1
      <4>3. QED
        BY <2>1, <4>1, <4>2, DisjointLoops
    <3>2. q.status[g] = r.status[g] /\ q.loop[k] = r.loop[k]
      BY <1>1, <2>1, <2>3, <3>1
    <3>3. QED
      BY <3>2 DEF gateLoops
  <2>4. QED
    BY <2>2, <2>3
<1>7. QED
  BY <1>2, <1>5, <1>6 DEF Respects, q

\* Giving up on an exhausted loop: failures count as cancelled, the loop is closed.
LEMMA CancelEscapeRespects ==
  ASSUME NEW r \in Runtimes, NEW l \in Loops, gateLoops(r), canResolveRevisionEscape(r, l)
  PROVE  Respects(r, cancelRevisionEscape(r, l))
<1> DEFINE p == requestWorkflowCancellation(r)
           st == [n \in Nodes |-> IF p.status[n] \in {"failed", "lost"} THEN "cancelled"
                                  ELSE p.status[n]]
           x == replaceRunState(p, st)
           s == loopHumanAborted(x.loop[l])
           L == [x.loop EXCEPT ![l] = s]
           A == x.activeLoops \ {l}
           q == [x EXCEPT !.loop = L, !.activeLoops = A, !.cancellationRequested = TRUE]
<1>1. Forward(r, p, {})
  BY ForwardRequestCancellation
<1>2. cancelRevisionEscape(r, l) = q
  BY DEF cancelRevisionEscape
<1> HIDE DEF p
<1>3. p \in Runtimes
  BY <1>1 DEF Forward
<1>4. st \in [Nodes -> RunStatus]
  BY <1>3 DEF Runtimes, RunStatus
<1> HIDE DEF st
<1>5. x \in Runtimes /\ x.status = st /\ sameRecords(p, x)
  BY <1>3, <1>4, ReplaceRunState
<1> HIDE DEF x
<1>6. s \in LoopStates /\ s.status = "cancelled"
  BY <1>5, LoopTypes, LoopSteps
<1>7. x.loop = r.loop
  BY <1>1, <1>5 DEF Forward, sameRecords
<1> HIDE DEF s
<1>8. L[l] = s /\ \A k \in Loops : k # l => L[k] = r.loop[k]
  BY <1>5, <1>7 DEF Runtimes
<1> HIDE DEF L, A
<1>9. q.status = st /\ q.loop = L
  BY <1>5 DEF Runtimes
<1> HIDE DEF q
<1>10. endedAsAllowed(r, q)
  <2> SUFFICES ASSUME NEW n \in Nodes, isTerminalRunStatus(r.status[n]), q.status[n] # r.status[n]
               PROVE  /\ r.status[n] \in {"failed", "lost"} /\ q.status[n] = "cancelled"
                      /\ \E k \in Loops : /\ r.loop[k].status = "waiting-human"
                                          /\ q.loop[k].status = "cancelled"
    BY DEF endedAsAllowed
  <2>1. p.status[n] = r.status[n]
    BY <1>1 DEF Forward
  <2>2. r.status[n] \in {"failed", "lost"} /\ q.status[n] = "cancelled"
    BY <1>9, <2>1 DEF st
  <2>3. r.loop[l].status = "waiting-human" /\ q.loop[l].status = "cancelled"
    BY <1>6, <1>8, <1>9 DEF canResolveRevisionEscape
  <2>4. QED
    BY <2>2, <2>3
<1>11. ASSUME NEW g \in Gates
       PROVE  /\ r.status[g] = "succeeded" <=> q.status[g] = "succeeded"
              /\ isTerminalRunStatus(r.status[g]) => isTerminalRunStatus(q.status[g])
  <2>1. g \in Nodes /\ q.status[g] = (IF p.status[g] \in {"failed", "lost"} THEN "cancelled"
                                      ELSE p.status[g])
    BY <1>9 DEF st, Gates
  <2>2. /\ isTerminalRunStatus(r.status[g]) => p.status[g] = r.status[g]
        /\ p.status[g] = "succeeded" => r.status[g] = "succeeded"
    BY <1>1, <2>1 DEF Forward
  <2>3. QED
    BY <2>1, <2>2 DEF isTerminalRunStatus, TerminalStatus
<1>12. gatesStayOpen(r, q)
  BY <1>11 DEF gatesStayOpen
<1>13. gateLoops(q)
  BY <1>6, <1>8, <1>9, <1>11 DEF gateLoops, isTerminalRunStatus
<1>14. QED
  BY <1>2, <1>10, <1>12, <1>13 DEF Respects

\* Accepting the work of an exhausted loop: a gate keeps its failure, a person's
\* own review is overruled, and the loop is closed.
LEMMA AcceptEscapeRespects ==
  ASSUME NEW r \in Runtimes, NEW l \in Loops, gateLoops(r), canAcceptRevisionEscape(r, l)
  PROVE  Respects(r, acceptRevisionEscape(r, l))
<1> DEFINE review == LoopOf[l].review
           p == IF review \in Gates
                THEN IF r.status[review] \in ActiveStatus
                     THEN setNodeRun(r, review, "failed", "other") ELSE r
                ELSE setNodeRun(r, review, "succeeded", "none")
           s == loopStopConditionMet(p.loop[l], "human-accepted")
           L == [p.loop EXCEPT ![l] = s]
           A == p.activeLoops \ {l}
           x == [p EXCEPT !.loop = L, !.activeLoops = A]
           q == settleBlockedWorkflowNodes(x)
<1>1. acceptRevisionEscape(r, l) = q
  BY DEF acceptRevisionEscape
<1>2. review \in Nodes
  BY LoopTypes
<1>3. /\ p \in Runtimes /\ p.loop = r.loop /\ p.attempt = r.attempt
      /\ \A n \in Nodes \ {review} : p.status[n] = r.status[n]
      /\ IF review \notin Gates THEN p.status[review] = "succeeded"
         ELSE p.status[review] = r.status[review] \/ r.status[review] \in ActiveStatus
      /\ review \in Gates /\ p.status[review] = "succeeded" => r.status[review] = "succeeded"
  <2>1. CASE p = r /\ review \in Gates
    BY <2>1
  <2>2. CASE p = setNodeRun(r, review, "failed", "other") /\ review \in Gates
             /\ r.status[review] \in ActiveStatus
    <3>1. "failed" \in RunStatus /\ "other" \in FailureCode
      BY DEF RunStatus, FailureCode
    <3>2. p \in Runtimes /\ p.status = [r.status EXCEPT ![review] = "failed"] /\ sameRecords(r, p)
      BY <1>2, <2>2, <3>1, SetNodeRun
    <3> HIDE DEF p
    <3>3. QED
      BY <1>2, <2>2, <3>2 DEF sameRecords, Runtimes
  <2>3. CASE p = setNodeRun(r, review, "succeeded", "none") /\ review \notin Gates
    <3>1. "succeeded" \in RunStatus /\ "none" \in FailureCode
      BY DEF RunStatus, FailureCode
    <3>2. p \in Runtimes /\ p.status = [r.status EXCEPT ![review] = "succeeded"] /\ sameRecords(r, p)
      BY <1>2, <2>3, <3>1, SetNodeRun
    <3> HIDE DEF p
    <3>3. QED
      BY <1>2, <2>3, <3>2 DEF sameRecords, Runtimes
  <2>4. QED
    BY <2>1, <2>2, <2>3
<1> HIDE DEF p
<1>4. s \in LoopStates /\ s.status = "satisfied"
  BY <1>3, LoopTypes, LoopSteps DEF StopCondition
<1>5. s.stopCondition = "human-accepted"
  BY <1>3, LoopTypes DEF loopStopConditionMet, LoopStates
<1> HIDE DEF s
<1>6. /\ L \in [Loops -> LoopStates] /\ A \in SUBSET Loops
      /\ L[l] = s /\ \A k \in Loops : k # l => L[k] = r.loop[k]
  BY <1>3, <1>4 DEF Runtimes
<1> HIDE DEF L, A
<1>7. x \in Runtimes /\ x.status = p.status /\ x.loop = L
  BY <1>3, <1>6 DEF Runtimes
<1> HIDE DEF x
<1>8. Forward(x, q, {})
  BY <1>7, ForwardSettle
<1> HIDE DEF q
<1>9. q.loop = L
  BY <1>7, <1>8 DEF Forward
<1>10. r.loop[l].status = "waiting-human"
       /\ (review \notin Gates => r.status[review] \in {"succeeded", "failed"})
  BY DEF canAcceptRevisionEscape, canResolveRevisionEscape
<1>11. endedAsAllowed(r, q)
  <2> SUFFICES ASSUME NEW n \in Nodes, isTerminalRunStatus(r.status[n]), q.status[n] # r.status[n]
               PROVE  /\ r.status[n] = "failed" /\ q.status[n] = "succeeded"
                      /\ \E k \in Loops : /\ LoopOf[k].review = n
                                          /\ r.loop[k].status = "waiting-human"
                                          /\ q.loop[k].stopCondition = "human-accepted"
    BY DEF endedAsAllowed
  <2>1. p.status[n] # r.status[n]
    BY <1>7, <1>8 DEF Forward
  <2>2. n = review
    BY <1>3, <2>1
  <2>3. review \notin Gates
    BY <1>3, <2>1, <2>2 DEF isTerminalRunStatus, TerminalStatus, ActiveStatus
  <2>4. p.status[n] = "succeeded" /\ r.status[n] = "failed"
    BY <1>3, <1>10, <2>1, <2>2, <2>3
  <2>5. q.status[n] = "succeeded"
    BY <1>7, <1>8, <2>4 DEF Forward, isTerminalRunStatus, TerminalStatus
  <2>6. QED
    BY <1>5, <1>6, <1>9, <1>10, <2>2, <2>4, <2>5
<1>12. ASSUME NEW g \in Gates
       PROVE  /\ r.status[g] = "succeeded" <=> q.status[g] = "succeeded"
              /\ isTerminalRunStatus(r.status[g]) => q.status[g] = r.status[g]
  <2>1. g \in Nodes
    BY DEF Gates
  <2>2. /\ isTerminalRunStatus(r.status[g]) => p.status[g] = r.status[g]
        /\ p.status[g] = "succeeded" => r.status[g] = "succeeded"
    BY <1>3, <2>1 DEF isTerminalRunStatus, TerminalStatus, ActiveStatus
  <2>3. /\ isTerminalRunStatus(p.status[g]) => q.status[g] = p.status[g]
        /\ q.status[g] = "succeeded" => p.status[g] = "succeeded"
    BY <1>7, <1>8, <2>1 DEF Forward
  <2>4. QED
    BY <2>2, <2>3 DEF isTerminalRunStatus, TerminalStatus
<1>13. gatesStayOpen(r, q)
  BY <1>12 DEF gatesStayOpen
<1>14. gateLoops(q)
  BY <1>4, <1>6, <1>9, <1>12 DEF gateLoops, isTerminalRunStatus
<1>15. QED
  BY <1>1, <1>11, <1>13, <1>14 DEF Respects

-----------------------------------------------------------------------------
(* The steps of the runtime *)

\* Every step respects what has ended and what gates and loops owe each other.
LEMMA NextRespects ==
  ASSUME TypeOK, gateLoops(rt), loopsWithinAttempts(rt), Next
  PROVE  Respects(rt, rt')
<1>1. rt \in Runtimes
  BY DEF TypeOK
<1>2. ASSUME Forward(rt, rt', Nodes) PROVE Respects(rt, rt')
  BY <1>1, <1>2, ForwardRespects
<1>3. CASE ReconcileEvidence
  BY <1>1, <1>2, <1>3, ForwardReconcile DEF ReconcileEvidence
<1>4. CASE UpdateSchedule
  <2> DEFINE p == settleBlockedWorkflowNodes(rt)
  <2>1. Forward(rt, p, Nodes)
    BY <1>1, ForwardSettle
  <2>2. rt' = markWaitingForApprovals(p)
    BY <1>4 DEF UpdateSchedule
  <2> HIDE DEF p
  <2>3. Forward(p, markWaitingForApprovals(p), Nodes)
    BY <2>1, ForwardMarkWaiting DEF Forward
  <2>4. QED
    BY <1>2, <2>1, <2>2, <2>3, ForwardTrans
<1>5. ASSUME NEW n \in Nodes, StartNode(n) PROVE Respects(rt, rt')
  BY <1>1, <1>2, <1>5, ForwardStart DEF StartNode
<1>6. ASSUME NEW n \in Nodes, FailNodeBeforeLaunch(n) PROVE Respects(rt, rt')
  BY <1>1, <1>2, <1>6, ForwardFailBeforeLaunch
  DEF FailNodeBeforeLaunch, canFailWorkflowNodeBeforeLaunch
<1>7. ASSUME NEW n \in Nodes, NEW result \in ExecutorResults(n), CompleteNode(n, result)
      PROVE  Respects(rt, rt')
  BY <1>1, <1>2, <1>7, ForwardCompletion DEF CompleteNode
<1>8. ASSUME NEW g \in Gates, CompleteGate(g) PROVE Respects(rt, rt')
  BY <1>1, <1>8, CompleteGateRespects DEF CompleteGate
<1>9. ASSUME NEW t \in ApprovalTargets, ApproveHumanDecision(t) PROVE Respects(rt, rt')
  BY <1>1, <1>2, <1>9, ForwardApprove DEF ApproveHumanDecision
<1>10. ASSUME NEW e \in HumanReviewEdges, NEW d \in {"approved", "changes-requested"},
              RecordHumanReview(e, d)
       PROVE  Respects(rt, rt')
  <2> DEFINE p == recordWorkflowHumanReviewDecision(rt, e, d)
  <2>1. Forward(rt, p, Nodes)
    BY <1>1, <1>10, ForwardDecision DEF RecordHumanReview, canRecordWorkflowHumanReviewDecision
  <2>2. rt' \in routeHumanReview(p, e)
    BY <1>10 DEF RecordHumanReview
  <2> HIDE DEF p
  <2>3. p \in Runtimes /\ Respects(rt, p)
    BY <1>1, <2>1, ForwardRespects DEF Forward
  <2>4. CASE rt' = p
    BY <2>3, <2>4
  <2>5. ASSUME NEW l \in Loops, LoopOf[l].reviewEdge = e, rt' = applyRevisionReview(p, l)
        PROVE  Respects(rt, rt')
    <3>1. LoopOf[l].review \notin Gates
      BY <2>5, ValidCanvas DEF HumanReviewEdges, EdgesOfType, Gates
    <3> DEFINE q == applyRevisionReview(p, l)
    <3>2. PICK s : /\ q.status = p.status /\ q.attempt = p.attempt
                   /\ q.loop = [p.loop EXCEPT ![l] = s]
      BY <2>3, ReviewApplied
    <3> HIDE DEF q
    <3>3. /\ p.loop = rt.loop
          /\ \A n \in Nodes : isTerminalRunStatus(rt.status[n]) => p.status[n] = rt.status[n]
      BY <2>1 DEF Forward
    <3>4. Respects(rt, q)
      BY <1>1, <2>3, <3>1, <3>2, <3>3, MoveLoopRespects
    <3>5. QED
      BY <2>5, <3>4 DEF q
  <2>6. QED
    BY <2>2, <2>4, <2>5 DEF routeHumanReview
<1>11. CASE QueueRevisions
  BY <1>1, <1>11, QueueRevisionsRespects DEF QueueRevisions
<1>12. ASSUME NEW l \in Loops, CancelEscape(l) PROVE Respects(rt, rt')
  BY <1>1, <1>12, CancelEscapeRespects DEF CancelEscape
<1>13. ASSUME NEW l \in Loops, AcceptEscape(l) PROVE Respects(rt, rt')
  BY <1>1, <1>13, AcceptEscapeRespects DEF AcceptEscape
<1>14. ASSUME NEW l \in Loops, BackoffElapses(l) PROVE Respects(rt, rt')
  <2> DEFINE s == [rt.loop[l] EXCEPT !.backoff = FALSE]
             L == [rt.loop EXCEPT ![l] = s]
  <2>1. rt' = [rt EXCEPT !.loop = L]
    BY <1>1, <1>14 DEF BackoffElapses, Runtimes
  <2>2. s.status = rt.loop[l].status
    BY <1>1, LoopTypes DEF LoopStates
  <2> HIDE DEF s
  <2>3. rt'.status = rt.status /\ rt'.attempt = rt.attempt /\ rt'.loop = L
    BY <1>1, <2>1 DEF Runtimes
  <2>4. Respects(rt, rt)
    BY <1>1, ForwardRefl, ForwardRespects
  <2>5. QED
    BY <1>1, <2>2, <2>3, <2>4, MoveLoopRespects
<1>15. CASE CancelExecution
  BY <1>1, <1>2, <1>15, ForwardCancelExecution DEF CancelExecution
<1>16. CASE RecoverExecution
  BY <1>1, <1>2, <1>16, ForwardRecover DEF RecoverExecution
<1>17. QED
  BY <1>3, <1>4, <1>5, <1>6, <1>7, <1>8, <1>9, <1>10, <1>11, <1>12, <1>13, <1>14, <1>15, <1>16
  DEF Next

\* Initially no loop has moved and no gate has ended.
LEMMA GateLoopsInit == Init => gateLoops(rt)
  BY DEF Init, createWorkflowExecutionRuntime, createRevisionLoopState, gateLoops, Gates

\* Afterwards every step keeps gates and loops in agreement.
LEMMA GateLoopsNext == Inv /\ gateLoops(rt) /\ [Next]_rt => gateLoops(rt)'
<1>1. ASSUME Inv, gateLoops(rt), Next PROVE gateLoops(rt)'
  BY <1>1, NextRespects DEF Inv, LoopIsBounded, loopsWithinAttempts, Respects, gateLoops
<1>2. ASSUME Inv, gateLoops(rt), UNCHANGED rt PROVE gateLoops(rt)'
  BY <1>2 DEF gateLoops
<1>3. QED
  BY <1>1, <1>2

\* So they always agree.
LEMMA GateLoopsAlways == Spec => []gateLoops(rt)
<1>1. QED
  BY GateLoopsInit, GateLoopsNext, Invariance, PTL DEF Spec

\* A node that has ended changes its status only as a new attempt of a revision,
\* when a person gives up on an exhausted loop, or when a person overrules a
\* review that failed: no late completion, recovery or cancellation touches it.
THEOREM EndedNodesStay == Spec => EndedNodesStayEnded
<1> DEFINE A == \A n \in Nodes :
       isTerminalRunStatus(rt.status[n]) /\ rt'.status[n] # rt.status[n] =>
         \/ rt'.status[n] = "queued" /\ rt'.attempt[n] = rt.attempt[n] + 1
         \/ /\ rt.status[n] \in {"failed", "lost"} /\ rt'.status[n] = "cancelled"
            /\ \E l \in Loops : /\ rt.loop[l].status = "waiting-human"
                                /\ rt'.loop[l].status = "cancelled"
         \/ /\ rt.status[n] = "failed" /\ rt'.status[n] = "succeeded"
            /\ \E l \in Loops : /\ LoopOf[l].review = n
                                /\ rt.loop[l].status = "waiting-human"
                                /\ rt'.loop[l].stopCondition = "human-accepted"
<1>1. ASSUME Inv, gateLoops(rt), [Next]_rt PROVE [A]_rt
  <2>1. CASE Next
    BY <1>1, <2>1, NextRespects
    DEF Inv, LoopIsBounded, loopsWithinAttempts, Respects, endedAsAllowed
  <2>2. QED
    BY <1>1, <2>1
<1>2. Spec => [][A]_rt
  BY <1>1, Invariance, GateLoopsAlways, PTL DEF Spec
<1>3. QED
  BY <1>2 DEF EndedNodesStayEnded

-----------------------------------------------------------------------------
(* What a node waits for before it starts *)

\* A node that starts has no incoming edge that blocks it or keeps it waiting.
LEMMA ReadyEdges ==
  ASSUME NEW r \in Runtimes, NEW n \in Nodes, canStartWorkflowNode(r, n), NEW e \in Incoming(n)
  PROVE  evaluateExecutableEdge(r, e) \notin {"blocked", "waiting", "waiting-for-approval"}
<1> DEFINE R == Range(edgeDispositions(r, n))
           own == ownReadiness(r, n)
<1>1. combinedReadiness(R, own) = "ready"
  BY DEF canStartWorkflowNode, evaluateNodeReadiness, readinessWith
<1>2. evaluateExecutableEdge(r, e) \in R
  BY DEF edgeDispositions, Range
<1> HIDE DEF R, own
<1>3. R \cap {"blocked", "waiting", "waiting-for-approval"} = {}
  <2>1. "blocked" \notin R
    BY <1>1 DEF combinedReadiness
  <2>2. "waiting" \notin R
    BY <1>1, <2>1 DEF combinedReadiness
  <2>3. "waiting-for-approval" \notin R
    BY <1>1, <2>1, <2>2 DEF combinedReadiness
  <2>4. QED
    BY <2>1, <2>2, <2>3
<1>4. QED
  BY <1>2, <1>3

\* The status other nodes see is "succeeded" only for a node that has succeeded.
LEMMA SeenSucceeded ==
  ASSUME NEW r, NEW n \in Nodes, canvasNodeStatus(r)[n] = "succeeded"
  PROVE  r.status[n] = "succeeded"
  BY DEF canvasNodeStatus, reviewedStatus

\* What an execute edge that lets its target start has seen.
LEMMA ExecuteSatisfied ==
  ASSUME NEW r \in Runtimes, NEW n \in Nodes, canStartWorkflowNode(r, n),
         NEW e \in Incoming(n), e \in EdgesOfType("execute")
  PROVE  /\ EdgeOf[e].trigger = "on-success" => r.status[EdgeOf[e].source] = "succeeded"
         /\ EdgeOf[e].approval = "human" => hasCurrentHumanApproval(r, e)
         /\ EdgeOf[e].approval = "review-gate" => r.status[EdgeOf[e].gate] = "succeeded"
<1> DEFINE seen == canvasNodeStatus(r)[EdgeOf[e].source]
           verdict == reviewGateEvaluation(r, EdgeOf[e].gate)
<1>1. e \in Edges /\ EdgeOf[e].type = "execute" /\ EdgeOf[e].source \in Nodes
  BY CanvasAssumption DEF EdgesOfType
<1>2. executeDisposition(r, e, seen) \notin {"blocked", "waiting", "waiting-for-approval"}
  <2>1. evaluateExecutableEdge(r, e) = executeDisposition(r, e, seen)
    BY <1>1 DEF evaluateExecutableEdge, edgeDisposition
  <2>2. QED
    BY <2>1, ReadyEdges
<1>3. seen = "succeeded" => r.status[EdgeOf[e].source] = "succeeded"
  BY <1>1, SeenSucceeded
<1> HIDE DEF seen
<1>4. executeTriggered(EdgeOf[e].trigger, seen)
  BY <1>2 DEF executeDisposition
<1>5. EdgeOf[e].approval = "human" => hasCurrentHumanApproval(r, e)
  BY <1>2, <1>4 DEF executeDisposition
<1>6. EdgeOf[e].approval = "review-gate" =>
        gateApprovalDisposition(verdict, r.status[EdgeOf[e].gate])
          \notin {"blocked", "waiting", "waiting-for-approval"}
  BY <1>2, <1>4 DEF executeDisposition
<1> HIDE DEF verdict
<1>7. EdgeOf[e].approval = "review-gate" => r.status[EdgeOf[e].gate] = "succeeded"
  BY <1>6 DEF gateApprovalDisposition
<1>8. QED
  BY <1>3, <1>4, <1>5, <1>7 DEF executeTriggered

\* A node behind a person's approval starts only on an approval given for the
\* current attempt of the work before it: an approval of an earlier attempt has
\* another fingerprint.
THEOREM ApprovalsAreCurrent == Spec => ApprovalIsForCurrentWork
<1> DEFINE A == \A e \in EdgesOfType("execute") :
       LET n == EdgeOf[e].target IN
       /\ EdgeOf[e].approval = "human"
       /\ rt.status[n] # "running" /\ rt'.status[n] = "running"
       => \E run \in rt.approvals[e].runs :
            run[1] = EdgeOf[e].source /\ run[2] = rt.attempt[EdgeOf[e].source]
<1>1. ASSUME Inv, [Next]_rt PROVE [A]_rt
  <2>1. rt \in Runtimes /\ TypeOK
    BY <1>1 DEF Inv, TypeOK
  <2> SUFFICES ASSUME Next, NEW e \in EdgesOfType("execute"), EdgeOf[e].approval = "human",
                      rt.status[EdgeOf[e].target] # "running",
                      rt'.status[EdgeOf[e].target] = "running"
               PROVE  \E run \in rt.approvals[e].runs :
                        run[1] = EdgeOf[e].source /\ run[2] = rt.attempt[EdgeOf[e].source]
    BY <1>1
  <2> DEFINE n == EdgeOf[e].target
             m == EdgeOf[e].source
  <2>2. n \in Nodes /\ e \in Incoming(n)
    BY CanvasAssumption DEF EdgesOfType, Incoming
  <2>3. canStartWorkflowNode(rt, n)
    <3>1. ~Preserves(rt, rt')
      BY <2>2 DEF Preserves, startsNothing
    <3>2. PICK x \in Nodes : canStartWorkflowNode(rt, x) /\ rt' = startWorkflowNode(rt, x)
      BY <2>1, <3>1, NextStep
    <3>3. rt'.status = [rt.status EXCEPT ![x] = "running"]
      BY <2>1, <3>2, SetNodeRun DEF startWorkflowNode, RunStatus, FailureCode
    <3>4. x = n
      BY <2>1, <2>2, <3>3 DEF Runtimes
    <3>5. QED
      BY <3>2, <3>4
  <2>4. rt.approvals[e] = approvalRequestUnchecked(rt, e)
    BY <2>1, <2>2, <2>3, ExecuteSatisfied DEF hasCurrentHumanApproval
  <2>5. <<m, rt.attempt[m], rt.status[m]>> \in rt.approvals[e].runs
    BY <2>4, ValidCanvas DEF approvalRequestUnchecked, EdgesOfType, Gates
  <2>6. QED
    BY <2>5
<1>2. Spec => [][A]_rt
  BY <1>1, Invariance, PTL DEF Spec
<1>3. QED
  BY <1>2 DEF ApprovalIsForCurrentWork

-----------------------------------------------------------------------------
(* Work behind a gate *)

\* Work behind a gate is under way only while the gate stands as passed, on every
\* valid canvas on which no loop revises a gate itself. (Canvas validation does
\* not rule such a loop out; its revision would reopen a gate that has passed.)
THEOREM GatesHold ==
  ASSUME \A l \in Loops : LoopOf[l].implementation \notin Gates
  PROVE  Spec => []NothingRunsBehindAClosedGate
<1>1. Init => NothingRunsBehindAClosedGate
  BY CanvasAssumption DEF Init, createWorkflowExecutionRuntime, NothingRunsBehindAClosedGate,
                          ActiveStatus, EdgesOfType
<1>2. ASSUME Inv, gateLoops(rt), NothingRunsBehindAClosedGate, [Next]_rt
      PROVE  NothingRunsBehindAClosedGate'
  <2>1. rt \in Runtimes /\ TypeOK
    BY <1>2 DEF Inv, TypeOK
  <2>2. CASE UNCHANGED rt
    BY <1>2, <2>2 DEF NothingRunsBehindAClosedGate
  <2>3. CASE Next
    <3> SUFFICES ASSUME NEW e \in EdgesOfType("execute"), EdgeOf[e].trigger = "on-success",
                        rt'.status[EdgeOf[e].target] \in ActiveStatus
                 PROVE  /\ EdgeOf[e].source \in Gates => rt'.status[EdgeOf[e].source] = "succeeded"
                        /\ EdgeOf[e].approval = "review-gate" =>
                             rt'.status[EdgeOf[e].gate] = "succeeded"
      BY DEF NothingRunsBehindAClosedGate
    <3> DEFINE n == EdgeOf[e].target
    <3>1. n \in Nodes /\ e \in Incoming(n)
      BY CanvasAssumption DEF EdgesOfType, Incoming
    <3>2. EdgeOf[e].approval = "review-gate" => EdgeOf[e].gate \in Gates
      BY ValidCanvas DEF EdgesOfType, Gates
    <3>3. \A g \in Gates : rt.status[g] = "succeeded" => rt'.status[g] = "succeeded"
      BY <1>2, <2>1, <2>3, NextRespects
      DEF Inv, LoopIsBounded, loopsWithinAttempts, Respects, gatesStayOpen
    <3>4. /\ EdgeOf[e].source \in Gates => rt.status[EdgeOf[e].source] = "succeeded"
          /\ EdgeOf[e].approval = "review-gate" => rt.status[EdgeOf[e].gate] = "succeeded"
      <4>1. CASE rt.status[n] \in ActiveStatus
        BY <1>2, <4>1 DEF NothingRunsBehindAClosedGate
      <4>2. CASE rt.status[n] \notin ActiveStatus
        <5>1. ~Preserves(rt, rt')
          BY <3>1, <4>2 DEF Preserves, startsNothing
        <5>2. PICK x \in Nodes : canStartWorkflowNode(rt, x) /\ rt' = startWorkflowNode(rt, x)
          BY <2>1, <2>3, <5>1, NextStep
        <5>3. rt'.status = [rt.status EXCEPT ![x] = "running"]
          BY <2>1, <5>2, SetNodeRun DEF startWorkflowNode, RunStatus, FailureCode
        <5>4. x = n
          BY <2>1, <3>1, <4>2, <5>3 DEF Runtimes
        <5>5. QED
          BY <2>1, <3>1, <5>2, <5>4, ExecuteSatisfied
      <4>3. QED
        BY <4>1, <4>2
    <3>5. QED
      BY <3>2, <3>3, <3>4
  <2>4. QED
    BY <1>2, <2>2, <2>3
<1>3. QED
  BY <1>1, <1>2, Invariance, GateLoopsAlways, PTL DEF Spec

-----------------------------------------------------------------------------
(* What others see of a node *)

\* The status others see of a node, given what is seen of the nodes it reviews.
seenGiven(r, f, n) ==
  reviewedStatus(r.status[n],
    {AssessmentGiven(r, e, f[EdgeOf[e].source]).verdict : e \in DirectReviews(n)})

\* The status others see, with its recursion written out.
LEMMA CanvasIs ==
  ASSUME NEW r
  PROVE  LET f == CHOOSE s : s = [n \in Nodes |-> seenGiven(r, s, n)] IN
         canvasNodeStatus(r) = [n \in Nodes |-> IF r.status[n] = "succeeded" THEN f[n] ELSE r.status[n]]
  BY DEF canvasNodeStatus, seenGiven

\* Only whether a source is seen as succeeded matters.
LEMMA GivenSucceeded ==
  ASSUME NEW r, NEW e, NEW s, NEW t, s = "succeeded" <=> t = "succeeded"
  PROVE  AssessmentGiven(r, e, s) = AssessmentGiven(r, e, t)
  BY DEF AssessmentGiven

\* There is always a consistent view.
LEMMA ViewExists ==
  ASSUME NEW r
  PROVE  \E f : f = [n \in Nodes |-> seenGiven(r, f, n)]
<1> DEFINE given(e, S) == AssessmentGiven(r, e, IF EdgeOf[e].source \in S THEN "succeeded" ELSE "none").verdict
           Good(S) == {n \in Nodes : r.status[n] = "succeeded" /\
                                     \A e \in DirectReviews(n) : given(e, S) = "approved"}
           G == UNION {S \in SUBSET Nodes : S \subseteq Good(S)}
           f == [n \in Nodes |-> reviewedStatus(r.status[n], {given(e, G) : e \in DirectReviews(n)})]
<1>1. ASSUME NEW S, NEW T, S \subseteq T PROVE Good(S) \subseteq Good(T)
  <2>1. ASSUME NEW e, given(e, S) = "approved" PROVE given(e, T) = "approved"
    BY <1>1, <2>1 DEF AssessmentGiven, NoAssessment
  <2> HIDE DEF given
  <2>2. QED
    BY <2>1
<1>2. G \subseteq Good(G)
  <2> SUFFICES ASSUME NEW S \in SUBSET Nodes, S \subseteq Good(S), NEW n \in S PROVE n \in Good(G)
    OBVIOUS
  <2>1. S \subseteq G
    OBVIOUS
  <2> HIDE DEF G, Good
  <2>2. QED
    BY <1>1, <2>1
<1>3. Good(G) \subseteq G
  <2>1. Good(G) \subseteq Nodes /\ Good(G) \subseteq Good(Good(G))
    <3>1. Good(G) \subseteq Nodes
      OBVIOUS
    <3> HIDE DEF G, Good
    <3>2. QED
      BY <1>1, <1>2, <3>1
  <2> HIDE DEF Good
  <2>2. QED
    BY <2>1
<1> HIDE DEF G
<1>4. ASSUME NEW n \in Nodes PROVE f[n] = "succeeded" <=> n \in G
  <2> DEFINE V == {given(e, G) : e \in DirectReviews(n)}
  <2>1. f[n] = reviewedStatus(r.status[n], V)
    OBVIOUS
  <2>2. n \in Good(G) <=> r.status[n] = "succeeded" /\ \A v \in V : v = "approved"
    OBVIOUS
  <2> HIDE DEF V, f, Good
  <2>3. reviewedStatus(r.status[n], V) = "succeeded" <=> r.status[n] = "succeeded" /\ \A v \in V : v = "approved"
    <3>1. CASE V = {}
      BY <3>1 DEF reviewedStatus
    <3>2. CASE V # {} /\ \A v \in V : v = "approved"
      <4>1. V = {"approved"}
        BY <3>2
      <4>2. QED
        BY <4>1 DEF reviewedStatus
    <3>3. CASE \E v \in V : v # "approved"
      <4>1. V # {"approved"} /\ V # {}
        BY <3>3
      <4>2. QED
        BY <3>3, <4>1 DEF reviewedStatus
    <3>4. QED
      BY <3>1, <3>2, <3>3
  <2>4. QED
    BY <1>2, <1>3, <2>1, <2>2, <2>3
<1>5. ASSUME NEW n \in Nodes PROVE f[n] = seenGiven(r, f, n)
  <2>1. ASSUME NEW e \in DirectReviews(n)
        PROVE  AssessmentGiven(r, e, f[EdgeOf[e].source]).verdict = given(e, G)
    <3>1. EdgeOf[e].source \in Nodes
      BY <2>1, CanvasAssumption DEF DirectReviews, EdgesOfType
    <3>2. f[EdgeOf[e].source] = "succeeded" <=> EdgeOf[e].source \in G
      BY <1>4, <3>1
    <3> HIDE DEF f
    <3>3. QED
      BY <3>2, GivenSucceeded
  <2>2. {AssessmentGiven(r, e, f[EdgeOf[e].source]).verdict : e \in DirectReviews(n)}
          = {given(e, G) : e \in DirectReviews(n)}
    <3> HIDE DEF f, given
    <3>1. QED
      BY <2>1
  <2>3. QED
    BY <2>2 DEF seenGiven
<1>6. f = [n \in Nodes |-> seenGiven(r, f, n)]
  <2> HIDE DEF given
  <2>1. QED
    BY <1>5
<1>7. QED
  BY <1>6

\* The status others see of a node follows from what is seen of the nodes it
\* reviews.
LEMMA CanvasUnfolds ==
  ASSUME NEW r, NEW n \in Nodes
  PROVE  canvasNodeStatus(r)[n] = seenGiven(r, canvasNodeStatus(r), n)
<1> DEFINE f == CHOOSE s : s = [m \in Nodes |-> seenGiven(r, s, m)]
           c == canvasNodeStatus(r)
<1>1. f = [m \in Nodes |-> seenGiven(r, f, m)]
  BY ViewExists
<1>2. c = [m \in Nodes |-> IF r.status[m] = "succeeded" THEN f[m] ELSE r.status[m]]
  BY CanvasIs
<1> HIDE DEF f, c
<1>3. ASSUME NEW e \in DirectReviews(n)
      PROVE  AssessmentGiven(r, e, f[EdgeOf[e].source]) = AssessmentGiven(r, e, c[EdgeOf[e].source])
  <2> DEFINE m == EdgeOf[e].source
  <2>1. m \in Nodes
    BY <1>3, CanvasAssumption DEF DirectReviews, EdgesOfType
  <2>2. CASE r.status[m] = "succeeded"
    BY <1>2, <2>1, <2>2
  <2>3. CASE r.status[m] # "succeeded"
    BY <2>3 DEF AssessmentGiven
  <2>4. QED
    BY <2>2, <2>3
<1>4. seenGiven(r, f, n) = seenGiven(r, c, n)
  <2>1. {AssessmentGiven(r, e, f[EdgeOf[e].source]).verdict : e \in DirectReviews(n)}
          = {AssessmentGiven(r, e, c[EdgeOf[e].source]).verdict : e \in DirectReviews(n)}
    BY <1>3
  <2>2. QED
    BY <2>1 DEF seenGiven
<1>5. CASE r.status[n] = "succeeded"
  BY <1>1, <1>2, <1>4, <1>5 DEF c
<1>6. CASE r.status[n] # "succeeded"
  BY <1>2, <1>6 DEF seenGiven, reviewedStatus, c
<1>7. QED
  BY <1>5, <1>6

\* A node is seen as succeeded when it has succeeded and every review it gave
\* directly approves.
LEMMA SeenAsSucceeded ==
  ASSUME NEW r, NEW n \in Nodes
  PROVE  canvasNodeStatus(r)[n] = "succeeded" <=>
           /\ r.status[n] = "succeeded"
           /\ \A e \in DirectReviews(n) :
                currentReviewerAssessmentForEdge(r, e).verdict = "approved"
<1> DEFINE V == {currentReviewerAssessmentForEdge(r, e).verdict : e \in DirectReviews(n)}
<1>1. canvasNodeStatus(r)[n] = reviewedStatus(r.status[n], V)
  BY CanvasUnfolds DEF seenGiven, currentReviewerAssessmentForEdge
<1>2. (\A v \in V : v = "approved") <=>
        \A e \in DirectReviews(n) : currentReviewerAssessmentForEdge(r, e).verdict = "approved"
  OBVIOUS
<1> HIDE DEF V
<1>3. CASE V = {}
  BY <1>1, <1>2, <1>3 DEF reviewedStatus
<1>4. CASE V # {} /\ \A v \in V : v = "approved"
  <2>1. V = {"approved"}
    BY <1>4
  <2>2. QED
    BY <1>1, <1>2, <2>1 DEF reviewedStatus
<1>5. CASE \E v \in V : v # "approved"
  <2>1. V # {"approved"} /\ V # {}
    BY <1>5
  <2>2. QED
    BY <1>1, <1>2, <1>5, <2>1 DEF reviewedStatus
<1>6. QED
  BY <1>3, <1>4, <1>5

-----------------------------------------------------------------------------
(* What a gate rests on *)

\* The nodes a gate rests on hold what basisOf asks for.
LEMMA EvidenceNodesBasis ==
  ASSUME NEW g \in Gates
  PROVE  EvidenceNodes(g) \subseteq Nodes /\ basisOf(g, EvidenceNodes(g))
<1> DEFINE B == EvidenceNodes(g)
<1>1. g \in Nodes /\ NodeOf[g] \in NodeConfig
  BY CanvasAssumption DEF Gates
<1>2. NodeOf[g].checks \subseteq Nodes /\ NodeOf[g].reviewerAgent \in Nodes \cup {NoNode}
  BY <1>1 DEF NodeConfig
<1>3. reviewedSourceIdsForGate(g) \subseteq Nodes
  BY ReviewedNodes
<1>4. B \subseteq Nodes
  BY DEF EvidenceNodes
<1>5. reviewedSourceIdsForGate(g) \subseteq B /\ NodeOf[g].checks \subseteq B
      /\ NodeOf[g].reviewerAgent \in B \cup {NoNode}
  <2>1. ASSUME NEW n \in Nodes, \A S \in SUBSET Nodes : basisOf(g, S) => n \in S PROVE n \in B
    BY <2>1 DEF EvidenceNodes
  <2> HIDE DEF B
  <2>2. QED
    BY <1>2, <1>3, <2>1, CanvasAssumption DEF basisOf
<1>6. ASSUME NEW n \in B, NEW e \in DirectReviews(n) PROVE EdgeOf[e].source \in B
  <2>1. EdgeOf[e].source \in Nodes
    BY <1>6, CanvasAssumption DEF DirectReviews, EdgesOfType
  <2>2. ASSUME NEW S \in SUBSET Nodes, basisOf(g, S) PROVE EdgeOf[e].source \in S
    <3>1. n \in S
      BY <1>6, <2>2 DEF EvidenceNodes
    <3>2. QED
      BY <1>6, <2>2, <3>1 DEF basisOf
  <2>3. QED
    BY <2>1, <2>2 DEF EvidenceNodes
<1>7. QED
  BY <1>4, <1>5, <1>6 DEF basisOf

\* From r to q nothing is lost that was known of the nodes N that had succeeded, and
\* nothing changes that is recorded for gate g.
Keeps(r, q, N, g) ==
  /\ \A n \in N : r.status[n] = "succeeded" =>
       /\ q.status[n] = "succeeded" /\ q.attempt[n] = r.attempt[n]
       /\ q.artifacts[n] = r.artifacts[n]
  /\ \A e \in EdgesOfType("output") :
       EdgeOf[e].source \in N /\ r.status[EdgeOf[e].source] = "succeeded" =>
         q.outputs[e] = r.outputs[e]
  /\ \A e \in EdgesOfType("review") :
       /\ EdgeOf[e].source \in N /\ ReviewerOf(e) \in N
       /\ r.status[ReviewerOf(e)] = "succeeded"
       => q.assessments[e] = r.assessments[e]
  /\ q.attempt[g] = r.attempt[g] /\ q.checks[g] = r.checks[g] /\ q.approvals[g] = r.approvals[g]
  /\ \A e \in EdgesOfType("context") : EdgeOf[e].target = g => q.contexts[e] = r.contexts[e]

\* A counted assessment of a reviewer that has succeeded is counted as long as both
\* ends are kept and the node reviewed is still seen as succeeded.
LEMMA AssessmentKept ==
  ASSUME NEW r, NEW q, NEW N \in SUBSET Nodes, NEW g, Keeps(r, q, N, g),
         NEW e \in EdgesOfType("review"), EdgeOf[e].source \in N, ReviewerOf(e) \in N,
         r.status[ReviewerOf(e)] = "succeeded",
         currentReviewerAssessmentForEdge(r, e).verdict # "none",
         canvasNodeStatus(r)[EdgeOf[e].source] = "succeeded" =>
           canvasNodeStatus(q)[EdgeOf[e].source] = "succeeded"
  PROVE  /\ currentReviewerAssessmentForEdge(r, e) = r.assessments[e]
         /\ currentReviewerAssessmentForEdge(q, e) = r.assessments[e]
<1> DEFINE a == r.assessments[e]
           m == EdgeOf[e].source
           v == ReviewerOf(e)
<1>1. /\ a.verdict # "none" /\ v # NoNode /\ a.reviewerAttempt = r.attempt[v]
      /\ r.status[m] = "succeeded" /\ canvasNodeStatus(r)[m] = "succeeded"
      /\ a.reviewedAttempt = r.attempt[m] /\ r.artifacts[m] \in {0, r.attempt[m]}
  BY DEF currentReviewerAssessmentForEdge, AssessmentGiven, NoAssessment
<1>2. /\ q.assessments[e] = a /\ q.status[v] = "succeeded" /\ q.attempt[v] = r.attempt[v]
      /\ q.status[m] = "succeeded" /\ q.attempt[m] = r.attempt[m]
      /\ q.artifacts[m] = r.artifacts[m] /\ canvasNodeStatus(q)[m] = "succeeded"
  BY <1>1 DEF Keeps
<1>3. QED
  BY <1>1, <1>2 DEF currentReviewerAssessmentForEdge, AssessmentGiven

\* What is seen as succeeded is still seen so.
LEMMA CanvasKept ==
  ASSUME AcyclicReviews, NEW r, NEW q, NEW N \in SUBSET Nodes, NEW g, Keeps(r, q, N, g),
         \A n \in N : \A e \in DirectReviews(n) : EdgeOf[e].source \in N,
         NEW n \in N, canvasNodeStatus(r)[n] = "succeeded"
  PROVE  canvasNodeStatus(q)[n] = "succeeded"
<1>1. PICK rank \in [Nodes -> Nat] :
             \A m \in Nodes : \A e \in DirectReviews(m) : rank[EdgeOf[e].source] < rank[m]
  BY DEF AcyclicReviews, reviewsDescend
<1> DEFINE Lost == {m \in N : canvasNodeStatus(r)[m] = "succeeded" /\ canvasNodeStatus(q)[m] # "succeeded"}
           R == {rank[m] : m \in Lost}
<1>2. SUFFICES ASSUME Lost # {} PROVE FALSE
  OBVIOUS
<1>3. R \in SUBSET Nat /\ R # {}
  BY <1>1, <1>2
<1>4. PICK k \in R : \A j \in R : k <= j
  <2> HIDE DEF R
  <2>1. QED
    BY <1>3, LeastNumber
<1>5. PICK m \in Lost : \A x \in Lost : rank[m] <= rank[x]
  BY <1>4
<1>6. m \in Nodes /\ r.status[m] = "succeeded"
      /\ \A e \in DirectReviews(m) : currentReviewerAssessmentForEdge(r, e).verdict = "approved"
  BY <1>5, SeenAsSucceeded
<1>7. q.status[m] = "succeeded"
  BY <1>5, <1>6 DEF Keeps
<1>8. ASSUME NEW e \in DirectReviews(m)
      PROVE  currentReviewerAssessmentForEdge(q, e).verdict = "approved"
  <2> DEFINE x == EdgeOf[e].source
  <2>1. e \in EdgesOfType("review") /\ ReviewerOf(e) = m
    BY DEF DirectReviews, ReviewerOf
  <2>2. x \in N /\ x \in Nodes /\ rank[x] < rank[m]
    BY <1>1, <1>5, <1>6, <1>8
  <2>3. x \notin Lost
    <3>1. rank[x] \in Nat /\ rank[m] \in Nat
      BY <1>1, <1>6, <2>2
    <3> HIDE DEF Lost
    <3>2. QED
      BY <1>5, <2>2, <3>1
  <2>4. currentReviewerAssessmentForEdge(r, e).verdict = "approved"
    BY <1>6, <1>8
  <2>5. m \in N
    BY <1>5
  <2>6. canvasNodeStatus(r)[x] = "succeeded" => canvasNodeStatus(q)[x] = "succeeded"
    BY <2>2, <2>3
  <2> HIDE DEF Lost
  <2>7. currentReviewerAssessmentForEdge(q, e) = currentReviewerAssessmentForEdge(r, e)
    BY <1>6, <2>1, <2>2, <2>4, <2>5, <2>6, AssessmentKept
  <2>8. QED
    BY <2>4, <2>7
<1>9. canvasNodeStatus(q)[m] = "succeeded"
  BY <1>6, <1>7, <1>8, SeenAsSucceeded
<1>10. QED
  BY <1>5, <1>9

-----------------------------------------------------------------------------
(* A gate keeps standing while nothing it rests on is lost *)

\* A reviewer whose assessment for a gate is stored has succeeded.
assessedReviewers(r) ==
  \A e \in EdgesOfType("review") :
    EdgeOf[e].reviewer = "gate" /\ r.assessments[e].verdict # "none" =>
      ReviewerOf(e) \in Nodes /\ r.status[ReviewerOf(e)] = "succeeded"

\* What a gate needs to pass.
LEMMA PassedParts ==
  ASSUME NEW r, NEW g
  PROVE  reviewGateEvaluation(r, g) = "passed" <=>
           /\ GateCheckStatuses(r, g) \cap {"failed", "cancelled", "lost", "missing", "queued", "running"} = {}
           /\ NodeOf[g].reviewerAgent # NoNode => GateAssessment(r, g) \notin {"none", "changes-requested"}
           /\ NodeOf[g].humanApproval => hasCurrentHumanApproval(r, g)
<1> DEFINE C == GateCheckStatuses(r, g)
           A == GateAssessment(r, g)
           h == hasCurrentHumanApproval(r, g)
           required == NodeOf[g].reviewerAgent # NoNode
           human == NodeOf[g].humanApproval
<1>1. reviewGateEvaluation(r, g) = evaluateReviewGate(C, required, A, human, h)
  BY DEF reviewGateEvaluation
<1> HIDE DEF C, A, h, required, human
<1>2. deterministicStatus(C) \in {"failed", "pending", "passed"}
      /\ (deterministicStatus(C) = "passed" <=>
            C \cap {"failed", "cancelled", "lost", "missing", "queued", "running"} = {})
  BY DEF deterministicStatus
<1>3. /\ reviewerStatus(required, A) \in {"not-required", "failed", "pending", "passed"}
      /\ reviewerStatus(required, A) \notin {"failed", "pending"} <=>
           (required => A \notin {"none", "changes-requested"})
  BY DEF reviewerStatus
<1>4. evaluateReviewGate(C, required, A, human, h) = "passed" <=>
        /\ deterministicStatus(C) \notin {"failed", "pending"}
        /\ reviewerStatus(required, A) \notin {"failed", "pending"}
        /\ ~(human /\ ~h)
  BY DEF evaluateReviewGate
<1>5. QED
  BY <1>1, <1>2, <1>3, <1>4 DEF C, A, h, required, human

\* A check on which a gate has passed, and what it was counted for.
LEMMA PassedCheck ==
  ASSUME NEW r \in Runtimes, NEW g \in Gates, reviewGateEvaluation(r, g) = "passed",
         NEW p \in NodeOf[g].checks
  PROVE  LET m == reviewedSourceForGate(g) IN
         /\ currentGateChecks(r, g)[p] = r.checks[g][p]
         /\ m \in reviewedSourceIdsForGate(g) /\ m \in Nodes /\ p \in Nodes
         /\ Succeeded(r, m) /\ r.status[p] = "succeeded"
         /\ currentCheckForGate(r, g, p, r.checks[g][p])
         /\ r.checks[g][p].status = "passed"
<1> DEFINE c == r.checks[g][p]
           m == reviewedSourceForGate(g)
<1>1. g \in Nodes /\ NodeOf[g] \in NodeConfig
  BY CanvasAssumption DEF Gates
<1>2. p \in Nodes /\ p \in Tests
  BY <1>1, ValidCanvas DEF NodeConfig, Tests
<1>3. m \in reviewedSourceIdsForGate(g) /\ m \in Nodes
  BY GateSourceAssumption, ReviewedNodes DEF reviewedSourceForGate
<1>4. currentGateChecks(r, g)[p].status \notin {"failed", "cancelled", "lost", "missing"}
  <2>1. currentGateChecks(r, g)[p].status \in GateCheckStatuses(r, g)
    BY DEF GateCheckStatuses, Range, currentGateChecks
  <2>2. QED
    BY <2>1, PassedParts
<1>5. currentGateChecks(r, g)[p] = c /\ Succeeded(r, m) /\ currentCheckForGate(r, g, p, c)
  BY <1>4 DEF currentGateChecks, NoCheck
<1>6. c \in Checks
  BY <1>2 DEF Runtimes
<1>7. c.status = "passed"
  BY <1>4, <1>5, <1>6 DEF Checks
<1>8. r.status[p] = "succeeded"
  BY <1>5, <1>7 DEF currentCheckForGate, expectedProducerStatuses
<1>9. QED
  BY <1>2, <1>3, <1>5, <1>7, <1>8

\* The assessment on which a gate has passed.
LEMMA PassedReview ==
  ASSUME NEW r, NEW g \in Gates, reviewGateEvaluation(r, g) = "passed", NodeOf[g].reviewerAgent # NoNode
  PROVE  \E e \in GateReviewEdges(g) :
           /\ currentReviewerAssessmentForEdge(r, e).verdict # "none"
           /\ e \in EdgesOfType("review") /\ ReviewerOf(e) = NodeOf[g].reviewerAgent
           /\ EdgeOf[e].source \in reviewedSourceIdsForGate(g) /\ EdgeOf[e].reviewer = "gate"
           /\ \A x \in EdgesOfType("review") : ReviewerOf(x) = NodeOf[g].reviewerAgent => x = e
<1> DEFINE V == {currentReviewerAssessmentForEdge(r, e).verdict : e \in GateReviewEdges(g)}
<1>1. GateAssessment(r, g) = givenVerdict(V) /\ GateAssessment(r, g) # "none"
  BY PassedParts DEF GateAssessment
<1>2. \E v \in V : v # "none"
  BY <1>1 DEF givenVerdict
<1>3. PICK e \in GateReviewEdges(g) : currentReviewerAssessmentForEdge(r, e).verdict # "none"
  BY <1>2
<1>4. e \in EdgesOfType("review") /\ EdgeOf[e].target = g /\ EdgeOf[e].reviewer = "gate"
  BY DEF GateReviewEdges
<1>5. ReviewerOf(e) = NodeOf[g].reviewerAgent /\ EdgeOf[e].source \in reviewedSourceIdsForGate(g)
  BY <1>4 DEF ReviewerOf, reviewedSourceIdsForGate
<1>6. NodeOf[g].reviewerAgent \in Nodes
  BY CanvasAssumption DEF Gates, NodeConfig
<1>7. ASSUME NEW x \in EdgesOfType("review"), ReviewerOf(x) = NodeOf[g].reviewerAgent PROVE x = e
  BY <1>4, <1>5, <1>6, <1>7, SingleReviewAssumption DEF ReviewEdgesBy
<1>8. QED
  BY <1>3, <1>4, <1>5, <1>7

\* A gate that has passed still passes as long as what it rests on is kept.
LEMMA PassedKept ==
  ASSUME AcyclicReviews, ApprovalSeesTheWork, NEW r \in Runtimes, NEW q \in Runtimes,
         NEW g \in Gates, Keeps(r, q, EvidenceNodes(g), g), assessedReviewers(r),
         reviewGateEvaluation(r, g) = "passed",
         NodeOf[g].humanApproval => \A m \in reviewedSourceIdsForGate(g) : r.status[m] = "succeeded"
  PROVE  reviewGateEvaluation(q, g) = "passed"
<1> DEFINE B == EvidenceNodes(g)
           reviewed == reviewedSourceIdsForGate(g)
<1>1. /\ B \in SUBSET Nodes /\ reviewed \subseteq B /\ NodeOf[g].checks \subseteq B
      /\ NodeOf[g].reviewerAgent # NoNode => NodeOf[g].reviewerAgent \in B
      /\ \A n \in B : \A e \in DirectReviews(n) : EdgeOf[e].source \in B
  BY EvidenceNodesBasis DEF basisOf
<1> HIDE DEF B
<1>2. Keeps(r, q, B, g)
  BY DEF B
<1>3. \A n \in B : canvasNodeStatus(r)[n] = "succeeded" => canvasNodeStatus(q)[n] = "succeeded"
  BY <1>1, <1>2, CanvasKept
<1>4. ASSUME NEW p \in NodeOf[g].checks
      PROVE  currentGateChecks(q, g)[p] = currentGateChecks(r, g)[p]
  <2> DEFINE m == reviewedSourceForGate(g)
             c == r.checks[g][p]
  <2>1. /\ currentGateChecks(r, g)[p] = c /\ m \in reviewed /\ m \in Nodes /\ p \in Nodes
        /\ Succeeded(r, m) /\ r.status[p] = "succeeded" /\ currentCheckForGate(r, g, p, c)
        /\ c.status = "passed"
    BY PassedCheck
  <2> HIDE DEF m
  <2>2. q.checks[g][p] = c /\ q.status[p] = "succeeded" /\ q.attempt[p] = r.attempt[p]
        /\ q.status[m] = "succeeded" /\ q.attempt[m] = r.attempt[m]
    BY <1>1, <1>2, <2>1 DEF Keeps, Succeeded
  <2>3. Succeeded(q, m)
    BY <1>1, <1>3, <2>1, <2>2 DEF Succeeded
  <2>4. currentCausalCheckPublications(q, m, p) # {}
    <3>1. PICK e \in CausalEdges(m, p) : r.outputs[e] = r.attempt[m]
      BY <2>1 DEF currentCheckForGate, currentCausalCheckPublications, m
    <3>2. e \in EdgesOfType("output") /\ EdgeOf[e].source = m
      BY DEF CausalEdges
    <3>3. q.outputs[e] = q.attempt[m]
      BY <1>1, <1>2, <2>1, <2>2, <3>1, <3>2 DEF Keeps, Succeeded
    <3>4. QED
      BY <3>3 DEF currentCausalCheckPublications
  <2>5. currentCheckForGate(q, g, p, c)
    BY <2>1, <2>2, <2>4 DEF currentCheckForGate, expectedProducerStatuses, m
  <2>6. currentGateChecks(q, g)[p] = c
    BY <2>2, <2>3, <2>5 DEF currentGateChecks, m
  <2>7. QED
    BY <2>1, <2>6
<1>5. ASSUME NodeOf[g].reviewerAgent # NoNode, NEW x \in EdgesOfType("review"),
             ReviewerOf(x) = NodeOf[g].reviewerAgent
      PROVE  currentReviewerAssessmentForEdge(q, x) = currentReviewerAssessmentForEdge(r, x)
  <2>1. /\ currentReviewerAssessmentForEdge(r, x).verdict # "none"
        /\ EdgeOf[x].source \in reviewed /\ EdgeOf[x].reviewer = "gate"
    BY <1>5, PassedReview
  <2>2. r.assessments[x].verdict # "none"
    BY <2>1, CountedVerdict
  <2>3. r.status[ReviewerOf(x)] = "succeeded"
    BY <2>1, <2>2 DEF assessedReviewers
  <2>4. EdgeOf[x].source \in B /\ ReviewerOf(x) \in B
    BY <1>1, <1>5, <2>1
  <2>5. canvasNodeStatus(r)[EdgeOf[x].source] = "succeeded" =>
          canvasNodeStatus(q)[EdgeOf[x].source] = "succeeded"
    BY <1>3, <2>4
  <2>6. QED
    BY <1>1, <1>2, <2>1, <2>3, <2>4, <2>5, AssessmentKept
<1>6. GateCheckStatuses(q, g) = GateCheckStatuses(r, g)
  <2>1. currentGateChecks(q, g) = currentGateChecks(r, g)
    BY <1>4 DEF currentGateChecks
  <2>2. QED
    BY <2>1 DEF GateCheckStatuses
<1>7. NodeOf[g].reviewerAgent # NoNode => GateAssessment(q, g) = GateAssessment(r, g)
  <2> SUFFICES ASSUME NodeOf[g].reviewerAgent # NoNode
               PROVE  GateAssessment(q, g) = GateAssessment(r, g)
    OBVIOUS
  <2>1. \A e \in GateReviewEdges(g) : e \in EdgesOfType("review")
                                      /\ ReviewerOf(e) = NodeOf[g].reviewerAgent
    BY DEF GateReviewEdges, ReviewerOf
  <2>2. {currentReviewerAssessmentForEdge(q, e).verdict : e \in GateReviewEdges(g)}
          = {currentReviewerAssessmentForEdge(r, e).verdict : e \in GateReviewEdges(g)}
    BY <1>5, <2>1
  <2>3. QED
    BY <2>2 DEF GateAssessment
<1>8. ASSUME NodeOf[g].humanApproval
      PROVE  approvalRequestUnchecked(q, g) = approvalRequestUnchecked(r, g)
  <2>1. \A n \in reviewed : n \in B /\ r.status[n] = "succeeded" /\ q.status[n] = "succeeded"
                            /\ q.attempt[n] = r.attempt[n]
    BY <1>1, <1>2, <1>8 DEF Keeps
  <2>2. {<<n, q.attempt[n], q.status[n]>> : n \in reviewed}
          = {<<n, r.attempt[n], r.status[n]>> : n \in reviewed}
    BY <2>1
  <2> DEFINE out(x) == {e \in EdgesOfType("output") :
                              /\ EdgeOf[e].source \in reviewed
                              /\ x.outputs[e] = x.attempt[EdgeOf[e].source]}
             ctx(x) == {e \in EdgesOfType("context") : EdgeOf[e].target = g /\ x.contexts[e] # 0}
             rev == {e \in EdgesOfType("review") : EdgeOf[e].source \in reviewed}
  <2>3. {<<e, q.outputs[e]>> : e \in out(q)} = {<<e, r.outputs[e]>> : e \in out(r)}
    <3>1. \A e \in EdgesOfType("output") : EdgeOf[e].source \in reviewed =>
            q.outputs[e] = r.outputs[e] /\ q.attempt[EdgeOf[e].source] = r.attempt[EdgeOf[e].source]
      BY <1>2, <2>1 DEF Keeps
    <3>2. QED
      BY <3>1
  <2>4. {<<e, q.contexts[e]>> : e \in ctx(q)} = {<<e, r.contexts[e]>> : e \in ctx(r)}
    BY <1>2 DEF Keeps
  <2>5. ASSUME NEW e \in rev
        PROVE  currentReviewerAssessmentForEdge(q, e) = currentReviewerAssessmentForEdge(r, e)
    <3>1. CASE ReviewerOf(e) = NoNode
      BY <3>1 DEF currentReviewerAssessmentForEdge, AssessmentGiven
    <3>2. CASE ReviewerOf(e) # NoNode
      <4>1. ReviewerOf(e) = NodeOf[g].reviewerAgent
        BY <1>8, <2>5, <3>2 DEF ApprovalSeesTheWork
      <4>2. QED
        BY <1>5, <2>5, <3>2, <4>1
    <3>3. QED
      BY <3>1, <3>2
  <2>6. {<<e, currentReviewerAssessmentForEdge(q, e)>> : e \in rev}
          = {<<e, currentReviewerAssessmentForEdge(r, e)>> : e \in rev}
    BY <2>5
  <2>7. {<<p, currentGateChecks(q, g)[p]>> : p \in NodeOf[g].checks}
          = {<<p, currentGateChecks(r, g)[p]>> : p \in NodeOf[g].checks}
    BY <1>4
  <2>8. q.attempt[g] = r.attempt[g]
    BY <1>2 DEF Keeps
  <2>9. \A x : approvalRequestUnchecked(x, g) =
          [targetAttempt |-> x.attempt[g],
           runs |-> {<<n, x.attempt[n], x.status[n]>> : n \in reviewed},
           outputs |-> {<<e, x.outputs[e]>> : e \in out(x)},
           contexts |-> {<<e, x.contexts[e]>> : e \in ctx(x)},
           checks |-> {<<p, currentGateChecks(x, g)[p]>> : p \in NodeOf[g].checks},
           assessments |-> {<<e, currentReviewerAssessmentForEdge(x, e)>> : e \in rev}]
    BY Zenon DEF approvalRequestUnchecked
  <2> HIDE DEF out, ctx, rev, reviewed
  <2>10. QED
    BY <2>2, <2>3, <2>4, <2>6, <2>7, <2>8, <2>9
<1>9. NodeOf[g].humanApproval => hasCurrentHumanApproval(q, g)
  BY <1>2, <1>8, PassedParts DEF hasCurrentHumanApproval, Keeps
<1>10. QED
  BY <1>6, <1>7, <1>9, PassedParts

-----------------------------------------------------------------------------
(* The end of a gate and the steps that add no evidence *)

\* No success is lost, and no gate gains one.
successHeld(r, q) ==
  /\ \A n \in Nodes : r.status[n] = "succeeded" => q.status[n] = "succeeded"
  /\ \A g \in Gates : q.status[g] = "succeeded" => r.status[g] = "succeeded"

\* A forward step is one of them.
LEMMA ForwardHolds ==
  \A r, q, X : Forward(r, q, X) => successHeld(r, q)
  BY DEF Forward, successHeld, isTerminalRunStatus, TerminalStatus

\* What is recorded as evidence is the same.
sameEvidence(r, q) ==
  /\ q.attempt = r.attempt /\ q.outputs = r.outputs /\ q.contexts = r.contexts
  /\ q.artifacts = r.artifacts /\ q.assessments = r.assessments /\ q.checks = r.checks
  /\ q.approvals = r.approvals

\* The same twice is the same.
LEMMA SameEvidenceTrans ==
  \A r, p, q : sameEvidence(r, p) /\ sameEvidence(p, q) => sameEvidence(r, q)
  BY DEF sameEvidence

\* Statuses are no evidence.
LEMMA RunsEvidence ==
  ASSUME NEW r \in Runtimes
  PROVE  /\ \A st : sameEvidence(r, replaceRunState(r, st))
         /\ \A st, f : sameEvidence(r, [replaceRunState(r, st) EXCEPT !.failureCode = f])
         /\ \A n, s, c : sameEvidence(r, setNodeRun(r, n, s, c))
  BY DEF sameEvidence, replaceRunState, setNodeRun, Runtimes

\* Settling blocked nodes collects no evidence.
LEMMA SettleEvidence ==
  ASSUME NEW r \in Runtimes
  PROVE  sameEvidence(r, settleBlockedWorkflowNodes(r))
<1>1. ASSUME NEW S PROVE sameEvidence(r, cancelUnstarted(r, S))
  <2> DEFINE hit == {n \in Nodes : n \in S /\ r.status[n] \in UnstartedStatus}
             st == [n \in Nodes |-> IF n \in hit THEN "cancelled" ELSE r.status[n]]
             p == replaceRunState(r, st)
             f == [n \in Nodes |-> IF n \in hit THEN "none" ELSE p.failureCode[n]]
  <2>1. CASE hit = {}
    BY <2>1 DEF cancelUnstarted, sameEvidence
  <2>2. CASE hit # {}
    <3>1. cancelUnstarted(r, S) = [p EXCEPT !.failureCode = f]
      BY <2>2 DEF cancelUnstarted
    <3> HIDE DEF st, f
    <3>2. QED
      BY <3>1, RunsEvidence
  <2>3. QED
    BY <2>1, <2>2
<1>2. QED
  BY <1>1 DEF settleBlockedWorkflowNodes

\* Nor does the end of a node by itself.
LEMMA CompleteEvidence ==
  ASSUME NEW r \in Runtimes, NEW n \in Nodes, NEW s \in TerminalStatus
  PROVE  sameEvidence(r, completeWorkflowNode(r, n, s))
<1>1. CASE s = "succeeded" /\ DirectReviews(n) # {}
  BY <1>1, RunsEvidence DEF completeWorkflowNode
<1>2. CASE ~(s = "succeeded" /\ DirectReviews(n) # {})
  <2> DEFINE code == IF s \in {"failed", "lost"} THEN "other" ELSE "none"
             revised == {l \in r.activeLoops : s = "succeeded" /\ LoopOf[l].implementation = n}
             p == setNodeRun(r, n, s, code)
             q == [p EXCEPT !.activeLoops = p.activeLoops \ revised]
  <2>1. completeWorkflowNode(r, n, s) = settleBlockedWorkflowNodes(q)
    BY <1>2 DEF completeWorkflowNode
  <2>2. s \in RunStatus /\ code \in FailureCode
    BY DEF TerminalStatus, RunStatus, FailureCode
  <2>3. p \in Runtimes /\ sameEvidence(r, p)
    BY <2>2, SetNodeRun, RunsEvidence
  <2> HIDE DEF p
  <2>4. q \in Runtimes /\ sameEvidence(p, q)
    BY <2>3 DEF Runtimes, sameEvidence
  <2> HIDE DEF q
  <2>5. sameEvidence(q, settleBlockedWorkflowNodes(q))
    BY <2>4, SettleEvidence
  <2>6. QED
    BY <2>1, <2>3, <2>4, <2>5, SameEvidenceTrans
<1>3. QED
  BY <1>1, <1>2

\* An outcome moves its loop only.
LEMMA ApplyEvidence ==
  ASSUME NEW r \in Runtimes, NEW l \in Loops
  PROVE  sameEvidence(r, applyRevisionReview(r, l))
  BY DEF applyRevisionReview, sameEvidence, Runtimes

\* A person's review is recorded apart from the evidence of gates.
LEMMA DecisionEvidence ==
  ASSUME NEW r \in Runtimes, NEW e \in HumanReviewEdges, NEW d \in {"approved", "changes-requested"}
  PROVE  sameEvidence(r, recordWorkflowHumanReviewDecision(r, e, d))
<1> DEFINE n == EdgeOf[e].target
           p == IF d = "approved" THEN setNodeRun(r, n, "succeeded", "none")
                                  ELSE setNodeRun(r, n, "failed", "other")
           x == [decision |-> d, fingerprint |-> approvalRequestUnchecked(r, e)]
           D == [p.decisions EXCEPT ![e] = x]
           q == [p EXCEPT !.decisions = D]
<1>1. e \in Edges /\ EdgeOf[e].type = "review" /\ n \in Nodes
  BY CanvasAssumption DEF HumanReviewEdges, EdgesOfType
<1>2. p \in Runtimes /\ sameEvidence(r, p)
  BY <1>1, SetNodeRun, RunsEvidence DEF RunStatus, FailureCode
<1>3. recordWorkflowHumanReviewDecision(r, e, d) = settleBlockedWorkflowNodes(q)
  BY DEF recordWorkflowHumanReviewDecision
<1>4. approvalRequestUnchecked(r, e) \in Fingerprints
  BY <1>1, ApprovalRequestType
<1> HIDE DEF p
<1>5. D \in [Edges -> [decision : {"none", "approved", "changes-requested"},
                       fingerprint : Fingerprints]]
  BY <1>1, <1>2, <1>4 DEF Runtimes
<1> HIDE DEF D
<1>6. q \in Runtimes /\ sameEvidence(p, q)
  BY <1>2, <1>5 DEF Runtimes, sameEvidence
<1> HIDE DEF q
<1>7. QED
  BY <1>2, <1>3, <1>6, SettleEvidence, SameEvidenceTrans

\* Asking a run to stop collects none.
LEMMA RequestCancellationEvidence ==
  ASSUME NEW r \in Runtimes
  PROVE  sameEvidence(r, requestWorkflowCancellation(r))
  BY RunsEvidence DEF requestWorkflowCancellation

\* Nor does recovery.
LEMMA RecoverEvidence ==
  ASSUME NEW r \in Runtimes
  PROVE  sameEvidence(r, recoverWorkflowExecution(r))
<1> DEFINE st == [n \in Nodes |-> IF n \in ActiveNodes(r) THEN "lost" ELSE r.status[n]]
           f == [n \in Nodes |-> IF n \in ActiveNodes(r) THEN "other" ELSE r.failureCode[n]]
           p == [replaceRunState(r, st) EXCEPT !.failureCode = f]
           q == [p EXCEPT !.activeLoops = {}]
<1>1. st \in [Nodes -> RunStatus] /\ f \in [Nodes -> FailureCode]
  BY DEF Runtimes, RunStatus, FailureCode
<1> HIDE DEF st
<1>2. replaceRunState(r, st) \in Runtimes /\ replaceRunState(r, st).failureCode = r.failureCode
  BY <1>1, ReplaceRunState
<1>3. recoverWorkflowExecution(r) = settleBlockedWorkflowNodes(q)
  BY <1>2 DEF recoverWorkflowExecution, st
<1> HIDE DEF f
<1>4. p \in Runtimes /\ sameEvidence(r, p)
  BY <1>1, <1>2, SetFailureCode, RunsEvidence
<1> HIDE DEF p
<1>5. q \in Runtimes /\ sameEvidence(p, q)
  BY <1>4 DEF Runtimes, sameEvidence
<1> HIDE DEF q
<1>6. QED
  BY <1>3, <1>4, <1>5, SettleEvidence, SameEvidenceTrans

\* Giving up on a loop keeps the evidence and every success.
LEMMA CancelEscapeKeeps ==
  ASSUME NEW r \in Runtimes, NEW l \in Loops
  PROVE  LET q == cancelRevisionEscape(r, l) IN sameEvidence(r, q) /\ successHeld(r, q)
<1> DEFINE p == requestWorkflowCancellation(r)
           st == [n \in Nodes |-> IF p.status[n] \in {"failed", "lost"} THEN "cancelled"
                                  ELSE p.status[n]]
           x == replaceRunState(p, st)
           q == [x EXCEPT !.loop[l] = loopHumanAborted(x.loop[l]), !.activeLoops = x.activeLoops \ {l},
                          !.cancellationRequested = TRUE]
<1>1. Forward(r, p, {}) /\ sameEvidence(r, p)
  BY ForwardRequestCancellation, RequestCancellationEvidence
<1>2. cancelRevisionEscape(r, l) = q
  BY DEF cancelRevisionEscape
<1> HIDE DEF p
<1>3. p \in Runtimes /\ successHeld(r, p)
  BY <1>1, ForwardHolds DEF Forward
<1>4. st \in [Nodes -> RunStatus]
  BY <1>3 DEF Runtimes, RunStatus
<1>5. \A n \in Nodes : st[n] = "succeeded" <=> p.status[n] = "succeeded"
  OBVIOUS
<1> HIDE DEF st
<1>6. x \in Runtimes /\ x.status = st /\ sameEvidence(p, x)
  BY <1>3, <1>4, ReplaceRunState, RunsEvidence
<1> HIDE DEF x
<1>7. q.status = x.status /\ sameEvidence(x, q)
  BY <1>6 DEF Runtimes, sameEvidence
<1> HIDE DEF q
<1>8. successHeld(r, q)
  BY <1>3, <1>5, <1>6, <1>7 DEF successHeld, Gates
<1>9. QED
  BY <1>1, <1>2, <1>6, <1>7, <1>8, SameEvidenceTrans

\* Accepting the work of a loop too.
LEMMA AcceptEscapeKeeps ==
  ASSUME NEW r \in Runtimes, NEW l \in Loops, canAcceptRevisionEscape(r, l)
  PROVE  LET q == acceptRevisionEscape(r, l) IN sameEvidence(r, q) /\ successHeld(r, q)
<1> DEFINE review == LoopOf[l].review
           p == IF review \in Gates
                THEN IF r.status[review] \in ActiveStatus
                     THEN setNodeRun(r, review, "failed", "other") ELSE r
                ELSE setNodeRun(r, review, "succeeded", "none")
           s == loopStopConditionMet(p.loop[l], "human-accepted")
           L == [p.loop EXCEPT ![l] = s]
           A == p.activeLoops \ {l}
           x == [p EXCEPT !.loop = L, !.activeLoops = A]
           q == settleBlockedWorkflowNodes(x)
<1>1. acceptRevisionEscape(r, l) = q
  BY DEF acceptRevisionEscape
<1>2. review \in Nodes
  BY LoopTypes
<1>3. "failed" \in RunStatus /\ "other" \in FailureCode /\ "succeeded" \in RunStatus /\ "none" \in FailureCode
  BY DEF RunStatus, FailureCode
<1>4. p \in Runtimes /\ sameEvidence(r, p)
  <2>1. sameEvidence(r, r)
    BY DEF sameEvidence
  <2>2. QED
    BY <1>2, <1>3, <2>1, SetNodeRun, RunsEvidence
<1>5. successHeld(r, p)
  <2>1. CASE p = r
    BY <2>1 DEF successHeld
  <2>2. CASE p = setNodeRun(r, review, "failed", "other") /\ r.status[review] \in ActiveStatus
    <3>1. p.status = [r.status EXCEPT ![review] = "failed"]
      BY <1>2, <1>3, <2>2, SetNodeRun
    <3> HIDE DEF p
    <3>2. QED
      BY <1>2, <2>2, <3>1 DEF successHeld, Runtimes, ActiveStatus, Gates
  <2>3. CASE p = setNodeRun(r, review, "succeeded", "none") /\ review \notin Gates
    <3>1. p.status = [r.status EXCEPT ![review] = "succeeded"]
      BY <1>2, <1>3, <2>3, SetNodeRun
    <3> HIDE DEF p
    <3>2. QED
      BY <1>2, <2>3, <3>1 DEF successHeld, Runtimes, Gates
  <2>4. QED
    BY <2>1, <2>2, <2>3
<1> HIDE DEF p
<1>6. s \in LoopStates
  BY <1>4, LoopTypes, LoopSteps DEF StopCondition
<1> HIDE DEF s
<1>7. L \in [Loops -> LoopStates] /\ A \in SUBSET Loops
  BY <1>4, <1>6 DEF Runtimes
<1> HIDE DEF L, A
<1>8. x \in Runtimes /\ x.status = p.status /\ sameEvidence(p, x)
  BY <1>4, <1>7 DEF Runtimes, sameEvidence
<1> HIDE DEF x
<1>9. Forward(x, q, {}) /\ sameEvidence(x, q)
  BY <1>8, ForwardSettle, SettleEvidence
<1>10. successHeld(x, q)
  BY <1>9, ForwardHolds
<1> HIDE DEF q
<1>11. successHeld(r, q)
  BY <1>5, <1>8, <1>10 DEF successHeld
<1>12. QED
  BY <1>1, <1>4, <1>8, <1>9, <1>11, SameEvidenceTrans

\* The end of a gate keeps the evidence; only the gate itself may gain success, and
\* only on evidence that passes.
LEMMA GateEndKeeps ==
  ASSUME NEW r \in Runtimes, NEW g \in Gates, r.status[g] = "running"
  PROVE  LET q == completeInternalReviewGate(r, g) IN
         /\ q \in Runtimes /\ sameEvidence(r, q)
         /\ \A n \in Nodes : r.status[n] = "succeeded" => q.status[n] = "succeeded"
         /\ \A h \in Gates \ {g} : q.status[h] = "succeeded" => r.status[h] = "succeeded"
         /\ q.status[g] = "succeeded" => reviewGateEvaluation(r, g) = "passed"
<1> DEFINE open == OpenLoops(r, g)
           l == CHOOSE k \in open : TRUE
           c == completeWorkflowNode(r, g, "succeeded")
           routed == IF /\ reviewGateEvaluation(r, g) = "failed" /\ Cardinality(open) = 1
                        /\ canApplyRevisionReview(r, l)
                     THEN applyRevisionReview(r, l) ELSE r
           result == completeInternalReviewGate(r, g)
           Good(q) == /\ q \in Runtimes /\ sameEvidence(r, q)
                      /\ \A n \in Nodes : r.status[n] = "succeeded" => q.status[n] = "succeeded"
                      /\ \A h \in Gates \ {g} : q.status[h] = "succeeded" => r.status[h] = "succeeded"
                      /\ q.status[g] = "succeeded" => reviewGateEvaluation(r, g) = "passed"
<1>1. Cardinality(open) = 1 => l \in Loops
  <2>1. Cardinality(open) = 1 => open # {}
    BY FS_EmptySet
  <2>2. QED
    BY <2>1 DEF OpenLoops
<1>2. \/ reviewGateEvaluation(r, g) = "passed" /\ result = c
      \/ /\ reviewGateEvaluation(r, g) = "passed" /\ Cardinality(open) = 1
         /\ result = closeLoopAfter(r, c, g, l)
      \/ result = completeWorkflowNode(routed, g, "failed")
  BY DEF completeInternalReviewGate
<1>3. "succeeded" \in TerminalStatus /\ "failed" \in TerminalStatus /\ g \in Nodes
      /\ \A s : s = "succeeded" => isTerminalRunStatus(s)
  BY DEF TerminalStatus, isTerminalRunStatus, Gates
<1>4. /\ c \in Runtimes /\ sameEvidence(r, c)
      /\ \A n \in Nodes : isTerminalRunStatus(r.status[n]) => c.status[n] = r.status[n]
      /\ \A h \in Gates \ {g} : c.status[h] = "succeeded" => r.status[h] = "succeeded"
  BY <1>3, GateCompleted, CompleteEvidence
<1>5. ASSUME NEW p \in Runtimes, p.status = r.status, sameEvidence(r, p)
      PROVE  Good(completeWorkflowNode(p, g, "failed"))
  <2> DEFINE q == completeWorkflowNode(p, g, "failed")
  <2>1. /\ q \in Runtimes /\ q.status[g] = "failed" /\ sameEvidence(p, q)
        /\ \A n \in Nodes : isTerminalRunStatus(p.status[n]) => q.status[n] = p.status[n]
        /\ \A h \in Gates \ {g} : q.status[h] = "succeeded" => p.status[h] = "succeeded"
    BY <1>3, <1>5, GateCompleted, CompleteEvidence
  <2> HIDE DEF q
  <2>2. sameEvidence(r, q)
    BY <1>5, <2>1, SameEvidenceTrans
  <2>3. Good(q)
    BY <1>3, <1>5, <2>1, <2>2
  <2>4. QED
    BY <2>3 DEF q
<1>6. Good(completeWorkflowNode(r, g, "failed"))
  BY <1>5 DEF sameEvidence
<1> HIDE DEF open, l, c, result
<1>7. CASE reviewGateEvaluation(r, g) = "passed" /\ result = c
  BY <1>3, <1>4, <1>7 DEF result
<1>8. CASE /\ reviewGateEvaluation(r, g) = "passed" /\ Cardinality(open) = 1
           /\ result = closeLoopAfter(r, c, g, l)
  <2>1. CASE ~canApplyRevisionReview(c, l)
    BY <1>6, <1>8, <2>1 DEF closeLoopAfter, result
  <2>2. CASE canApplyRevisionReview(c, l)
    <3> DEFINE q == applyRevisionReview(c, l)
    <3>1. result = q
      BY <1>8, <2>2 DEF closeLoopAfter
    <3>2. q \in Runtimes /\ q.status = c.status /\ sameEvidence(c, q)
      BY <1>1, <1>4, <1>8, ReviewApplied, ApplyEvidence
    <3> HIDE DEF q
    <3>3. sameEvidence(r, q)
      BY <1>4, <3>2, SameEvidenceTrans
    <3>4. Good(q)
      BY <1>3, <1>4, <1>8, <3>2, <3>3
    <3>5. QED
      BY <3>1, <3>4 DEF result
  <2>3. QED
    BY <2>1, <2>2
<1>9. CASE result = completeWorkflowNode(routed, g, "failed")
  <2>1. routed \in Runtimes /\ routed.status = r.status /\ sameEvidence(r, routed)
    <3>1. CASE routed = r
      BY <3>1 DEF sameEvidence
    <3>2. CASE l \in Loops /\ routed = applyRevisionReview(r, l)
      BY <3>2, ReviewApplied, ApplyEvidence
    <3>3. QED
      BY <1>1, <3>1, <3>2
  <2> HIDE DEF routed
  <2>2. QED
    BY <1>5, <1>9, <2>1 DEF result
<1>10. QED
  BY <1>2, <1>7, <1>8, <1>9 DEF result

-----------------------------------------------------------------------------
(* Completions *)

\* From r to q the only evidence that changes is that of node n, and that of gates that
\* have not succeeded.
changesOnly(r, q, n) ==
  /\ q.attempt = r.attempt /\ q.contexts = r.contexts /\ q.approvals = r.approvals
  /\ \A m \in Nodes \ {n} : q.artifacts[m] = r.artifacts[m]
  /\ \A e \in EdgesOfType("output") : EdgeOf[e].source # n => q.outputs[e] = r.outputs[e]
  /\ \A e \in EdgesOfType("review") : ReviewerOf(e) # n => q.assessments[e] = r.assessments[e]
  /\ \A g \in Gates : r.status[g] = "succeeded" => q.checks[g] = r.checks[g]

\* Such changes add up.
LEMMA ChangesTrans ==
  \A r, p, q, n : changesOnly(r, p, n) /\ successHeld(r, p) /\ changesOnly(p, q, n) => changesOnly(r, q, n)
  BY DEF changesOnly, successHeld, Gates

\* No change is one of them.
LEMMA SameChanges ==
  \A r, q, n : sameEvidence(r, q) => changesOnly(r, q, n)
  BY DEF changesOnly, sameEvidence

\* The outputs of a node change its own evidence.
LEMMA PublishChanges ==
  ASSUME NEW x \in Runtimes, NEW n \in Nodes, NEW evidence
  PROVE  LET p == publishCompletionOutputs(x, n, evidence) IN
         /\ p \in Runtimes /\ p.status = x.status /\ p.assessments = x.assessments
         /\ changesOnly(x, p, n)
<1> DEFINE p == publishCompletionOutputs(x, n, evidence)
           out == [e \in Edges |-> IF e \in OutputEdges(n) THEN x.attempt[n] ELSE x.outputs[e]]
<1>1. p \in Runtimes
  BY PublishOutputs DEF Preserves
<1>2. p = x \/ p = [x EXCEPT !.outputs = out]
  BY DEF publishCompletionOutputs
<1>3. \A e \in EdgesOfType("output") : EdgeOf[e].source # n => out[e] = x.outputs[e]
  BY DEF OutputEdges, EdgesOfType
<1> HIDE DEF p, out
<1>4. /\ p.status = x.status /\ p.attempt = x.attempt /\ p.contexts = x.contexts
      /\ p.approvals = x.approvals /\ p.artifacts = x.artifacts /\ p.checks = x.checks
      /\ p.assessments = x.assessments /\ (p.outputs = x.outputs \/ p.outputs = out)
  BY <1>2 DEF Runtimes
<1>5. changesOnly(x, p, n)
  BY <1>3, <1>4 DEF changesOnly
<1>6. QED
  BY <1>1, <1>4, <1>5 DEF p

\* So does the artifact it leaves.
LEMMA ArtifactChanges ==
  ASSUME NEW x \in Runtimes, NEW n \in Nodes
  PROVE  LET q == [x EXCEPT !.artifacts[n] = x.attempt[n]] IN
         q \in Runtimes /\ q.status = x.status /\ q.assessments = x.assessments /\ changesOnly(x, q, n)
<1> DEFINE q == [x EXCEPT !.artifacts[n] = x.attempt[n]]
<1>1. q \in Runtimes
  BY RecordArtifact DEF Preserves
<1>2. q.status = x.status /\ q.assessments = x.assessments
  BY DEF Runtimes
<1>3. changesOnly(x, q, n)
  BY DEF changesOnly, Runtimes
<1>4. QED
  BY <1>1, <1>2, <1>3

\* A check is recorded for gates that have not started.
LEMMA CheckChanges ==
  ASSUME NEW x \in Runtimes, NEW n \in Tests, NEW s \in TerminalStatus
  PROVE  LET q == recordExactCheckForGates(x, n, s) IN
         q \in Runtimes /\ q.status = x.status /\ q.assessments = x.assessments /\ changesOnly(x, q, n)
<1> DEFINE q == recordExactCheckForGates(x, n, s)
<1>1. q \in Runtimes
  BY RecordExactCheck DEF Preserves
<1>2. /\ q.status = x.status /\ q.attempt = x.attempt /\ q.contexts = x.contexts
      /\ q.approvals = x.approvals /\ q.artifacts = x.artifacts /\ q.outputs = x.outputs
      /\ q.assessments = x.assessments
  BY DEF recordExactCheckForGates, Runtimes
<1>3. ASSUME NEW g \in Gates, x.status[g] = "succeeded" PROVE q.checks[g] = x.checks[g]
  <2>1. g \notin GatesAwaitingCheck(x, n)
    BY <1>3 DEF GatesAwaitingCheck, UnstartedStatus
  <2>2. QED
    BY <2>1 DEF recordExactCheckForGates, Runtimes
<1> HIDE DEF q
<1>4. changesOnly(x, q, n)
  BY <1>2, <1>3 DEF changesOnly
<1>5. QED
  BY <1>1, <1>2, <1>4 DEF q

\* An assessment changes the evidence of the reviewer.
LEMMA ReviewChanges ==
  ASSUME NEW r \in Runtimes, NEW n \in Nodes, NEW e \in ReviewEdgesBy(n),
         NEW v \in {"approved", "changes-requested"}, n \notin Gates
  PROVE  LET q == recordWorkflowReview(r, e, v) IN
         /\ changesOnly(r, q, n)
         /\ EdgeOf[e].reviewer # "agent" => (r.status[n] = "succeeded" => q.status[n] = "succeeded")
<1> DEFINE p == storeAssessment(r, e, v)
           x == IF EdgeOf[e].reviewer = "agent" THEN finishReviewer(p, ReviewerOf(e)) ELSE p
           q == recordWorkflowReview(r, e, v)
<1>1. p \in Runtimes
  BY StoreAssessment DEF Preserves
<1>2. q = settleBlockedWorkflowNodes(x)
  BY DEF recordWorkflowReview
<1>3. ReviewerOf(e) = n /\ e \in Edges
  BY DEF ReviewEdgesBy, EdgesOfType
<1>4. /\ p.status = r.status /\ p.attempt = r.attempt /\ p.contexts = r.contexts
      /\ p.approvals = r.approvals /\ p.artifacts = r.artifacts /\ p.outputs = r.outputs
      /\ p.checks = r.checks
  BY DEF storeAssessment, Runtimes
<1>5. \A f \in EdgesOfType("review") : ReviewerOf(f) # n => p.assessments[f] = r.assessments[f]
  BY <1>3 DEF storeAssessment, Runtimes, EdgesOfType
<1> HIDE DEF p
<1>6. changesOnly(r, p, n) /\ successHeld(r, p)
  BY <1>4, <1>5 DEF changesOnly, successHeld
<1>7. x \in Runtimes /\ sameEvidence(p, x) /\ (EdgeOf[e].reviewer # "agent" => x = p)
  <2>1. \A V : assessedReviewer(p, n, V) \in Runtimes /\ sameEvidence(p, assessedReviewer(p, n, V))
    <3>1. sameEvidence(p, p)
      BY DEF sameEvidence
    <3>2. QED
      BY <1>1, <3>1, SetNodeRun, RunsEvidence DEF assessedReviewer, RunStatus, FailureCode
  <2>2. QED
    BY <1>1, <1>3, <2>1 DEF finishReviewer, sameEvidence
<1> HIDE DEF x
<1>8. sameEvidence(x, q) /\ Forward(x, q, {})
  BY <1>2, <1>7, SettleEvidence, ForwardSettle
<1> HIDE DEF q
<1>9. changesOnly(r, q, n)
  <2>1. changesOnly(p, q, n)
    BY <1>7, <1>8, SameEvidenceTrans, SameChanges
  <2>2. QED
    BY <1>6, <2>1, ChangesTrans
<1>10. ASSUME EdgeOf[e].reviewer # "agent", r.status[n] = "succeeded" PROVE q.status[n] = "succeeded"
  BY <1>4, <1>7, <1>8, <1>10, ForwardHolds DEF successHeld
<1>11. QED
  BY <1>9, <1>10 DEF q

\* The completion of a node changes the evidence of that node; an assessment for a
\* gate is stored only by a reviewer that has succeeded.
LEMMA CompletionChanges ==
  ASSUME NEW r \in Runtimes, NEW n \in Nodes, NEW result \in ExecutorResults(n),
         r.status[n] \in ActiveStatus, n \notin Gates
  PROVE  LET q == recordCompletion(r, n, result) IN
         /\ changesOnly(r, q, n)
         /\ \A e \in EdgesOfType("review") : EdgeOf[e].reviewer = "gate" /\ ReviewerOf(e) = n =>
              q.status[n] = "succeeded" \/ q.assessments[e] = r.assessments[e]
<1> DEFINE c == completeWorkflowNode(r, n, result.status)
           a == IF result.status = "succeeded" /\ result.evidence = "full"
                THEN [c EXCEPT !.artifacts[n] = c.attempt[n]] ELSE c
           p == publishCompletionOutputs(c, n, result.evidence)
           b == publishCompletionOutputs(a, n, result.evidence)
           t == recordExactCheckForGates(p, n, result.status)
           f == completeWorkflowNode(r, n, "failed")
           q == recordCompletion(r, n, result)
           Good(x) == /\ changesOnly(r, x, n)
                      /\ \A e \in EdgesOfType("review") : EdgeOf[e].reviewer = "gate" /\ ReviewerOf(e) = n =>
                           x.status[n] = "succeeded" \/ x.assessments[e] = r.assessments[e]
<1>1. /\ result.status \in TerminalStatus /\ "failed" \in TerminalStatus
      /\ result.verdict \in {"approved", "changes-requested"}
  BY DEF ExecutorResults, TerminalStatus
<1>2. sameEvidence(r, c) /\ Forward(r, c, {n}) /\ sameEvidence(r, f)
  BY <1>1, CompleteEvidence, ForwardComplete
<1>3. Good(f)
  BY <1>2, SameChanges DEF sameEvidence
<1>4. \/ n \in Tests /\ q = t
      \/ /\ n \notin Tests /\ canRecordAgentCompletion(c, n, result)
         /\ q = IF result.status = "succeeded" /\ NodeOf[n].type = "agent"
                THEN recordReviewerFinalAssessments(b, n, result.verdict) ELSE b
      \/ q = f
  BY DEF recordCompletion, recordCompletionEvidence, recordTestCompletion, recordAgentCompletion
<1> HIDE DEF c, f
<1>5. c \in Runtimes /\ successHeld(r, c) /\ changesOnly(r, c, n) /\ c.assessments = r.assessments
  BY <1>2, ForwardHolds, SameChanges DEF Forward, sameEvidence
<1>6. ASSUME NEW x \in Runtimes, x.status = c.status, x.assessments = c.assessments, changesOnly(c, x, n)
      PROVE  /\ changesOnly(r, x, n) /\ successHeld(r, x) /\ x.assessments = r.assessments
             /\ Good(x)
  <2>1. changesOnly(r, x, n)
    BY <1>5, <1>6, ChangesTrans
  <2>2. successHeld(r, x)
    BY <1>5, <1>6 DEF successHeld
  <2>3. QED
    BY <1>5, <1>6, <2>1, <2>2
<1>7. a \in Runtimes /\ a.status = c.status /\ a.assessments = c.assessments /\ changesOnly(c, a, n)
  <2>1. sameEvidence(c, c)
    BY DEF sameEvidence
  <2>2. QED
    BY <1>5, <2>1, ArtifactChanges, SameChanges
<1> HIDE DEF a
<1>8. /\ p \in Runtimes /\ p.status = c.status /\ p.assessments = c.assessments /\ changesOnly(c, p, n)
      /\ b \in Runtimes /\ b.status = c.status /\ b.assessments = c.assessments /\ changesOnly(c, b, n)
  <2>1. /\ p \in Runtimes /\ p.status = c.status /\ p.assessments = c.assessments /\ changesOnly(c, p, n)
        /\ b \in Runtimes /\ b.status = a.status /\ b.assessments = a.assessments /\ changesOnly(a, b, n)
    BY <1>5, <1>7, PublishChanges
  <2> HIDE DEF p, b
  <2>2. successHeld(c, a)
    BY <1>7 DEF successHeld
  <2>3. QED
    BY <1>7, <2>1, <2>2, ChangesTrans
<1>9. ASSUME n \in Tests PROVE Good(t)
  <2> HIDE DEF p
  <2>1. t \in Runtimes /\ t.status = p.status /\ t.assessments = p.assessments /\ changesOnly(p, t, n)
    BY <1>1, <1>8, <1>9, CheckChanges
  <2>2. successHeld(c, p)
    BY <1>8 DEF successHeld
  <2>3. changesOnly(c, t, n)
    BY <1>8, <2>1, <2>2, ChangesTrans
  <2> HIDE DEF t
  <2>4. QED
    BY <1>6, <1>8, <2>1, <2>3
<1>10. Good(b) /\ changesOnly(r, b, n) /\ successHeld(r, b) /\ b.assessments = r.assessments
  <2> HIDE DEF b
  <2>1. QED
    BY <1>6, <1>8
<1>11. ASSUME result.status = "succeeded", NodeOf[n].type = "agent",
              canRecordAgentCompletion(c, n, result), ReviewEdgesBy(n) # {}
       PROVE  Good(recordReviewerFinalAssessments(b, n, result.verdict))
  <2> DEFINE x == recordReviewerFinalAssessments(b, n, result.verdict)
  <2>1. PICK e \in ReviewEdgesBy(n) : x = recordWorkflowReview(b, e, result.verdict)
    BY <1>11 DEF recordReviewerFinalAssessments
  <2>2. /\ changesOnly(b, x, n)
        /\ EdgeOf[e].reviewer # "agent" => (b.status[n] = "succeeded" => x.status[n] = "succeeded")
    <3> HIDE DEF b, x
    <3>1. QED
      BY <1>1, <1>8, <2>1, ReviewChanges
  <2>3. EdgeOf[e].reviewer = "gate" => b.status[n] = "succeeded"
    <3>1. canRecordWorkflowReview(p, e)
      BY <1>11, <2>1 DEF canRecordAgentCompletion, canRecordReviewerFinalAssessments
    <3>2. ReviewerOf(e) = n
      BY DEF ReviewEdgesBy
    <3> HIDE DEF p, b
    <3>3. EdgeOf[e].reviewer = "gate" => p.status[n] = "succeeded"
      BY <3>1, <3>2 DEF canRecordWorkflowReview, Succeeded
    <3>4. QED
      BY <1>8, <3>3
  <2>4. \A d \in EdgesOfType("review") : ReviewerOf(d) = n => d = e
    BY SingleReviewAssumption DEF ReviewEdgesBy
  <2> HIDE DEF b, x
  <2>5. changesOnly(r, x, n)
    BY <1>10, <2>2, ChangesTrans
  <2>6. Good(x)
    BY <2>2, <2>3, <2>4, <2>5
  <2>7. QED
    BY <2>6 DEF x
<1>12. ASSUME ReviewEdgesBy(n) = {} PROVE recordReviewerFinalAssessments(b, n, result.verdict) = b
  BY <1>12 DEF recordReviewerFinalAssessments
<1> HIDE DEF b, t, q, Good
<1>13. Good(q)
  BY <1>3, <1>4, <1>9, <1>10, <1>11, <1>12
<1>14. QED
  BY <1>13 DEF Good, q

-----------------------------------------------------------------------------
(* Reconciliation, approvals and revisions *)

\* Success that is held on the same evidence keeps everything.
LEMMA SameKeeps ==
  ASSUME NEW r, NEW q, sameEvidence(r, q),
         \A n \in Nodes : r.status[n] = "succeeded" => q.status[n] = "succeeded",
         NEW N \in SUBSET Nodes, NEW g
  PROVE  Keeps(r, q, N, g)
  BY DEF Keeps, sameEvidence

\* New evidence of a node that had not succeeded takes nothing from a gate that has.
LEMMA ChangesKeep ==
  ASSUME NEW r, NEW q, NEW n, changesOnly(r, q, n), successHeld(r, q), r.status[n] # "succeeded",
         NEW N \in SUBSET Nodes, NEW g \in Gates, r.status[g] = "succeeded"
  PROVE  Keeps(r, q, N, g)
<1>1. \A m \in N : r.status[m] = "succeeded" => m \in Nodes \ {n}
  OBVIOUS
<1>2. QED
  BY <1>1 DEF Keeps, changesOnly, successHeld

\* Reconciling touches what is recorded for nodes that have not started.
LEMMA ReconcileKeeps ==
  ASSUME NEW r \in Runtimes, NEW N \in SUBSET Nodes, NEW g \in Gates, r.status[g] = "succeeded"
  PROVE  Keeps(r, reconcile(r), N, g)
<1> DEFINE p == recordWorkflowContextResolutions(r)
           q == reconcilePersistedGateChecks(p)
<1>1. reconcile(r) = q
  BY DEF reconcile
<1>2. p \in Runtimes
  BY ResolveContexts DEF Preserves
<1>3. /\ p.status = r.status /\ p.attempt = r.attempt /\ p.approvals = r.approvals
      /\ p.artifacts = r.artifacts /\ p.outputs = r.outputs /\ p.checks = r.checks
      /\ p.assessments = r.assessments
  BY DEF recordWorkflowContextResolutions, Runtimes
<1>4. ASSUME NEW e \in EdgesOfType("context"), EdgeOf[e].target = g PROVE p.contexts[e] = r.contexts[e]
  <2>1. e \in Edges /\ e \notin UnresolvedContexts(r)
    BY <1>4 DEF UnresolvedContexts, UnstartedStatus, EdgesOfType
  <2>2. QED
    BY <2>1 DEF recordWorkflowContextResolutions, Runtimes
<1> HIDE DEF p
<1>5. /\ q.status = p.status /\ q.attempt = p.attempt /\ q.approvals = p.approvals
      /\ q.artifacts = p.artifacts /\ q.outputs = p.outputs /\ q.contexts = p.contexts
      /\ q.assessments = p.assessments
  BY <1>2 DEF reconcilePersistedGateChecks, Runtimes
<1>6. q.checks[g] = p.checks[g]
  <2>1. p.status[g] \notin UnstartedStatus
    BY <1>3 DEF UnstartedStatus
  <2>2. QED
    BY <1>2, <2>1 DEF reconcilePersistedGateChecks, Runtimes
<1> HIDE DEF q
<1>7. QED
  BY <1>1, <1>3, <1>4, <1>5, <1>6 DEF Keeps

\* Nor does it touch an assessment.
LEMMA ReconcileAssessments ==
  ASSUME NEW r \in Runtimes
  PROVE  reconcile(r).assessments = r.assessments
<1> DEFINE p == recordWorkflowContextResolutions(r)
<1>1. p \in Runtimes
  BY ResolveContexts DEF Preserves
<1>2. p.assessments = r.assessments
  BY DEF recordWorkflowContextResolutions, Runtimes
<1>3. reconcile(r) = reconcilePersistedGateChecks(p)
  BY DEF reconcile
<1> HIDE DEF p
<1>4. reconcilePersistedGateChecks(p).assessments = p.assessments
  BY <1>1 DEF reconcilePersistedGateChecks, Runtimes
<1>5. QED
  BY <1>2, <1>3, <1>4

\* An approval touches the record of its target.
LEMMA ApproveKeeps ==
  ASSUME NEW r \in Runtimes, NEW t \in ApprovalTargets, NEW N \in SUBSET Nodes, NEW g \in Gates, t # g
  PROVE  Keeps(r, approveWorkflowHumanDecision(r, t), N, g)
<1> DEFINE q == approveWorkflowHumanDecision(r, t)
<1>1. /\ q.status = r.status /\ q.attempt = r.attempt /\ q.contexts = r.contexts
      /\ q.artifacts = r.artifacts /\ q.outputs = r.outputs /\ q.checks = r.checks
      /\ q.assessments = r.assessments
  BY DEF approveWorkflowHumanDecision, Runtimes
<1>2. q.approvals[g] = r.approvals[g]
  BY DEF approveWorkflowHumanDecision, Runtimes
<1> HIDE DEF q
<1>3. Keeps(r, q, N, g)
  BY <1>1, <1>2 DEF Keeps
<1>4. QED
  BY <1>3 DEF q

\* What an additional attempt does to the evidence.
LEMMA RevisionEvidence ==
  ASSUME NEW r \in Runtimes
  PROVE  LET q == queueEligibleRevisionAttempts(r)
             D == DueLoops(r)
             again == AttemptNodes(D)
             reviews == {LoopOf[l].review : l \in D}
             reviewEdges == {LoopOf[l].reviewEdge : l \in D} IN
         /\ q.outputs = [e \in Edges |-> IF producedBy(again, e) THEN 0 ELSE r.outputs[e]]
         /\ q.contexts = [e \in Edges |-> IF readBy(again, e) THEN 0 ELSE r.contexts[e]]
         /\ q.artifacts = [n \in Nodes |-> IF n \in again THEN 0 ELSE r.artifacts[n]]
         /\ q.assessments = [e \in Edges |->
              IF \/ e \in reviewEdges
                 \/ producedBy(again, e)
                 \/ EdgeOf[e].type = "review" /\ ReviewerOf(e) \in again
              THEN NoAssessment ELSE r.assessments[e]]
         /\ q.checks = [g \in Gates |->
              IF \/ g \in reviews
                 \/ \E x \in Tests : /\ r.checks[g][x] # NoCheck
                                     /\ x \in again \/ reviewedSourceForGate(g) \in again
              THEN [x \in Tests |-> NoCheck] ELSE r.checks[g]]
         /\ q.approvals = [t \in Edges \cup Gates |->
              IF \/ t \in reviews \cup reviewEdges
                 \/ t \in Edges /\ readBy(again, t)
              THEN NoFingerprint ELSE r.approvals[t]]
<1> DEFINE D == DueLoops(r)
           again == AttemptNodes(D)
           reviews == {LoopOf[l].review : l \in D}
           reviewEdges == {LoopOf[l].reviewEdge : l \in D}
           st == [n \in Nodes |-> IF n \in again THEN "queued" ELSE r.status[n]]
           p == replaceRunState(r, st)
           attempt == [n \in Nodes |-> IF n \in again THEN p.attempt[n] + 1 ELSE p.attempt[n]]
           code == [n \in Nodes |-> IF n \in again THEN "none" ELSE p.failureCode[n]]
           loop == [l \in Loops |-> IF l \in D
                                    THEN loopRevisionCompleted(LoopOf[l].maximumAttempts, p.loop[l])
                                    ELSE p.loop[l]]
           activeLoops == p.activeLoops \cup D
           outputs(x) == [e \in Edges |-> IF producedBy(again, e) THEN 0 ELSE x.outputs[e]]
           contexts(x) == [e \in Edges |-> IF readBy(again, e) THEN 0 ELSE x.contexts[e]]
           artifacts(x) == [n \in Nodes |-> IF n \in again THEN 0 ELSE x.artifacts[n]]
           assessments(x) == [e \in Edges |->
             IF \/ e \in reviewEdges
                \/ producedBy(again, e)
                \/ EdgeOf[e].type = "review" /\ ReviewerOf(e) \in again
             THEN NoAssessment ELSE x.assessments[e]]
           dropped(g) == \/ g \in reviews
                         \/ \E x \in Tests : /\ r.checks[g][x] # NoCheck
                                             /\ x \in again \/ reviewedSourceForGate(g) \in again
           checks(y) == [g \in Gates |-> IF dropped(g) THEN [x \in Tests |-> NoCheck] ELSE y.checks[g]]
           approvals(x) == [t \in Edges \cup Gates |->
             IF \/ t \in reviews \cup reviewEdges
                \/ t \in Edges /\ readBy(again, t)
             THEN NoFingerprint ELSE x.approvals[t]]
           decisions == [e \in Edges |-> IF e \in reviewEdges THEN NoDecision ELSE p.decisions[e]]
           q == [p EXCEPT !.attempt = attempt, !.failureCode = code, !.loop = loop,
                          !.activeLoops = activeLoops, !.outputs = outputs(p),
                          !.contexts = contexts(p), !.artifacts = artifacts(p),
                          !.assessments = assessments(p), !.checks = checks(p),
                          !.approvals = approvals(p), !.decisions = decisions]
<1>1. queueEligibleRevisionAttempts(r) = q
  BY DEF queueEligibleRevisionAttempts, queueRevisionAttempts
<1>2. st \in [Nodes -> RunStatus]
  BY DEF Runtimes, RunStatus
<1>3. p \in Runtimes /\ sameEvidence(r, p)
  BY <1>2, ReplaceRunState, RunsEvidence
<1>4. /\ outputs(p) = outputs(r) /\ contexts(p) = contexts(r) /\ artifacts(p) = artifacts(r)
      /\ assessments(p) = assessments(r) /\ checks(p) = checks(r) /\ approvals(p) = approvals(r)
  BY <1>3 DEF sameEvidence
<1> HIDE DEF p, attempt, code, loop, activeLoops, outputs, contexts, artifacts, assessments,
             checks, approvals, decisions
<1>5. /\ q.outputs = outputs(p) /\ q.contexts = contexts(p) /\ q.artifacts = artifacts(p)
      /\ q.assessments = assessments(p) /\ q.checks = checks(p) /\ q.approvals = approvals(p)
  BY <1>3 DEF Runtimes
<1> HIDE DEF q
<1>6. QED
  BY <1>1, <1>4, <1>5 DEF outputs, contexts, artifacts, assessments, checks, approvals

\* A revision touches neither a gate that is not requeued nor what it rests on.
LEMMA RevisionKeeps ==
  ASSUME LoopsTakeTheGate, NEW r \in Runtimes, freshEvidence(r), NEW g \in Gates,
         g \notin AttemptNodes(DueLoops(r))
  PROVE  Keeps(r, queueEligibleRevisionAttempts(r), EvidenceNodes(g), g)
<1> DEFINE q == queueEligibleRevisionAttempts(r)
           D == DueLoops(r)
           again == AttemptNodes(D)
           reviews == {LoopOf[l].review : l \in D}
           reviewEdges == {LoopOf[l].reviewEdge : l \in D}
           N == EvidenceNodes(g)
<1>1. /\ q.status = [n \in Nodes |-> IF n \in again THEN "queued" ELSE r.status[n]]
      /\ q.attempt = [n \in Nodes |-> IF n \in again THEN r.attempt[n] + 1 ELSE r.attempt[n]]
  BY AttemptsQueued
<1>2. /\ q.outputs = [e \in Edges |-> IF producedBy(again, e) THEN 0 ELSE r.outputs[e]]
      /\ q.contexts = [e \in Edges |-> IF readBy(again, e) THEN 0 ELSE r.contexts[e]]
      /\ q.artifacts = [n \in Nodes |-> IF n \in again THEN 0 ELSE r.artifacts[n]]
      /\ q.assessments = [e \in Edges |->
           IF \/ e \in reviewEdges
              \/ producedBy(again, e)
              \/ EdgeOf[e].type = "review" /\ ReviewerOf(e) \in again
           THEN NoAssessment ELSE r.assessments[e]]
      /\ q.checks = [h \in Gates |->
           IF \/ h \in reviews
              \/ \E x \in Tests : /\ r.checks[h][x] # NoCheck
                                  /\ x \in again \/ reviewedSourceForGate(h) \in again
           THEN [x \in Tests |-> NoCheck] ELSE r.checks[h]]
      /\ q.approvals = [t \in Edges \cup Gates |->
           IF \/ t \in reviews \cup reviewEdges
              \/ t \in Edges /\ readBy(again, t)
           THEN NoFingerprint ELSE r.approvals[t]]
  BY RevisionEvidence
<1> HIDE DEF q
<1>3. D \subseteq Loops /\ again = UNION {RequeuedNodes(l) : l \in D}
  BY DEF DueLoops, AttemptNodes
<1>4. N \subseteq Nodes /\ basisOf(g, N)
  BY EvidenceNodesBasis
<1> HIDE DEF D, again
<1>5. g \notin again /\ g \in Nodes
  BY DEF again, D, Gates
<1>6. N \cap again = {}
  <2> SUFFICES ASSUME NEW n \in N, n \in again PROVE FALSE
    OBVIOUS
  <2>1. PICK l \in D : n \in RequeuedNodes(l)
    BY <1>3
  <2>2. g \in RequeuedNodes(l)
    BY <1>3, <2>1 DEF LoopsTakeTheGate
  <2>3. QED
    BY <1>3, <1>5, <2>1, <2>2
<1> HIDE DEF N
<1>7. reviews \subseteq again /\ reviewEdges \subseteq Edges
  <2>1. \A l \in Loops : LoopOf[l].review \in RequeuedNodes(l) /\ LoopOf[l].reviewEdge \in Edges
    BY CanvasAssumption DEF RequeuedNodes, LoopConfig
  <2>2. QED
    BY <1>3, <2>1
<1>8. ASSUME NEW e \in EdgesOfType("review"), EdgeOf[e].source \in N, ReviewerOf(e) \in N
      PROVE  q.assessments[e] = r.assessments[e]
  <2>1. e \in Edges /\ EdgeOf[e].source \notin again /\ ReviewerOf(e) \notin again
    BY <1>6, <1>8 DEF EdgesOfType
  <2>2. e \notin reviewEdges
    <3>1. \A l \in Loops : LoopOf[l].implementation \in RequeuedNodes(l)
                           /\ EdgeOf[LoopOf[l].reviewEdge].source = LoopOf[l].implementation
      BY ValidCanvas DEF RequeuedNodes
    <3>2. QED
      BY <1>3, <2>1, <3>1
  <2> HIDE DEF reviewEdges
  <2>3. QED
    BY <1>2, <2>1, <2>2 DEF producedBy
<1>9. q.checks[g] = r.checks[g]
  <2>1. g \notin reviews
    BY <1>5, <1>7
  <2>2. ASSUME NEW x \in Tests, r.checks[g][x] # NoCheck
        PROVE  x \notin again /\ reviewedSourceForGate(g) \notin again
    <3>1. x \in NodeOf[g].checks
      BY <2>2 DEF freshEvidence, freshCheck
    <3>2. reviewedSourceForGate(g) \in reviewedSourceIdsForGate(g)
      BY <3>1, GateSourceAssumption DEF reviewedSourceForGate
    <3>3. x \in N /\ reviewedSourceForGate(g) \in N
      BY <1>4, <3>1, <3>2 DEF basisOf
    <3>4. QED
      BY <1>6, <3>3
  <2> HIDE DEF reviews
  <2>3. QED
    BY <1>2, <2>1, <2>2
<1>10. q.approvals[g] = r.approvals[g]
  <2>1. g \notin Edges
    BY <1>5, ValidCanvas
  <2>2. g \notin reviews \cup reviewEdges
    BY <1>5, <1>7, <2>1
  <2> HIDE DEF reviews, reviewEdges
  <2>3. QED
    BY <1>2, <2>1, <2>2
<1>11. \A e \in EdgesOfType("context") : EdgeOf[e].target = g => q.contexts[e] = r.contexts[e]
  BY <1>2, <1>5 DEF EdgesOfType, readBy
<1>12. \A e \in EdgesOfType("output") : EdgeOf[e].source \in N => q.outputs[e] = r.outputs[e]
  BY <1>2, <1>6 DEF EdgesOfType, producedBy
<1>13. \A n \in N : q.status[n] = r.status[n] /\ q.attempt[n] = r.attempt[n]
                    /\ q.artifacts[n] = r.artifacts[n]
  BY <1>1, <1>2, <1>4, <1>6
<1>14. q.attempt[g] = r.attempt[g]
  BY <1>1, <1>5
<1>15. Keeps(r, q, N, g)
  BY <1>8, <1>9, <1>10, <1>11, <1>12, <1>13, <1>14 DEF Keeps
<1>16. QED
  BY <1>15 DEF q, N

-----------------------------------------------------------------------------
(* Gates stand on current evidence *)

\* A gate runs only after the nodes of its review edges have succeeded.
runningGates(r) ==
  \A g \in Gates : r.status[g] = "running" =>
    \A e \in EdgesOfType("review") :
      EdgeOf[e].target = g => r.status[EdgeOf[e].source] = "succeeded"

\* Gate g has passed on evidence that counts now, and if a person approved it, the
\* work approved is done.
stands(r, g) ==
  /\ reviewGateEvaluation(r, g) = "passed"
  /\ NodeOf[g].humanApproval => \A m \in reviewedSourceIdsForGate(g) : r.status[m] = "succeeded"

\* Every gate that succeeded stands.
gatesStand(r) == \A g \in Gates : r.status[g] = "succeeded" => stands(r, g)

\* The inductive invariant behind GateStandsOnCurrentEvidence.
Standing(r) == assessedReviewers(r) /\ runningGates(r) /\ gatesStand(r)

\* A review edge that lets its target start has seen its source succeed.
LEMMA ReviewSatisfied ==
  ASSUME NEW r \in Runtimes, NEW n \in Nodes, canStartWorkflowNode(r, n),
         NEW e \in EdgesOfType("review"), EdgeOf[e].target = n
  PROVE  r.status[EdgeOf[e].source] = "succeeded"
<1> DEFINE seen == canvasNodeStatus(r)[EdgeOf[e].source]
<1>1. e \in Edges /\ EdgeOf[e].type = "review" /\ EdgeOf[e].source \in Nodes /\ e \in Incoming(n)
  BY CanvasAssumption DEF EdgesOfType, Incoming
<1>2. reviewDisposition(r, e, seen) \notin {"blocked", "waiting", "waiting-for-approval"}
  <2>1. evaluateExecutableEdge(r, e) = reviewDisposition(r, e, seen)
    BY <1>1 DEF evaluateExecutableEdge, edgeDisposition
  <2>2. QED
    BY <1>1, <2>1, ReadyEdges
<1>3. seen = "succeeded" => r.status[EdgeOf[e].source] = "succeeded"
  BY <1>1, SeenSucceeded
<1> HIDE DEF seen
<1>4. seen = "succeeded"
  BY <1>2 DEF reviewDisposition, dependencyDisposition
<1>5. QED
  BY <1>3, <1>4

\* A gate that stands goes on standing while what it rests on is kept.
LEMMA StandsKept ==
  ASSUME AcyclicReviews, ApprovalSeesTheWork, NEW r \in Runtimes, NEW q \in Runtimes,
         NEW g \in Gates, Keeps(r, q, EvidenceNodes(g), g), assessedReviewers(r), stands(r, g)
  PROVE  stands(q, g)
<1>1. reviewGateEvaluation(q, g) = "passed"
  BY PassedKept DEF stands
<1>2. \A m \in reviewedSourceIdsForGate(g) : r.status[m] = "succeeded" => q.status[m] = "succeeded"
  BY EvidenceNodesBasis DEF basisOf, Keeps
<1>3. QED
  BY <1>1, <1>2 DEF stands

\* A running gate whose evidence passes has the work it reviews done.
LEMMA RunningGateStands ==
  ASSUME ApprovalSeesTheWork, NEW r \in Runtimes, NEW g \in Gates, runningGates(r),
         r.status[g] = "running", reviewGateEvaluation(r, g) = "passed"
  PROVE  stands(r, g)
<1> SUFFICES ASSUME NodeOf[g].humanApproval, NEW m \in reviewedSourceIdsForGate(g)
             PROVE  r.status[m] = "succeeded"
  BY DEF stands
<1>1. \A x \in reviewedSourceIdsForGate(g) : x = m
  BY GateSourceAssumption
<1>2. CASE NodeOf[g].checks # {}
  <2>1. PICK p \in NodeOf[g].checks : TRUE
    BY <1>2
  <2>2. /\ reviewedSourceForGate(g) \in reviewedSourceIdsForGate(g)
        /\ Succeeded(r, reviewedSourceForGate(g))
    BY <2>1, PassedCheck
  <2>3. QED
    BY <1>1, <2>2 DEF Succeeded
<1>3. ASSUME NEW e \in EdgesOfType("review"), EdgeOf[e].target = g PROVE r.status[m] = "succeeded"
  <2>1. EdgeOf[e].source \in reviewedSourceIdsForGate(g)
    BY <1>3 DEF reviewedSourceIdsForGate
  <2>2. r.status[EdgeOf[e].source] = "succeeded"
    BY <1>3 DEF runningGates
  <2>3. QED
    BY <1>1, <2>1, <2>2
<1>4. CASE NodeOf[g].reviewerAgent # NoNode
  <2>1. PICK e \in GateReviewEdges(g) : TRUE
    BY <1>4, PassedReview
  <2>2. QED
    BY <1>3, <2>1 DEF GateReviewEdges
<1>5. QED
  BY <1>2, <1>3, <1>4 DEF ApprovalSeesTheWork

\* Initially nothing has been recorded, started or passed.
LEMMA StandingInit == Init => Standing(rt)
  BY DEF Init, createWorkflowExecutionRuntime, Standing, assessedReviewers, runningGates, gatesStand,
         NoAssessment, EdgesOfType, Gates

\* A step that holds every success on the same evidence and starts nothing.
LEMMA SameStanding ==
  ASSUME AcyclicReviews, ApprovalSeesTheWork, NEW r \in Runtimes, NEW q \in Runtimes,
         sameEvidence(r, q), successHeld(r, q), Standing(r), runningGates(q)
  PROVE  Standing(q)
<1>1. assessedReviewers(q)
  BY DEF Standing, assessedReviewers, sameEvidence, successHeld
<1>2. ASSUME NEW g \in Gates, q.status[g] = "succeeded" PROVE stands(q, g)
  <2>1. stands(r, g)
    BY <1>2 DEF Standing, gatesStand, successHeld
  <2>2. Keeps(r, q, EvidenceNodes(g), g)
    BY EvidenceNodesBasis, SameKeeps DEF successHeld
  <2>3. QED
    BY <2>1, <2>2, StandsKept DEF Standing
<1>3. QED
  BY <1>1, <1>2 DEF Standing, gatesStand

\* Every step keeps every gate standing.
LEMMA StandingNext ==
  ASSUME AcyclicReviews, LoopsTakeTheGate, ApprovalSeesTheWork, Inv, Standing(rt), Next
  PROVE  Standing(rt')
<1>1. rt \in Runtimes /\ TypeOK /\ freshEvidence(rt)
  BY DEF Inv, TypeOK, NoStaleEvidence
<1>2. rt' \in Runtimes
  <2>1. CASE Preserves(rt, rt')
    BY <2>1 DEF Preserves
  <2>2. ASSUME NEW n \in Nodes, rt' = startWorkflowNode(rt, n) PROVE rt' \in Runtimes
    BY <1>1, <2>2, SetNodeRun DEF startWorkflowNode, RunStatus, FailureCode
  <2>3. QED
    BY <1>1, <2>1, <2>2, NextStep
<1>3. ASSUME \A n \in Nodes : rt.status[n] = "succeeded" => rt'.status[n] = "succeeded"
      PROVE  runningGates(rt')
  <2> SUFFICES ASSUME NEW g \in Gates, rt'.status[g] = "running",
                      NEW e \in EdgesOfType("review"), EdgeOf[e].target = g
               PROVE  rt'.status[EdgeOf[e].source] = "succeeded"
    BY DEF runningGates
  <2>1. EdgeOf[e].source \in Nodes /\ g \in Nodes
    BY CanvasAssumption DEF EdgesOfType, Gates
  <2>2. rt.status[EdgeOf[e].source] = "succeeded"
    <3>1. CASE rt.status[g] = "running"
      BY <3>1 DEF Standing, runningGates
    <3>2. CASE rt.status[g] # "running"
      <4>1. ~Preserves(rt, rt')
        BY <2>1, <3>2 DEF Preserves, startsNothing
      <4>2. PICK x \in Nodes : canStartWorkflowNode(rt, x) /\ rt' = startWorkflowNode(rt, x)
        BY <1>1, <4>1, NextStep
      <4>3. rt'.status = [rt.status EXCEPT ![x] = "running"]
        BY <1>1, <4>2, SetNodeRun DEF startWorkflowNode, RunStatus, FailureCode
      <4>4. x = g
        BY <1>1, <2>1, <3>2, <4>3 DEF Runtimes
      <4>5. QED
        BY <1>1, <4>2, <4>4, ReviewSatisfied
    <3>3. QED
      BY <3>1, <3>2
  <2>3. QED
    BY <1>3, <2>1, <2>2
<1>4. ASSUME sameEvidence(rt, rt'), successHeld(rt, rt') PROVE Standing(rt')
  BY <1>1, <1>2, <1>3, <1>4, SameStanding DEF successHeld
<1>5. ASSUME sameEvidence(rt, rt'), NEW X, Forward(rt, rt', X) PROVE Standing(rt')
  BY <1>4, <1>5, ForwardHolds
<1>6. CASE ReconcileEvidence
  <2>1. rt' = reconcile(rt) /\ successHeld(rt, rt')
    BY <1>1, <1>6, ForwardReconcile, ForwardHolds DEF ReconcileEvidence
  <2>2. runningGates(rt')
    BY <1>3, <2>1 DEF successHeld
  <2>3. assessedReviewers(rt')
    <3>1. reconcile(rt).assessments = rt.assessments
      BY <1>1, ReconcileAssessments
    <3>2. QED
      BY <2>1, <3>1 DEF Standing, assessedReviewers, successHeld
  <2>4. ASSUME NEW g \in Gates, rt'.status[g] = "succeeded" PROVE stands(rt', g)
    <3>1. rt.status[g] = "succeeded" /\ stands(rt, g)
      BY <2>1, <2>4 DEF Standing, gatesStand, successHeld
    <3>2. Keeps(rt, rt', EvidenceNodes(g), g)
      BY <1>1, <2>1, <3>1, EvidenceNodesBasis, ReconcileKeeps
    <3>3. QED
      BY <1>1, <1>2, <3>1, <3>2, StandsKept DEF Standing
  <2>5. QED
    BY <2>2, <2>3, <2>4 DEF Standing, gatesStand
<1>7. CASE UpdateSchedule
  <2> DEFINE p == settleBlockedWorkflowNodes(rt)
  <2>1. Forward(rt, p, Nodes) /\ sameEvidence(rt, p) /\ rt' = markWaitingForApprovals(p)
    BY <1>1, <1>7, ForwardSettle, SettleEvidence DEF UpdateSchedule
  <2> HIDE DEF p
  <2>2. Forward(p, rt', Nodes) /\ sameEvidence(p, rt')
    BY <2>1, ForwardMarkWaiting, RunsEvidence DEF Forward, markWaitingForApprovals
  <2>3. QED
    BY <1>5, <2>1, <2>2, ForwardTrans, SameEvidenceTrans
<1>8. ASSUME NEW n \in Nodes, StartNode(n) PROVE Standing(rt')
  <2>1. Forward(rt, rt', Nodes)
    BY <1>1, <1>8, ForwardStart DEF StartNode
  <2>2. sameEvidence(rt, rt')
    BY <1>1, <1>8, RunsEvidence DEF StartNode, startWorkflowNode
  <2>3. QED
    BY <1>5, <2>1, <2>2
<1>9. ASSUME NEW n \in Nodes, FailNodeBeforeLaunch(n) PROVE Standing(rt')
  <2> DEFINE p == setNodeRun(rt, n, "failed", "other")
  <2>1. Forward(rt, rt', Nodes)
    BY <1>1, <1>9, ForwardFailBeforeLaunch DEF FailNodeBeforeLaunch, canFailWorkflowNodeBeforeLaunch
  <2>2. p \in Runtimes /\ sameEvidence(rt, p) /\ rt' = settleBlockedWorkflowNodes(p)
    BY <1>1, <1>9, SetNodeRun, RunsEvidence
    DEF FailNodeBeforeLaunch, failWorkflowNodeBeforeLaunch, RunStatus, FailureCode
  <2> HIDE DEF p
  <2>3. QED
    BY <1>5, <2>1, <2>2, SettleEvidence, SameEvidenceTrans
<1>10. ASSUME NEW n \in Nodes, NEW result \in ExecutorResults(n), CompleteNode(n, result)
       PROVE  Standing(rt')
  <2>1. n \notin Gates /\ rt.status[n] \in ActiveStatus /\ rt' = recordCompletion(rt, n, result)
    BY <1>10 DEF CompleteNode
  <2>2. Forward(rt, rt', {n})
    BY <1>1, <2>1, ForwardCompletion
  <2>3. successHeld(rt, rt')
    BY <2>2, ForwardHolds
  <2>4. /\ changesOnly(rt, rt', n)
        /\ \A e \in EdgesOfType("review") : EdgeOf[e].reviewer = "gate" /\ ReviewerOf(e) = n =>
             rt'.status[n] = "succeeded" \/ rt'.assessments[e] = rt.assessments[e]
    BY <1>1, <2>1, CompletionChanges
  <2>5. rt.status[n] # "succeeded"
    BY <2>1 DEF ActiveStatus
  <2>6. assessedReviewers(rt')
    <3> SUFFICES ASSUME NEW e \in EdgesOfType("review"), EdgeOf[e].reviewer = "gate",
                        rt'.assessments[e].verdict # "none"
                 PROVE  ReviewerOf(e) \in Nodes /\ rt'.status[ReviewerOf(e)] = "succeeded"
      BY DEF assessedReviewers
    <3>1. CASE rt'.assessments[e] = rt.assessments[e]
      BY <2>3, <3>1 DEF Standing, assessedReviewers, successHeld
    <3>2. CASE rt'.assessments[e] # rt.assessments[e]
      BY <2>4, <3>2 DEF changesOnly
    <3>3. QED
      BY <3>1, <3>2
  <2>7. runningGates(rt')
    BY <1>3, <2>3 DEF successHeld
  <2>8. ASSUME NEW g \in Gates, rt'.status[g] = "succeeded" PROVE stands(rt', g)
    <3>1. rt.status[g] = "succeeded" /\ stands(rt, g)
      BY <2>3, <2>8 DEF Standing, gatesStand, successHeld
    <3>2. Keeps(rt, rt', EvidenceNodes(g), g)
      BY <2>3, <2>4, <2>5, <3>1, EvidenceNodesBasis, ChangesKeep
    <3>3. QED
      BY <1>1, <1>2, <3>1, <3>2, StandsKept DEF Standing
  <2>9. QED
    BY <2>6, <2>7, <2>8 DEF Standing, gatesStand
<1>11. ASSUME NEW g \in Gates, CompleteGate(g) PROVE Standing(rt')
  <2>1. rt.status[g] = "running" /\ rt' = completeInternalReviewGate(rt, g)
    BY <1>11 DEF CompleteGate
  <2>2. /\ sameEvidence(rt, rt')
        /\ \A n \in Nodes : rt.status[n] = "succeeded" => rt'.status[n] = "succeeded"
        /\ \A h \in Gates \ {g} : rt'.status[h] = "succeeded" => rt.status[h] = "succeeded"
        /\ rt'.status[g] = "succeeded" => reviewGateEvaluation(rt, g) = "passed"
    BY <1>1, <2>1, GateEndKeeps
  <2>3. assessedReviewers(rt')
    BY <2>2 DEF Standing, assessedReviewers, sameEvidence
  <2>4. ASSUME NEW h \in Gates, rt'.status[h] = "succeeded" PROVE stands(rt', h)
    <3>1. stands(rt, h)
      <4>1. CASE h = g
        BY <1>1, <2>1, <2>2, <2>4, <4>1, RunningGateStands DEF Standing
      <4>2. CASE h # g
        BY <2>2, <2>4, <4>2 DEF Standing, gatesStand
      <4>3. QED
        BY <4>1, <4>2
    <3>2. Keeps(rt, rt', EvidenceNodes(h), h)
      BY <2>2, EvidenceNodesBasis, SameKeeps
    <3>3. QED
      BY <1>1, <1>2, <3>1, <3>2, StandsKept DEF Standing
  <2>5. QED
    BY <1>3, <2>2, <2>3, <2>4 DEF Standing, gatesStand
<1>12. ASSUME NEW t \in ApprovalTargets, ApproveHumanDecision(t) PROVE Standing(rt')
  <2>1. awaitingHumanDecision(rt, t) /\ rt' = approveWorkflowHumanDecision(rt, t)
    BY <1>12 DEF ApproveHumanDecision
  <2>2. rt'.status = rt.status /\ rt'.assessments = rt.assessments
    BY <1>1, <2>1 DEF approveWorkflowHumanDecision, Runtimes
  <2>3. assessedReviewers(rt') /\ runningGates(rt')
    BY <2>2 DEF Standing, assessedReviewers, runningGates
  <2>4. ASSUME NEW g \in Gates, rt'.status[g] = "succeeded" PROVE stands(rt', g)
    <3>1. stands(rt, g)
      BY <2>2, <2>4 DEF Standing, gatesStand
    <3>2. t # g
      BY <2>1, <3>1 DEF awaitingHumanDecision, stands
    <3>3. Keeps(rt, rt', EvidenceNodes(g), g)
      BY <1>1, <2>1, <3>2, EvidenceNodesBasis, ApproveKeeps
    <3>4. QED
      BY <1>1, <1>2, <3>1, <3>3, StandsKept DEF Standing
  <2>5. QED
    BY <2>3, <2>4 DEF Standing, gatesStand
<1>13. ASSUME NEW e \in HumanReviewEdges, NEW d \in {"approved", "changes-requested"},
              RecordHumanReview(e, d)
       PROVE  Standing(rt')
  <2> DEFINE p == recordWorkflowHumanReviewDecision(rt, e, d)
  <2>1. Forward(rt, p, Nodes)
    BY <1>1, <1>13, ForwardDecision DEF RecordHumanReview, canRecordWorkflowHumanReviewDecision
  <2>2. sameEvidence(rt, p)
    BY <1>1, <1>13, DecisionEvidence
  <2>3. rt' \in routeHumanReview(p, e)
    BY <1>13 DEF RecordHumanReview
  <2> HIDE DEF p
  <2>4. CASE rt' = p
    BY <1>5, <2>1, <2>2, <2>4
  <2>5. ASSUME NEW l \in Loops, rt' = applyRevisionReview(p, l) PROVE Standing(rt')
    <3>1. p \in Runtimes /\ successHeld(rt, p)
      BY <2>1, ForwardHolds DEF Forward
    <3>2. rt'.status = p.status /\ sameEvidence(p, rt')
      BY <2>5, <3>1, ReviewApplied, ApplyEvidence
    <3>3. sameEvidence(rt, rt') /\ successHeld(rt, rt')
      BY <2>2, <3>1, <3>2, SameEvidenceTrans DEF successHeld
    <3>4. QED
      BY <1>4, <3>3
  <2>6. QED
    BY <2>3, <2>4, <2>5 DEF routeHumanReview
<1>14. CASE QueueRevisions
  <2> DEFINE again == AttemptNodes(DueLoops(rt))
             reviewEdges == {LoopOf[l].reviewEdge : l \in DueLoops(rt)}
  <2>1. NoGateRunning /\ rt' = queueEligibleRevisionAttempts(rt)
    BY <1>14 DEF QueueRevisions
  <2>2. rt'.status = [n \in Nodes |-> IF n \in again THEN "queued" ELSE rt.status[n]]
    BY <1>1, <2>1, AttemptsQueued
  <2>3. rt'.assessments = [e \in Edges |->
          IF \/ e \in reviewEdges
             \/ producedBy(again, e)
             \/ EdgeOf[e].type = "review" /\ ReviewerOf(e) \in again
          THEN NoAssessment ELSE rt.assessments[e]]
    BY <1>1, <2>1, RevisionEvidence
  <2>4. ASSUME NEW g \in Gates, rt'.status[g] = "succeeded" PROVE stands(rt', g)
    <3>1. g \notin again /\ stands(rt, g)
      BY <2>2, <2>4 DEF Gates, Standing, gatesStand
    <3>2. Keeps(rt, rt', EvidenceNodes(g), g)
      BY <1>1, <2>1, <3>1, RevisionKeeps
    <3>3. QED
      BY <1>1, <1>2, <3>1, <3>2, StandsKept DEF Standing
  <2> HIDE DEF again, reviewEdges
  <2>5. runningGates(rt')
    BY <2>1, <2>2 DEF runningGates, NoGateRunning, Gates
  <2>6. assessedReviewers(rt')
    <3> SUFFICES ASSUME NEW e \in EdgesOfType("review"), EdgeOf[e].reviewer = "gate",
                        rt'.assessments[e].verdict # "none"
                 PROVE  ReviewerOf(e) \in Nodes /\ rt'.status[ReviewerOf(e)] = "succeeded"
      BY DEF assessedReviewers
    <3>1. e \in Edges /\ EdgeOf[e].type = "review"
      BY DEF EdgesOfType
    <3>2. ReviewerOf(e) \notin again /\ rt'.assessments[e] = rt.assessments[e]
      BY <2>3, <3>1 DEF NoAssessment
    <3>3. ReviewerOf(e) \in Nodes /\ rt.status[ReviewerOf(e)] = "succeeded"
      BY <3>2 DEF Standing, assessedReviewers
    <3>4. QED
      BY <2>2, <3>2, <3>3
  <2>7. QED
    BY <2>4, <2>5, <2>6 DEF Standing, gatesStand
<1>15. ASSUME NEW l \in Loops, CancelEscape(l) PROVE Standing(rt')
  BY <1>1, <1>4, <1>15, CancelEscapeKeeps DEF CancelEscape
<1>16. ASSUME NEW l \in Loops, AcceptEscape(l) PROVE Standing(rt')
  BY <1>1, <1>4, <1>16, AcceptEscapeKeeps DEF AcceptEscape
<1>17. ASSUME NEW l \in Loops, BackoffElapses(l) PROVE Standing(rt')
  <2>1. sameEvidence(rt, rt') /\ rt'.status = rt.status
    BY <1>1, <1>17 DEF BackoffElapses, Runtimes, sameEvidence
  <2>2. QED
    BY <1>4, <2>1 DEF successHeld
<1>18. CASE CancelExecution
  <2>1. Forward(rt, rt', Nodes)
    BY <1>1, <1>18, ForwardCancelExecution DEF CancelExecution
  <2> DEFINE p == requestWorkflowCancellation(rt)
  <2>2. p \in Runtimes /\ sameEvidence(rt, p)
    BY <1>1, ForwardRequestCancellation, RequestCancellationEvidence DEF Forward
  <2>3. rt' = [p EXCEPT !.cancellationRequested = TRUE, !.activeLoops = {}]
    BY <1>18 DEF CancelExecution, cancelWorkflowExecution
  <2> HIDE DEF p
  <2>4. sameEvidence(p, rt')
    BY <2>2, <2>3 DEF Runtimes, sameEvidence
  <2>5. QED
    BY <1>5, <2>1, <2>2, <2>4, SameEvidenceTrans
<1>19. CASE RecoverExecution
  BY <1>1, <1>5, <1>19, ForwardRecover, RecoverEvidence DEF RecoverExecution
<1>20. QED
  BY <1>6, <1>7, <1>8, <1>9, <1>10, <1>11, <1>12, <1>13, <1>14, <1>15, <1>16, <1>17, <1>18, <1>19
  DEF Next

\* A gate that has succeeded stands on evidence that still counts: every required
\* check passed, and the reviewer and the person approved, for the attempt of the
\* reviewed node that is current now. It holds on every valid canvas on which a loop
\* that requeues what a gate rests on requeues the gate, and a person at a gate approves
\* work that is done and that nobody but the gate's own reviewer assesses.
\* (Canvas validation rules out neither; on a canvas without them a gate that passed
\* may be left on evidence that a later revision or review has replaced.)
THEOREM GatesStand ==
  ASSUME AcyclicReviews, LoopsTakeTheGate, ApprovalSeesTheWork
  PROVE  Spec => []GateStandsOnCurrentEvidence
<1>1. ASSUME Inv, Standing(rt), [Next]_rt PROVE Standing(rt)'
  <2>1. CASE Next
    BY <1>1, <2>1, StandingNext
  <2>2. CASE UNCHANGED rt
    BY <1>1, <2>2 DEF Standing, assessedReviewers, runningGates, gatesStand, stands
  <2>3. QED
    BY <1>1, <2>1, <2>2
<1>2. Standing(rt) => GateStandsOnCurrentEvidence
  BY DEF Standing, gatesStand, stands, GateStandsOnCurrentEvidence
<1>3. QED
  BY <1>1, <1>2, StandingInit, Invariance, PTL DEF Spec
=============================================================================
