----------------------- MODULE WorkflowRuntimeProofs -----------------------
(***************************************************************************)
(* Proofs about WorkflowRuntime, for every canvas that satisfies its       *)
(* assumptions. Almost every operation of the runtime is a composition of  *)
(* a few updates that start nothing. Preserves(r, q) says what all of them *)
(* have in common; it is transitive, so each operation gets one lemma that *)
(* chains those of the updates it is made of. Only StartNode is different. *)
(*                                                                         *)
(* The demand of a set of nodes is a fold of the library, whose definition *)
(* takes the elements in an order nobody chose. The sums that come of it   *)
(* exist (SumExists), do not depend on the order (SumStep) or on the set   *)
(* they are defined over (SumIsUnique), and grow with the set (SumGrows);  *)
(* each is shown by its smallest counterexample, which the theorems on     *)
(* well-founded relations provide.                                         *)
(***************************************************************************)
EXTENDS WorkflowRuntime, FiniteSetTheorems, WellFoundedInduction, TLAPS

Aggregated(r) == r.runStatus = aggregateWorkflowStatus(r.status)

loopsWithinAttempts(r) == \A l \in Loops : withinAttempts(r, l)

\* No node is active, or running, in q that was not so in r.
startsNothing(r, q) ==
  \A n \in Nodes : /\ q.status[n] \in ActiveStatus => r.status[n] \in ActiveStatus
                   /\ q.status[n] = "running" => r.status[n] = "running"

\* q keeps what is known of the attempts and loops of r.
sameRecords(r, q) ==
  /\ q.attempt = r.attempt /\ q.loop = r.loop
  /\ q.outputs = r.outputs /\ q.contexts = r.contexts /\ q.artifacts = r.artifacts
  /\ q.assessments = r.assessments /\ q.checks = r.checks
  /\ q.cancellationRequested = r.cancellationRequested

Preserves(r, q) ==
  /\ q \in Runtimes
  /\ Aggregated(r) => Aggregated(q)
  /\ startsNothing(r, q)
  /\ freshEvidence(r) => freshEvidence(q)
  /\ loopsWithinAttempts(r) => loopsWithinAttempts(q)
  /\ r.cancellationRequested => q.cancellationRequested

\* Doing nothing preserves everything.
LEMMA PreservesRefl == \A r \in Runtimes : Preserves(r, r)
  BY DEF Preserves, startsNothing

\* What two updates preserve, their composition preserves.
LEMMA PreservesTrans ==
  \A r, p, q : Preserves(r, p) /\ Preserves(p, q) => Preserves(r, q)
  BY DEF Preserves, startsNothing

\* Evidence and loops read nothing but the records.
LEMMA SameRecordsPreserve ==
  \A r, q : sameRecords(r, q) =>
    /\ freshEvidence(r) => freshEvidence(q)
    /\ loopsWithinAttempts(r) => loopsWithinAttempts(q)
    /\ r.cancellationRequested => q.cancellationRequested
  BY DEF sameRecords, freshEvidence, freshEdgeEvidence, freshCheck, loopsWithinAttempts,
         withinAttempts

\* The aggregate of node statuses is a run status.
LEMMA AggregateType == \A st : aggregateWorkflowStatus(st) \in RunStatus
  BY DEF aggregateWorkflowStatus, RunStatus

\* replaceRunState stores the aggregate with the statuses and touches nothing else.
LEMMA ReplaceRunState ==
  ASSUME NEW r \in Runtimes, NEW st \in [Nodes -> RunStatus]
  PROVE  LET q == replaceRunState(r, st) IN
         /\ q \in Runtimes /\ q.status = st /\ Aggregated(q)
         /\ q.failureCode = r.failureCode
         /\ sameRecords(r, q)
  BY AggregateType DEF replaceRunState, Runtimes, Aggregated, sameRecords

\* Failure codes are independent of everything the other lemmas are about.
LEMMA SetFailureCode ==
  ASSUME NEW r \in Runtimes, NEW f \in [Nodes -> FailureCode]
  PROVE  LET q == [r EXCEPT !.failureCode = f] IN
         /\ q \in Runtimes /\ q.status = r.status /\ q.runStatus = r.runStatus
         /\ sameRecords(r, q)
  BY DEF Runtimes, sameRecords

\* setNodeRun changes the run of one node.
LEMMA SetNodeRun ==
  ASSUME NEW r \in Runtimes, NEW n \in Nodes, NEW s \in RunStatus, NEW c \in FailureCode
  PROVE  LET q == setNodeRun(r, n, s, c) IN
         /\ q \in Runtimes /\ q.status = [r.status EXCEPT ![n] = s] /\ Aggregated(q)
         /\ sameRecords(r, q)
<1> DEFINE st == [r.status EXCEPT ![n] = s]
           p == replaceRunState(r, st)
           f == [p.failureCode EXCEPT ![n] = c]
<1>1. st \in [Nodes -> RunStatus]
  BY DEF Runtimes
<1>2. p \in Runtimes /\ p.status = st /\ Aggregated(p) /\ sameRecords(r, p)
  BY <1>1, ReplaceRunState
<1> HIDE DEF p
<1>3. f \in [Nodes -> FailureCode]
  BY <1>2 DEF Runtimes
<1>4. setNodeRun(r, n, s, c) = [p EXCEPT !.failureCode = f]
  BY DEF setNodeRun, p
<1> HIDE DEF f, st
<1>5. QED
  BY <1>2, <1>3, <1>4, SetFailureCode DEF Aggregated, sameRecords, st

\* Ending or parking one node preserves everything.
LEMMA EndNodeRun ==
  ASSUME NEW r \in Runtimes, NEW n \in Nodes, NEW s \in RunStatus \ ActiveStatus,
         NEW c \in FailureCode
  PROVE  Preserves(r, setNodeRun(r, n, s, c))
<1> DEFINE q == setNodeRun(r, n, s, c)
<1>1. q \in Runtimes /\ q.status = [r.status EXCEPT ![n] = s] /\ Aggregated(q) /\ sameRecords(r, q)
  BY SetNodeRun
<1> HIDE DEF q
<1>2. startsNothing(r, q)
  BY <1>1 DEF startsNothing, Runtimes, ActiveStatus
<1>3. Preserves(r, q)
  BY <1>1, <1>2, SameRecordsPreserve DEF Preserves
<1>4. QED
  BY <1>3 DEF q

\* So does any change of statuses that starts nothing, with any failure codes.
LEMMA ChangeRuns ==
  ASSUME NEW r \in Runtimes, NEW st \in [Nodes -> RunStatus], NEW f \in [Nodes -> FailureCode],
         \A n \in Nodes : /\ st[n] \in ActiveStatus => r.status[n] \in ActiveStatus
                          /\ st[n] = "running" => r.status[n] = "running"
  PROVE  /\ Preserves(r, replaceRunState(r, st))
         /\ Preserves(r, [replaceRunState(r, st) EXCEPT !.failureCode = f])
<1> DEFINE p == replaceRunState(r, st)
           q == [p EXCEPT !.failureCode = f]
<1>1. p \in Runtimes /\ p.status = st /\ Aggregated(p) /\ sameRecords(r, p)
  BY ReplaceRunState
<1> HIDE DEF p
<1>2. q \in Runtimes /\ q.status = p.status /\ q.runStatus = p.runStatus /\ sameRecords(p, q)
  BY <1>1, SetFailureCode
<1> HIDE DEF q
<1>3. startsNothing(r, p) /\ startsNothing(r, q) /\ Aggregated(q) /\ sameRecords(r, q)
  BY <1>1, <1>2 DEF startsNothing, Aggregated, sameRecords
<1>4. Preserves(r, p) /\ Preserves(r, q)
  BY <1>1, <1>2, <1>3, SameRecordsPreserve DEF Preserves
<1>5. QED
  BY <1>4 DEF p, q

\* Which loops are active matters to none of it.
LEMMA SetActiveLoops ==
  ASSUME NEW r \in Runtimes, NEW A \in SUBSET Loops
  PROVE  Preserves(r, [r EXCEPT !.activeLoops = A])
<1> DEFINE q == [r EXCEPT !.activeLoops = A]
<1>1. q \in Runtimes /\ q.status = r.status /\ q.runStatus = r.runStatus /\ sameRecords(r, q)
  BY DEF Runtimes, sameRecords
<1> HIDE DEF q
<1>2. Preserves(r, q)
  BY <1>1, SameRecordsPreserve DEF Preserves, startsNothing, Aggregated
<1>3. QED
  BY <1>2 DEF q

-----------------------------------------------------------------------------
(* Scheduling *)

\* cancelUnstarted cancels nodes that have no process.
LEMMA CancelUnstarted ==
  ASSUME NEW r \in Runtimes, NEW S
  PROVE  Preserves(r, cancelUnstarted(r, S))
<1> DEFINE hit == {n \in Nodes : n \in S /\ r.status[n] \in UnstartedStatus}
           st == [n \in Nodes |-> IF n \in hit THEN "cancelled" ELSE r.status[n]]
           f == [n \in Nodes |-> IF n \in hit THEN "none" ELSE r.failureCode[n]]
<1>1. CASE hit = {}
  BY <1>1, PreservesRefl DEF cancelUnstarted
<1>2. CASE hit # {}
  <2>1. st \in [Nodes -> RunStatus] /\ f \in [Nodes -> FailureCode]
    BY DEF Runtimes, RunStatus, FailureCode
  <2>2. \A n \in Nodes : /\ st[n] \in ActiveStatus => r.status[n] \in ActiveStatus
                         /\ st[n] = "running" => r.status[n] = "running"
    BY DEF ActiveStatus
  <2> HIDE DEF st
  <2>3. replaceRunState(r, st).failureCode = r.failureCode
    BY <2>1, ReplaceRunState
  <2>4. cancelUnstarted(r, S) = [replaceRunState(r, st) EXCEPT !.failureCode = f]
    BY <1>2, <2>3 DEF cancelUnstarted, st
  <2> HIDE DEF f
  <2>5. QED
    BY <2>1, <2>2, <2>4, ChangeRuns
<1>3. QED
  BY <1>1, <1>2

\* settleBlockedWorkflowNodes, whatever set of nodes its rounds arrive at.
LEMMA Settle ==
  ASSUME NEW r \in Runtimes
  PROVE  Preserves(r, settleBlockedWorkflowNodes(r))
  BY CancelUnstarted DEF settleBlockedWorkflowNodes

\* Marking nodes that wait for a person starts none (markWaitingForApprovals).
LEMMA MarkWaiting ==
  ASSUME NEW r \in Runtimes
  PROVE  Preserves(r, markWaitingForApprovals(r))
<1> DEFINE st == [n \in Nodes |->
       IF r.status[n] = "queued" /\ evaluateNodeReadiness(r, n) = "waiting-for-approval"
       THEN "waiting-for-approval" ELSE r.status[n]]
<1>1. st \in [Nodes -> RunStatus]
  BY DEF Runtimes, RunStatus
<1>2. \A n \in Nodes : /\ st[n] \in ActiveStatus => r.status[n] \in ActiveStatus
                       /\ st[n] = "running" => r.status[n] = "running"
  BY DEF ActiveStatus
<1>3. r.failureCode \in [Nodes -> FailureCode]
  BY DEF Runtimes
<1>4. markWaitingForApprovals(r) = replaceRunState(r, st)
  BY DEF markWaitingForApprovals
<1> HIDE DEF st
<1>5. QED
  BY <1>1, <1>2, <1>3, <1>4, ChangeRuns

\* A launch that failed ends its node and settles what it blocks.
LEMMA FailBeforeLaunch ==
  ASSUME NEW r \in Runtimes, NEW n \in Nodes
  PROVE  Preserves(r, failWorkflowNodeBeforeLaunch(r, n))
<1> DEFINE q == setNodeRun(r, n, "failed", "other")
<1>1. Preserves(r, q)
  BY EndNodeRun DEF RunStatus, ActiveStatus, FailureCode
<1> HIDE DEF q
<1>2. Preserves(q, settleBlockedWorkflowNodes(q))
  BY <1>1, Settle DEF Preserves
<1>3. QED
  BY <1>1, <1>2, PreservesTrans DEF failWorkflowNodeBeforeLaunch, q

\* completeWorkflowNode with any status an executor reports.
LEMMA CompleteWorkflowNode ==
  ASSUME NEW r \in Runtimes, NEW n \in Nodes, NEW s \in TerminalStatus
  PROVE  Preserves(r, completeWorkflowNode(r, n, s))
<1>1. CASE s = "succeeded" /\ DirectReviews(n) # {}
  BY <1>1, EndNodeRun DEF completeWorkflowNode, RunStatus, ActiveStatus, FailureCode
<1>2. CASE ~(s = "succeeded" /\ DirectReviews(n) # {})
  <2> DEFINE code == IF s \in {"failed", "lost"} THEN "other" ELSE "none"
             revised == {l \in r.activeLoops : s = "succeeded" /\ LoopOf[l].implementation = n}
             p == setNodeRun(r, n, s, code)
             q == [p EXCEPT !.activeLoops = p.activeLoops \ revised]
  <2>1. Preserves(r, p)
    BY EndNodeRun DEF RunStatus, TerminalStatus, ActiveStatus, FailureCode
  <2>2. p \in Runtimes /\ p.activeLoops \ revised \in SUBSET Loops
    BY <2>1 DEF Preserves, Runtimes
  <2>3. completeWorkflowNode(r, n, s) = settleBlockedWorkflowNodes(q)
    BY <1>2 DEF completeWorkflowNode
  <2> HIDE DEF p, revised
  <2>4. Preserves(p, q)
    BY <2>2, SetActiveLoops
  <2> HIDE DEF q
  <2>5. Preserves(q, settleBlockedWorkflowNodes(q))
    BY <2>4, Settle DEF Preserves
  <2>6. QED
    BY <2>1, <2>3, <2>4, <2>5, PreservesTrans
<1>3. QED
  BY <1>1, <1>2

\* A cancellation request turns running nodes into cancelling ones only.
LEMMA RequestCancellation ==
  ASSUME NEW r \in Runtimes
  PROVE  Preserves(r, requestWorkflowCancellation(r))
<1> DEFINE st == [n \in Nodes |-> cancellationStatus(r.status[n])]
           f == [n \in Nodes |-> IF cancellationStatus(r.status[n]) = r.status[n]
                                 THEN r.failureCode[n] ELSE "none"]
<1>1. st \in [Nodes -> RunStatus] /\ f \in [Nodes -> FailureCode]
  BY DEF Runtimes, cancellationStatus, RunStatus, FailureCode
<1>2. \A n \in Nodes : /\ st[n] \in ActiveStatus => r.status[n] \in ActiveStatus
                       /\ st[n] = "running" => r.status[n] = "running"
  BY DEF ActiveStatus, cancellationStatus
<1> HIDE DEF st
<1>3. replaceRunState(r, st).failureCode = r.failureCode
  BY <1>1, ReplaceRunState
<1>4. requestWorkflowCancellation(r) = [replaceRunState(r, st) EXCEPT !.failureCode = f]
  BY <1>3 DEF requestWorkflowCancellation, st
<1> HIDE DEF f
<1>5. QED
  BY <1>1, <1>2, <1>4, ChangeRuns

\* The cancellation flag itself changes nothing else.
LEMMA SetCancelled ==
  ASSUME NEW r \in Runtimes, NEW A \in SUBSET Loops
  PROVE  Preserves(r, [r EXCEPT !.cancellationRequested = TRUE, !.activeLoops = A])
<1> DEFINE q == [r EXCEPT !.cancellationRequested = TRUE, !.activeLoops = A]
<1>1. /\ q \in Runtimes /\ q.status = r.status /\ q.runStatus = r.runStatus
      /\ q.attempt = r.attempt /\ q.loop = r.loop /\ q.contexts = r.contexts
      /\ q.outputs = r.outputs /\ q.artifacts = r.artifacts
      /\ q.assessments = r.assessments /\ q.checks = r.checks
      /\ q.cancellationRequested
  BY DEF Runtimes
<1> HIDE DEF q
<1>2. freshEvidence(r) => freshEvidence(q)
  BY <1>1 DEF freshEvidence, freshEdgeEvidence, freshCheck
<1>3. loopsWithinAttempts(r) => loopsWithinAttempts(q)
  BY <1>1 DEF loopsWithinAttempts, withinAttempts
<1>4. Preserves(r, q)
  BY <1>1, <1>2, <1>3 DEF Preserves, startsNothing, Aggregated
<1>5. QED
  BY <1>4 DEF q

\* Cancelling a run: the request, then the flag.
LEMMA CancelWorkflowExecution ==
  ASSUME NEW r \in Runtimes
  PROVE  Preserves(r, cancelWorkflowExecution(r))
<1> DEFINE p == requestWorkflowCancellation(r)
<1>1. Preserves(r, p)
  BY RequestCancellation
<1> HIDE DEF p
<1>2. Preserves(p, [p EXCEPT !.cancellationRequested = TRUE, !.activeLoops = {}])
  BY <1>1, SetCancelled DEF Preserves
<1>3. QED
  BY <1>1, <1>2, PreservesTrans DEF cancelWorkflowExecution, p

\* Recovery after a restart makes active work lost.
LEMMA RecoverWorkflowExecution ==
  ASSUME NEW r \in Runtimes
  PROVE  Preserves(r, recoverWorkflowExecution(r))
<1> DEFINE st == [n \in Nodes |-> IF n \in ActiveNodes(r) THEN "lost" ELSE r.status[n]]
           f == [n \in Nodes |-> IF n \in ActiveNodes(r) THEN "other" ELSE r.failureCode[n]]
           p == [replaceRunState(r, st) EXCEPT !.failureCode = f]
           q == [p EXCEPT !.activeLoops = {}]
<1>1. st \in [Nodes -> RunStatus] /\ f \in [Nodes -> FailureCode]
  BY DEF Runtimes, RunStatus, FailureCode
<1>2. \A n \in Nodes : /\ st[n] \in ActiveStatus => r.status[n] \in ActiveStatus
                       /\ st[n] = "running" => r.status[n] = "running"
  BY DEF ActiveStatus
<1> HIDE DEF st
<1>3. replaceRunState(r, st).failureCode = r.failureCode
  BY <1>1, ReplaceRunState
<1>4. recoverWorkflowExecution(r) = settleBlockedWorkflowNodes(q)
  BY <1>3 DEF recoverWorkflowExecution, st
<1> HIDE DEF f
<1>5. Preserves(r, p)
  BY <1>1, <1>2, ChangeRuns
<1> HIDE DEF p
<1>6. Preserves(p, q)
  BY <1>5, SetActiveLoops DEF Preserves
<1> HIDE DEF q
<1>7. Preserves(q, settleBlockedWorkflowNodes(q))
  BY <1>6, Settle DEF Preserves
<1>8. QED
  BY <1>4, <1>5, <1>6, <1>7, PreservesTrans

-----------------------------------------------------------------------------
(* Evidence *)

\* Approvals and decisions are read by nothing Preserves speaks of.
LEMMA SetDecisions ==
  ASSUME NEW r \in Runtimes, NEW q \in Runtimes,
         q.status = r.status, q.runStatus = r.runStatus, sameRecords(r, q)
  PROVE  Preserves(r, q)
  BY SameRecordsPreserve DEF Preserves, startsNothing, Aggregated

\* The nodes a gate reviews are planned nodes.
LEMMA ReviewedNodes ==
  ASSUME NEW g \in Gates
  PROVE  reviewedSourceIdsForGate(g) \subseteq Nodes
  BY CanvasAssumption DEF reviewedSourceIdsForGate, EdgesOfType, ApprovedByGate, LoopConfig

\* The node a gate with checks reviews is a planned node.
LEMMA ReviewedSource ==
  ASSUME NEW g \in Gates, NodeOf[g].checks # {}
  PROVE  reviewedSourceForGate(g) \in Nodes
  BY GateSourceAssumption DEF reviewedSourceForGate

\* A current assessment is the stored one or none.
LEMMA AssessmentType ==
  ASSUME NEW r \in Runtimes, NEW e \in Edges
  PROVE  currentReviewerAssessmentForEdge(r, e) \in Assessments
<1>1. r.assessments[e] \in Assessments
  BY DEF Runtimes
<1>2. NoAssessment \in Assessments
  BY DEF NoAssessment, Assessments
<1>3. QED
  BY <1>1, <1>2 DEF currentReviewerAssessmentForEdge, AssessmentGiven

\* The missing check is a check entry.
LEMMA NoCheckType == NoCheck \in Checks
  BY DEF NoCheck, Checks

\* The current checks of a gate are entries of planned test nodes.
LEMMA CurrentGateChecksType ==
  ASSUME NEW r \in Runtimes, NEW g \in Gates, NEW p \in NodeOf[g].checks
  PROVE  p \in Nodes /\ currentGateChecks(r, g)[p] \in Checks
<1>1. g \in Nodes /\ NodeOf[g].checks \in SUBSET Nodes
  BY CanvasAssumption DEF Gates, NodeConfig
<1>2. p \in Tests
  BY <1>1, ValidCanvas DEF Tests
<1>3. r.checks[g][p] \in Checks
  BY <1>2 DEF Runtimes
<1>4. QED
  BY <1>1, <1>3, NoCheckType DEF currentGateChecks

\* The evidence a decision is bound to is a fingerprint, for every target that
\* names planned nodes.
LEMMA ApprovalRequestType ==
  ASSUME NEW r \in Runtimes, NEW t \in Edges \cup Gates,
         t \notin Gates => t \in Edges /\ EdgeOf[t].type # "context"
  PROVE  approvalRequestUnchecked(r, t) \in Fingerprints
<1> DEFINE target == IF t \in Gates THEN t ELSE EdgeOf[t].target
           reviewed == IF t \in Gates THEN reviewedSourceIdsForGate(t) ELSE {EdgeOf[t].source}
           runs == {<<n, r.attempt[n], r.status[n]>> : n \in reviewed}
           outputs == {<<e, r.outputs[e]>> :
                         e \in {x \in EdgesOfType("output") :
                                  /\ EdgeOf[x].source \in reviewed
                                  /\ r.outputs[x] = r.attempt[EdgeOf[x].source]}}
           contexts == {<<e, r.contexts[e]>> :
                          e \in {x \in EdgesOfType("context") :
                                   EdgeOf[x].target = target /\ r.contexts[x] # 0}}
           checks == IF t \in Gates
                     THEN {<<p, currentGateChecks(r, t)[p]>> : p \in NodeOf[t].checks}
                     ELSE {}
           assessments == {<<e, currentReviewerAssessmentForEdge(r, e)>> :
                             e \in {x \in EdgesOfType("review") : EdgeOf[x].source \in reviewed}}
<1>1. target \in Nodes /\ reviewed \subseteq Nodes
  BY CanvasAssumption, ReviewedNodes DEF Gates
<1>2. r.attempt[target] \in Nat
  BY <1>1 DEF Runtimes
<1>3. runs \subseteq Nodes \X Nat \X RunStatus
  BY <1>1 DEF Runtimes
<1>4. outputs \subseteq Edges \X Nat
  BY DEF Runtimes, EdgesOfType
<1>5. contexts \subseteq Edges \X Nat
  BY DEF Runtimes, EdgesOfType
<1>6. checks \subseteq Nodes \X Checks
  BY CurrentGateChecksType
<1>7. assessments \subseteq Edges \X Assessments
  BY AssessmentType DEF EdgesOfType
<1>8. approvalRequestUnchecked(r, t) =
        [targetAttempt |-> r.attempt[target], runs |-> runs, outputs |-> outputs,
         contexts |-> contexts, checks |-> checks, assessments |-> assessments]
  BY DEF approvalRequestUnchecked
<1> HIDE DEF target, reviewed, runs, outputs, contexts, checks, assessments
<1>9. QED
  BY <1>2, <1>3, <1>4, <1>5, <1>6, <1>7, <1>8 DEF Fingerprints

\* A person's approval touches the approvals only.
LEMMA ApproveDecision ==
  ASSUME NEW r \in Runtimes, NEW t \in ApprovalTargets
  PROVE  Preserves(r, approveWorkflowHumanDecision(r, t))
<1> DEFINE fp == approvalRequestUnchecked(r, t)
           q == [r EXCEPT !.approvals[t] = fp]
<1>1. t \in Edges \cup Gates /\ (t \notin Gates => t \in Edges /\ EdgeOf[t].type # "context")
  BY DEF ApprovalTargets, EdgesOfType
<1>2. fp \in Fingerprints
  BY <1>1, ApprovalRequestType
<1> HIDE DEF fp
<1>3. q \in Runtimes /\ q.status = r.status /\ q.runStatus = r.runStatus /\ sameRecords(r, q)
  BY <1>1, <1>2 DEF Runtimes, sameRecords
<1> HIDE DEF q
<1>4. Preserves(r, q)
  BY <1>3, SetDecisions
<1>5. QED
  BY <1>4 DEF approveWorkflowHumanDecision, q, fp

\* A person's review ends the review node and stores the decision.
LEMMA RecordDecision ==
  ASSUME NEW r \in Runtimes, NEW e \in HumanReviewEdges,
         NEW d \in {"approved", "changes-requested"}
  PROVE  Preserves(r, recordWorkflowHumanReviewDecision(r, e, d))
<1> DEFINE n == EdgeOf[e].target
           p == IF d = "approved" THEN setNodeRun(r, n, "succeeded", "none")
                ELSE setNodeRun(r, n, "failed", "other")
           fp == approvalRequestUnchecked(r, e)
           dec == [decision |-> d, fingerprint |-> fp]
           q == [p EXCEPT !.decisions[e] = dec]
<1>1. e \in Edges /\ EdgeOf[e].type = "review" /\ n \in Nodes
  BY CanvasAssumption DEF HumanReviewEdges, EdgesOfType
<1>2. fp \in Fingerprints
  BY <1>1, ApprovalRequestType
<1>3. Preserves(r, p)
  BY <1>1, EndNodeRun DEF RunStatus, ActiveStatus, FailureCode
<1>4. recordWorkflowHumanReviewDecision(r, e, d) = settleBlockedWorkflowNodes(q)
  BY DEF recordWorkflowHumanReviewDecision
<1> HIDE DEF fp, p
<1>5. dec \in [decision : {"none", "approved", "changes-requested"}, fingerprint : Fingerprints]
  BY <1>2
<1> HIDE DEF dec
<1>6. p \in Runtimes
  BY <1>3 DEF Preserves
<1>7. q \in Runtimes /\ q.status = p.status /\ q.runStatus = p.runStatus /\ sameRecords(p, q)
  BY <1>1, <1>5, <1>6 DEF Runtimes, sameRecords
<1> HIDE DEF q
<1>8. Preserves(p, q)
  BY <1>6, <1>7, SetDecisions
<1>9. Preserves(q, settleBlockedWorkflowNodes(q))
  BY <1>7, Settle
<1>10. QED
  BY <1>3, <1>4, <1>8, <1>9, PreservesTrans

\* A context is resolved for the attempt that will read it.
LEMMA ResolveContexts ==
  ASSUME NEW r \in Runtimes
  PROVE  Preserves(r, recordWorkflowContextResolutions(r))
<1> DEFINE c == [e \in Edges |-> IF e \in UnresolvedContexts(r)
                                 THEN r.attempt[EdgeOf[e].target] ELSE r.contexts[e]]
           q == [r EXCEPT !.contexts = c]
<1>1. recordWorkflowContextResolutions(r) = q
  BY DEF recordWorkflowContextResolutions
<1>2. c \in [Edges -> Nat]
  BY CanvasAssumption DEF Runtimes
<1>3. \A e \in Edges : c[e] = r.contexts[e] \/ c[e] = r.attempt[EdgeOf[e].target]
  OBVIOUS
<1> HIDE DEF c
<1>4. /\ q \in Runtimes /\ q.status = r.status /\ q.runStatus = r.runStatus
      /\ q.attempt = r.attempt /\ q.loop = r.loop /\ q.contexts = c
      /\ q.outputs = r.outputs /\ q.artifacts = r.artifacts
      /\ q.assessments = r.assessments /\ q.checks = r.checks
      /\ q.cancellationRequested = r.cancellationRequested
  BY <1>2 DEF Runtimes
<1> HIDE DEF q
<1>5. freshEvidence(r) => freshEvidence(q)
  BY <1>3, <1>4 DEF freshEvidence, freshEdgeEvidence, freshCheck
<1>6. loopsWithinAttempts(r) => loopsWithinAttempts(q)
  BY <1>4 DEF loopsWithinAttempts, withinAttempts
<1>7. QED
  BY <1>1, <1>4, <1>5, <1>6 DEF Preserves, startsNothing, Aggregated

\* Replacing the checks preserves everything when each new entry was there
\* before for its gate, is missing, or speaks about the current attempts.
LEMMA SetChecks ==
  ASSUME NEW r \in Runtimes, NEW c \in [Gates -> [Tests -> Checks]],
         \A g \in Gates, p \in Tests :
           \/ c[g][p] = r.checks[g][p]
           \/ c[g][p] = NoCheck
           \/ /\ p \in NodeOf[g].checks
              /\ c[g][p].producerAttempt = r.attempt[p]
              /\ c[g][p].reviewedAttempt = r.attempt[reviewedSourceForGate(g)]
  PROVE  Preserves(r, [r EXCEPT !.checks = c])
<1> DEFINE q == [r EXCEPT !.checks = c]
<1>1. /\ q \in Runtimes /\ q.status = r.status /\ q.runStatus = r.runStatus
      /\ q.attempt = r.attempt /\ q.loop = r.loop /\ q.contexts = r.contexts
      /\ q.outputs = r.outputs /\ q.artifacts = r.artifacts
      /\ q.assessments = r.assessments /\ q.checks = c
      /\ q.cancellationRequested = r.cancellationRequested
  BY DEF Runtimes
<1> HIDE DEF q
<1>2. freshEvidence(r) => freshEvidence(q)
  BY <1>1 DEF freshEvidence, freshEdgeEvidence, freshCheck
<1>3. loopsWithinAttempts(r) => loopsWithinAttempts(q)
  BY <1>1 DEF loopsWithinAttempts, withinAttempts
<1>4. Preserves(r, q)
  BY <1>1, <1>2, <1>3 DEF Preserves, startsNothing, Aggregated
<1>5. QED
  BY <1>4 DEF q

\* A gate adopts only results that are current for it.
LEMMA ReconcileChecks ==
  ASSUME NEW r \in Runtimes
  PROVE  Preserves(r, reconcilePersistedGateChecks(r))
<1> DEFINE pool(g, p) == {c \in {r.checks[h][p] : h \in Gates} : currentCheckForGate(r, g, p, c)}
           kept(g) == [p \in Tests |->
                         IF p \notin NodeOf[g].checks THEN NoCheck
                         ELSE IF currentCheckForGate(r, g, p, r.checks[g][p]) THEN r.checks[g][p]
                         ELSE IF Cardinality(pool(g, p)) = 1 THEN CHOOSE c \in pool(g, p) : TRUE
                         ELSE NoCheck]
           adopts(g) == /\ r.status[g] \in UnstartedStatus
                        /\ \E p \in Tests : kept(g)[p] # NoCheck
                        /\ Succeeded(r, reviewedSourceForGate(g))
           c == [g \in Gates |-> IF adopts(g) THEN kept(g) ELSE r.checks[g]]
<1>1. reconcilePersistedGateChecks(r) = [r EXCEPT !.checks = c]
  BY DEF reconcilePersistedGateChecks
<1>2. ASSUME NEW g \in Gates, NEW p \in Tests
      PROVE  /\ kept(g)[p] \in Checks
             /\ \/ kept(g)[p] = r.checks[g][p]
                \/ kept(g)[p] = NoCheck
                \/ /\ p \in NodeOf[g].checks
                   /\ kept(g)[p].producerAttempt = r.attempt[p]
                   /\ kept(g)[p].reviewedAttempt = r.attempt[reviewedSourceForGate(g)]
  <2>1. r.checks[g][p] \in Checks
    BY DEF Runtimes
  <2>2. CASE \/ p \notin NodeOf[g].checks
             \/ currentCheckForGate(r, g, p, r.checks[g][p])
             \/ Cardinality(pool(g, p)) # 1
    BY <2>1, <2>2, NoCheckType
  <2>3. CASE /\ p \in NodeOf[g].checks
             /\ ~currentCheckForGate(r, g, p, r.checks[g][p])
             /\ Cardinality(pool(g, p)) = 1
    <3> DEFINE x == CHOOSE y \in pool(g, p) : TRUE
    <3>1. kept(g)[p] = x
      BY <2>3
    <3>2. \A y \in pool(g, p) : y \in Checks
      BY DEF Runtimes
    <3>3. \A y \in pool(g, p) : /\ y.producerAttempt = r.attempt[p]
                                /\ y.reviewedAttempt = r.attempt[reviewedSourceForGate(g)]
      BY DEF currentCheckForGate
    <3> HIDE DEF pool
    <3>4. pool(g, p) # {}
      BY <2>3, FS_EmptySet
    <3>5. x \in pool(g, p)
      BY <3>4
    <3> HIDE DEF x
    <3>6. QED
      BY <2>3, <3>1, <3>2, <3>3, <3>5
  <2>4. QED
    BY <2>2, <2>3
<1>3. ASSUME NEW g \in Gates PROVE kept(g) = [p \in Tests |-> kept(g)[p]]
  OBVIOUS
<1> HIDE DEF kept, adopts
<1>4. c \in [Gates -> [Tests -> Checks]]
  BY <1>2, <1>3 DEF Runtimes
<1>5. \A g \in Gates, p \in Tests :
           \/ c[g][p] = r.checks[g][p]
           \/ c[g][p] = NoCheck
           \/ /\ p \in NodeOf[g].checks
              /\ c[g][p].producerAttempt = r.attempt[p]
              /\ c[g][p].reviewedAttempt = r.attempt[reviewedSourceForGate(g)]
  BY <1>2
<1> HIDE DEF c
<1>6. QED
  BY <1>1, <1>4, <1>5, SetChecks

\* The evidence bridge's reconciliation: contexts, then checks.
LEMMA Reconcile ==
  ASSUME NEW r \in Runtimes
  PROVE  Preserves(r, reconcile(r))
<1> DEFINE p == recordWorkflowContextResolutions(r)
<1>1. Preserves(r, p)
  BY ResolveContexts
<1> HIDE DEF p
<1>2. Preserves(p, reconcilePersistedGateChecks(p))
  BY <1>1, ReconcileChecks DEF Preserves
<1>3. QED
  BY <1>1, <1>2, PreservesTrans DEF reconcile, p

-----------------------------------------------------------------------------
(* Completion of a process *)

\* Outputs are published for the attempt that ended.
LEMMA PublishOutputs ==
  ASSUME NEW r \in Runtimes, NEW n \in Nodes, NEW evidence
  PROVE  Preserves(r, publishCompletionOutputs(r, n, evidence))
<1> DEFINE o == [e \in Edges |-> IF e \in OutputEdges(n) THEN r.attempt[n] ELSE r.outputs[e]]
           q == [r EXCEPT !.outputs = o]
<1>1. publishCompletionOutputs(r, n, evidence) \in {r, q}
  BY DEF publishCompletionOutputs
<1>2. o \in [Edges -> Nat]
  BY DEF Runtimes
<1>3. \A e \in Edges : \/ o[e] = r.outputs[e]
                       \/ EdgeOf[e].type = "output" /\ o[e] = r.attempt[EdgeOf[e].source]
  BY DEF OutputEdges, EdgesOfType
<1> HIDE DEF o
<1>4. /\ q \in Runtimes /\ q.status = r.status /\ q.runStatus = r.runStatus
      /\ q.attempt = r.attempt /\ q.loop = r.loop /\ q.contexts = r.contexts
      /\ q.outputs = o /\ q.artifacts = r.artifacts
      /\ q.assessments = r.assessments /\ q.checks = r.checks
      /\ q.cancellationRequested = r.cancellationRequested
  BY <1>2 DEF Runtimes
<1> HIDE DEF q
<1>5. freshEvidence(r) => freshEvidence(q)
  BY <1>3, <1>4 DEF freshEvidence, freshEdgeEvidence, freshCheck
<1>6. loopsWithinAttempts(r) => loopsWithinAttempts(q)
  BY <1>4 DEF loopsWithinAttempts, withinAttempts
<1>7. Preserves(r, q)
  BY <1>4, <1>5, <1>6 DEF Preserves, startsNothing, Aggregated
<1>8. QED
  BY <1>1, <1>7, PreservesRefl

\* The reviewed artifact is recorded for the attempt that ended.
LEMMA RecordArtifact ==
  ASSUME NEW r \in Runtimes, NEW n \in Nodes
  PROVE  Preserves(r, [r EXCEPT !.artifacts[n] = r.attempt[n]])
<1> DEFINE a == [r.artifacts EXCEPT ![n] = r.attempt[n]]
           q == [r EXCEPT !.artifacts = a]
<1>1. [r EXCEPT !.artifacts[n] = r.attempt[n]] = q
  OBVIOUS
<1>2. a \in [Nodes -> Nat] /\ \A m \in Nodes : a[m] \in {r.artifacts[m], r.attempt[m]}
  BY DEF Runtimes
<1> HIDE DEF a
<1>3. /\ q \in Runtimes /\ q.status = r.status /\ q.runStatus = r.runStatus
      /\ q.attempt = r.attempt /\ q.loop = r.loop /\ q.contexts = r.contexts
      /\ q.outputs = r.outputs /\ q.artifacts = a
      /\ q.assessments = r.assessments /\ q.checks = r.checks
      /\ q.cancellationRequested = r.cancellationRequested
  BY <1>2 DEF Runtimes
<1> HIDE DEF q
<1>4. freshEvidence(r) => freshEvidence(q)
  BY <1>2, <1>3 DEF freshEvidence, freshEdgeEvidence, freshCheck
<1>5. loopsWithinAttempts(r) => loopsWithinAttempts(q)
  BY <1>3 DEF loopsWithinAttempts, withinAttempts
<1>6. QED
  BY <1>1, <1>3, <1>4, <1>5 DEF Preserves, startsNothing, Aggregated

\* An assessment names the current attempts of the reviewer and the reviewed node.
LEMMA StoreAssessment ==
  ASSUME NEW r \in Runtimes, NEW n \in Nodes, NEW e \in ReviewEdgesBy(n),
         NEW v \in {"approved", "changes-requested"}
  PROVE  Preserves(r, storeAssessment(r, e, v))
<1> DEFINE x == [verdict |-> v, reviewerAttempt |-> r.attempt[ReviewerOf(e)],
                 reviewedAttempt |-> r.attempt[EdgeOf[e].source]]
           a == [r.assessments EXCEPT ![e] = x]
           q == [r EXCEPT !.assessments = a]
<1>1. storeAssessment(r, e, v) = q
  BY DEF storeAssessment
<1>2. /\ e \in Edges /\ EdgeOf[e].type = "review"
      /\ ReviewerOf(e) \in Nodes /\ EdgeOf[e].source \in Nodes
  BY CanvasAssumption DEF ReviewEdgesBy, EdgesOfType
<1>3. /\ x \in Assessments
      /\ x.reviewerAttempt = r.attempt[ReviewerOf(e)]
      /\ x.reviewedAttempt = r.attempt[EdgeOf[e].source]
  BY <1>2 DEF Assessments, Runtimes
<1> HIDE DEF x
<1>4. a \in [Edges -> Assessments] /\ a[e] = x /\ \A f \in Edges : f # e => a[f] = r.assessments[f]
  BY <1>2, <1>3 DEF Runtimes
<1> HIDE DEF a
<1>5. /\ q \in Runtimes /\ q.status = r.status /\ q.runStatus = r.runStatus
      /\ q.attempt = r.attempt /\ q.loop = r.loop /\ q.contexts = r.contexts
      /\ q.outputs = r.outputs /\ q.artifacts = r.artifacts
      /\ q.assessments = a /\ q.checks = r.checks
      /\ q.cancellationRequested = r.cancellationRequested
  BY <1>4 DEF Runtimes
<1> HIDE DEF q
<1>6. freshEvidence(r) => freshEvidence(q)
  BY <1>2, <1>3, <1>4, <1>5 DEF freshEvidence, freshEdgeEvidence, freshCheck
<1>7. loopsWithinAttempts(r) => loopsWithinAttempts(q)
  BY <1>5 DEF loopsWithinAttempts, withinAttempts
<1>8. QED
  BY <1>1, <1>5, <1>6, <1>7 DEF Preserves, startsNothing, Aggregated

\* recordWorkflowReview stores, ends a direct reviewer, and settles.
LEMMA RecordReview ==
  ASSUME NEW r \in Runtimes, NEW n \in Nodes, NEW e \in ReviewEdgesBy(n),
         NEW v \in {"approved", "changes-requested"}
  PROVE  Preserves(r, recordWorkflowReview(r, e, v))
<1> DEFINE p == storeAssessment(r, e, v)
           q == IF EdgeOf[e].reviewer = "agent" THEN finishReviewer(p, ReviewerOf(e)) ELSE p
<1>1. Preserves(r, p)
  BY StoreAssessment
<1>2. recordWorkflowReview(r, e, v) = settleBlockedWorkflowNodes(q)
  BY DEF recordWorkflowReview
<1> HIDE DEF p
<1>3. p \in Runtimes
  BY <1>1 DEF Preserves
<1>4. ReviewerOf(e) \in Nodes
  BY DEF ReviewEdgesBy
<1>5. \A verdicts : Preserves(p, assessedReviewer(p, ReviewerOf(e), verdicts))
  BY <1>3, <1>4, EndNodeRun, PreservesRefl
  DEF assessedReviewer, RunStatus, ActiveStatus, FailureCode
<1>6. Preserves(p, q)
  BY <1>3, <1>5, PreservesRefl DEF finishReviewer
<1> HIDE DEF q
<1>7. Preserves(q, settleBlockedWorkflowNodes(q))
  BY <1>6, Settle DEF Preserves
<1>8. QED
  BY <1>1, <1>2, <1>6, <1>7, PreservesTrans

\* The final assessment of a reviewing agent, if it reviews anything.
LEMMA RecordFinalAssessments ==
  ASSUME NEW r \in Runtimes, NEW n \in Nodes, NEW v \in {"approved", "changes-requested"}
  PROVE  Preserves(r, recordReviewerFinalAssessments(r, n, v))
<1>1. CASE ReviewEdgesBy(n) = {}
  BY <1>1, PreservesRefl DEF recordReviewerFinalAssessments
<1>2. CASE ReviewEdgesBy(n) # {}
  <2> DEFINE e == CHOOSE x \in ReviewEdgesBy(n) : TRUE
  <2>1. e \in ReviewEdgesBy(n)
    BY <1>2
  <2>2. recordReviewerFinalAssessments(r, n, v) = recordWorkflowReview(r, e, v)
    BY <1>2 DEF recordReviewerFinalAssessments
  <2> HIDE DEF e
  <2>3. QED
    BY <2>1, <2>2, RecordReview
<1>3. QED
  BY <1>1, <1>2

\* A check result is recorded for the gates that still wait for it.
LEMMA RecordExactCheck ==
  ASSUME NEW r \in Runtimes, NEW p \in Tests, NEW s \in TerminalStatus
  PROVE  Preserves(r, recordExactCheckForGates(r, p, s))
<1> DEFINE check(g) == [status |-> checkStatus(s), producerAttempt |-> r.attempt[p],
                        reviewedAttempt |-> r.attempt[reviewedSourceForGate(g)]]
           c == [g \in Gates |->
                   IF g \notin GatesAwaitingCheck(r, p) THEN r.checks[g]
                   ELSE [x \in Tests |->
                           IF x = p THEN check(g)
                           ELSE IF currentCheckForGate(r, g, x, r.checks[g][x]) THEN r.checks[g][x]
                           ELSE NoCheck]]
<1>1. recordExactCheckForGates(r, p, s) = [r EXCEPT !.checks = c]
  BY DEF recordExactCheckForGates
<1>2. ASSUME NEW g \in GatesAwaitingCheck(r, p)
      PROVE  /\ g \in Gates /\ p \in NodeOf[g].checks
             /\ check(g) \in Checks
             /\ check(g).producerAttempt = r.attempt[p]
             /\ check(g).reviewedAttempt = r.attempt[reviewedSourceForGate(g)]
  <2>1. g \in Gates /\ p \in NodeOf[g].checks
    BY DEF GatesAwaitingCheck
  <2>2. reviewedSourceForGate(g) \in Nodes
    BY <2>1, ReviewedSource
  <2>3. r.attempt[p] \in Nat /\ r.attempt[reviewedSourceForGate(g)] \in Nat
    BY <2>2 DEF Runtimes, Tests
  <2>4. checkStatus(s) \in {"missing", "passed", "failed", "cancelled", "lost"}
    BY DEF checkStatus, TerminalStatus
  <2>5. QED
    BY <2>1, <2>3, <2>4 DEF Checks
<1> HIDE DEF check
<1>3. c \in [Gates -> [Tests -> Checks]]
  BY <1>2, NoCheckType DEF Runtimes
<1>4. \A g \in Gates, x \in Tests :
           \/ c[g][x] = r.checks[g][x]
           \/ c[g][x] = NoCheck
           \/ /\ x \in NodeOf[g].checks
              /\ c[g][x].producerAttempt = r.attempt[x]
              /\ c[g][x].reviewedAttempt = r.attempt[reviewedSourceForGate(g)]
  BY <1>2
<1> HIDE DEF c
<1>5. QED
  BY <1>1, <1>3, <1>4, SetChecks

\* The evidence of a completed agent: artifact, outputs, assessment.
LEMMA RecordAgentCompletion ==
  ASSUME NEW r \in Runtimes, NEW n \in Nodes, NEW result \in ExecutorResults(n)
  PROVE  Preserves(r, recordAgentCompletion(r, n, result))
<1> DEFINE p == IF result.status = "succeeded" /\ result.evidence = "full"
                THEN [r EXCEPT !.artifacts[n] = r.attempt[n]] ELSE r
           q == publishCompletionOutputs(p, n, result.evidence)
           z == recordReviewerFinalAssessments(q, n, result.verdict)
<1>1. recordAgentCompletion(r, n, result) \in {q, z}
  BY DEF recordAgentCompletion
<1>2. Preserves(r, p)
  BY RecordArtifact, PreservesRefl
<1> HIDE DEF p
<1>3. Preserves(p, q)
  BY <1>2, PublishOutputs DEF Preserves
<1> HIDE DEF q
<1>4. result.verdict \in {"approved", "changes-requested"}
  BY DEF ExecutorResults
<1>5. Preserves(q, z)
  BY <1>3, <1>4, RecordFinalAssessments DEF Preserves
<1> HIDE DEF z
<1>6. QED
  BY <1>1, <1>2, <1>3, <1>5, PreservesTrans

\* #completeLocked, with or without acceptable evidence.
LEMMA RecordCompletion ==
  ASSUME NEW r \in Runtimes, NEW n \in Nodes, NEW result \in ExecutorResults(n)
  PROVE  Preserves(r, recordCompletion(r, n, result))
<1> DEFINE c == completeWorkflowNode(r, n, result.status)
           p == publishCompletionOutputs(c, n, result.evidence)
<1>1. result.status \in TerminalStatus
  BY DEF ExecutorResults, TerminalStatus
<1>2. Preserves(r, c) /\ Preserves(r, completeWorkflowNode(r, n, "failed"))
  BY <1>1, CompleteWorkflowNode DEF TerminalStatus
<1>3. recordCompletion(r, n, result) = recordCompletionEvidence(r, c, n, result)
  BY DEF recordCompletion
<1> HIDE DEF c
<1>4. c \in Runtimes
  BY <1>2 DEF Preserves
<1>5. Preserves(c, recordAgentCompletion(c, n, result))
  BY <1>4, RecordAgentCompletion
<1>6. Preserves(c, p)
  BY <1>4, PublishOutputs
<1>7. n \in Tests => Preserves(p, recordExactCheckForGates(p, n, result.status))
  BY <1>1, <1>6, RecordExactCheck DEF Preserves
<1>8. recordTestCompletion(c, n, result) = recordExactCheckForGates(p, n, result.status)
  BY DEF recordTestCompletion
<1> HIDE DEF p
<1>9. n \in Tests => Preserves(c, recordTestCompletion(c, n, result))
  BY <1>6, <1>7, <1>8, PreservesTrans
<1>10. QED
  BY <1>2, <1>3, <1>5, <1>9, PreservesTrans DEF recordCompletionEvidence

-----------------------------------------------------------------------------
(* Revision loops *)

\* Moving one loop preserves everything if it keeps the attempts counted and
\* asks for a revision only below the maximum.
LEMMA SetLoop ==
  ASSUME NEW r \in Runtimes, NEW l \in Loops, NEW s \in LoopStates, NEW A \in SUBSET Loops,
         s.attemptsStarted = r.loop[l].attemptsStarted,
         s.status = "revision-required" =>
           \/ s.attemptsStarted < LoopOf[l].maximumAttempts
           \/ r.loop[l].status = "revision-required"
  PROVE  /\ Preserves(r, [r EXCEPT !.loop[l] = s])
         /\ Preserves(r, [r EXCEPT !.loop[l] = s, !.activeLoops = A])
<1> DEFINE L == [r.loop EXCEPT ![l] = s]
           p == [r EXCEPT !.loop = L]
           q == [r EXCEPT !.loop = L, !.activeLoops = A]
<1>1. [r EXCEPT !.loop[l] = s] = p /\ [r EXCEPT !.loop[l] = s, !.activeLoops = A] = q
  OBVIOUS
<1>2. L \in [Loops -> LoopStates] /\ L[l] = s /\ \A k \in Loops : k # l => L[k] = r.loop[k]
  BY DEF Runtimes
<1> HIDE DEF L
<1>3. /\ p \in Runtimes /\ p.status = r.status /\ p.runStatus = r.runStatus
      /\ p.attempt = r.attempt /\ p.loop = L /\ p.contexts = r.contexts
      /\ p.outputs = r.outputs /\ p.artifacts = r.artifacts
      /\ p.assessments = r.assessments /\ p.checks = r.checks
  BY <1>2 DEF Runtimes
<1>4. /\ q \in Runtimes /\ q.status = r.status /\ q.runStatus = r.runStatus
      /\ q.attempt = r.attempt /\ q.loop = L /\ q.contexts = r.contexts
      /\ q.outputs = r.outputs /\ q.artifacts = r.artifacts
      /\ q.assessments = r.assessments /\ q.checks = r.checks
  BY <1>2 DEF Runtimes
<1> HIDE DEF p, q
<1>5. freshEvidence(r) => freshEvidence(p) /\ freshEvidence(q)
  BY <1>3, <1>4 DEF freshEvidence, freshEdgeEvidence, freshCheck
<1>6. loopsWithinAttempts(r) => loopsWithinAttempts(p) /\ loopsWithinAttempts(q)
  BY <1>2, <1>3, <1>4 DEF loopsWithinAttempts, withinAttempts
<1>7. QED
  BY <1>1, <1>3, <1>4, <1>5, <1>6 DEF Preserves, startsNothing, Aggregated

\* The steps of a loop keep its type; only the start of an attempt counts up.
LEMMA LoopSteps ==
  ASSUME NEW s \in LoopStates, NEW m \in Nat, NEW delayed \in BOOLEAN,
         NEW c \in StopCondition \cup {"none"}
  PROVE  /\ loopReviewFailed(m, s, delayed) \in LoopStates
         /\ loopReviewFailed(m, s, delayed).attemptsStarted = s.attemptsStarted
         /\ loopReviewFailed(m, s, delayed).status = "revision-required" => s.attemptsStarted < m
         /\ loopStopConditionMet(s, c) \in LoopStates
         /\ loopStopConditionMet(s, c).attemptsStarted = s.attemptsStarted
         /\ loopStopConditionMet(s, c).status = "satisfied"
         /\ loopHumanAborted(s) \in LoopStates
         /\ loopHumanAborted(s).attemptsStarted = s.attemptsStarted
         /\ loopHumanAborted(s).status = "cancelled"
         /\ loopRevisionCompleted(m, s) \in LoopStates
         /\ s.attemptsStarted < m =>
              /\ loopRevisionCompleted(m, s).attemptsStarted = s.attemptsStarted + 1
              /\ loopRevisionCompleted(m, s).status = "review-required"
<1>1. /\ loopReviewFailed(m, s, delayed) \in LoopStates
      /\ loopReviewFailed(m, s, delayed).attemptsStarted = s.attemptsStarted
      /\ loopReviewFailed(m, s, delayed).status = "revision-required" => s.attemptsStarted < m
  <2> DEFINE x == IF s.attemptsStarted >= m THEN "waiting-human" ELSE "revision-required"
             b == ~(s.attemptsStarted >= m) /\ delayed
  <2>1. b \in BOOLEAN
    OBVIOUS
  <2>2. x \in LoopStatus /\ (x = "revision-required" => s.attemptsStarted < m)
    BY DEF LoopStates, LoopStatus
  <2>3. loopReviewFailed(m, s, delayed) = [s EXCEPT !.status = x, !.backoff = b]
    BY DEF loopReviewFailed
  <2> HIDE DEF x, b
  <2>4. QED
    BY <2>1, <2>2, <2>3 DEF LoopStates
<1>2. /\ loopStopConditionMet(s, c) \in LoopStates
      /\ loopStopConditionMet(s, c).attemptsStarted = s.attemptsStarted
      /\ loopStopConditionMet(s, c).status = "satisfied"
  BY DEF LoopStates, LoopStatus, loopStopConditionMet
<1>3. /\ loopHumanAborted(s) \in LoopStates
      /\ loopHumanAborted(s).attemptsStarted = s.attemptsStarted
      /\ loopHumanAborted(s).status = "cancelled"
  BY DEF LoopStates, LoopStatus, loopHumanAborted
<1>4. /\ loopRevisionCompleted(m, s) \in LoopStates
      /\ s.attemptsStarted < m =>
           /\ loopRevisionCompleted(m, s).attemptsStarted = s.attemptsStarted + 1
           /\ loopRevisionCompleted(m, s).status = "review-required"
  <2>1. CASE s.attemptsStarted >= m
    <3>1. loopRevisionCompleted(m, s) = [s EXCEPT !.status = "waiting-human"]
      BY <2>1 DEF loopRevisionCompleted
    <3>2. QED
      BY <2>1, <3>1 DEF LoopStates, LoopStatus
  <2>2. CASE ~(s.attemptsStarted >= m)
    <3>1. loopRevisionCompleted(m, s) =
            [s EXCEPT !.status = "review-required", !.backoff = FALSE,
                      !.attemptsStarted = s.attemptsStarted + 1]
      BY <2>2 DEF loopRevisionCompleted
    <3>2. s.attemptsStarted + 1 \in Nat /\ s.attemptsStarted \in Nat
      BY DEF LoopStates
    <3>3. QED
      BY <3>1, <3>2 DEF LoopStates, LoopStatus
  <2>3. QED
    BY <2>1, <2>2
<1>5. QED
  BY <1>1, <1>2, <1>3, <1>4

\* The configuration and state of a loop are well typed.
LEMMA LoopTypes ==
  ASSUME NEW r \in Runtimes, NEW l \in Loops
  PROVE  /\ r.loop[l] \in LoopStates /\ LoopOf[l].maximumAttempts \in Nat
         /\ LoopOf[l].implementation \in Nodes /\ LoopOf[l].review \in Nodes
         /\ NodeOf[LoopOf[l].review].backoff \in BOOLEAN
  BY CanvasAssumption DEF Runtimes, LoopConfig, NodeConfig

\* A review outcome moves its loop without counting an attempt.
LEMMA ApplyReview ==
  ASSUME NEW r \in Runtimes, NEW l \in Loops
  PROVE  Preserves(r, applyRevisionReview(r, l))
<1> DEFINE met == loopStopConditionMet(r.loop[l], stopConditionMet(r, l))
           failed == loopReviewFailed(LoopOf[l].maximumAttempts, r.loop[l],
                                      NodeOf[LoopOf[l].review].backoff)
           s == IF reviewOutcome(r, l) = "passed" THEN met ELSE failed
<1>1. applyRevisionReview(r, l) = [r EXCEPT !.loop[l] = s]
  BY DEF applyRevisionReview
<1>2. stopConditionMet(r, l) \in StopCondition \cup {"none"}
  BY DEF stopConditionMet, StopCondition
<1>3. /\ s \in LoopStates /\ s.attemptsStarted = r.loop[l].attemptsStarted
      /\ s.status = "revision-required" => s.attemptsStarted < LoopOf[l].maximumAttempts
  BY <1>2, LoopTypes, LoopSteps
<1> HIDE DEF s
<1>4. QED
  BY <1>1, <1>3, SetLoop

\* The host's own completion of a gate, in each of its three ways.
LEMMA InternalGateEnds ==
  ASSUME NEW r \in Runtimes, NEW g \in Gates
  PROVE  Preserves(r, completeInternalReviewGate(r, g))
<1> DEFINE open == OpenLoops(r, g)
           l == CHOOSE k \in open : TRUE
           passed == completeWorkflowNode(r, g, "succeeded")
           routed == IF /\ reviewGateEvaluation(r, g) = "failed" /\ Cardinality(open) = 1
                        /\ canApplyRevisionReview(r, l)
                     THEN applyRevisionReview(r, l) ELSE r
<1>1. g \in Nodes /\ "succeeded" \in TerminalStatus /\ "failed" \in TerminalStatus
  BY DEF Gates, TerminalStatus
<1>2. Preserves(r, passed) /\ Preserves(r, completeWorkflowNode(r, g, "failed"))
  BY <1>1, CompleteWorkflowNode
<1>3. Cardinality(open) = 1 => l \in Loops
  <2>1. open \subseteq Loops
    BY DEF OpenLoops
  <2> HIDE DEF open
  <2>2. Cardinality(open) = 1 => open # {}
    BY FS_EmptySet
  <2>3. QED
    BY <2>1, <2>2
<1>4. completeInternalReviewGate(r, g) \in
        {passed, closeLoopAfter(r, passed, g, l), completeWorkflowNode(routed, g, "failed")}
  BY DEF completeInternalReviewGate
<1>5. completeInternalReviewGate(r, g) = closeLoopAfter(r, passed, g, l) =>
        \/ Cardinality(open) = 1
        \/ completeInternalReviewGate(r, g) \in {passed, completeWorkflowNode(routed, g, "failed")}
  BY DEF completeInternalReviewGate
<1> HIDE DEF passed, l
<1>6. Cardinality(open) = 1 => Preserves(r, closeLoopAfter(r, passed, g, l))
  <2>1. passed \in Runtimes
    BY <1>2 DEF Preserves
  <2>2. Cardinality(open) = 1 => Preserves(passed, applyRevisionReview(passed, l))
    BY <1>3, <2>1, ApplyReview
  <2>3. QED
    BY <1>2, <2>2, PreservesTrans DEF closeLoopAfter
<1>7. Preserves(r, routed)
  BY <1>3, ApplyReview, PreservesRefl
<1> HIDE DEF routed
<1>8. Preserves(routed, completeWorkflowNode(routed, g, "failed"))
  BY <1>1, <1>7, CompleteWorkflowNode DEF Preserves
<1>9. QED
  BY <1>2, <1>4, <1>5, <1>6, <1>7, <1>8, PreservesTrans

\* Giving up on an exhausted loop.
LEMMA CancelRevisionEscape ==
  ASSUME NEW r \in Runtimes, NEW l \in Loops
  PROVE  Preserves(r, cancelRevisionEscape(r, l))
<1> DEFINE p == requestWorkflowCancellation(r)
           st == [n \in Nodes |-> IF p.status[n] \in {"failed", "lost"} THEN "cancelled"
                                  ELSE p.status[n]]
           q == replaceRunState(p, st)
           s == loopHumanAborted(q.loop[l])
           z == [q EXCEPT !.loop[l] = s]
           A == q.activeLoops \ {l}
<1>1. Preserves(r, p)
  BY RequestCancellation
<1>2. cancelRevisionEscape(r, l) = [z EXCEPT !.cancellationRequested = TRUE, !.activeLoops = A]
  BY DEF cancelRevisionEscape
<1> HIDE DEF p
<1>3. p \in Runtimes
  BY <1>1 DEF Preserves
<1>4. st \in [Nodes -> RunStatus] /\ p.failureCode \in [Nodes -> FailureCode]
  BY <1>3 DEF Runtimes, RunStatus
<1>5. \A n \in Nodes : /\ st[n] \in ActiveStatus => p.status[n] \in ActiveStatus
                       /\ st[n] = "running" => p.status[n] = "running"
  BY DEF ActiveStatus
<1> HIDE DEF st
<1>6. Preserves(p, q)
  BY <1>3, <1>4, <1>5, ChangeRuns
<1> HIDE DEF q
<1>7. q \in Runtimes /\ A \in SUBSET Loops
  BY <1>6 DEF Preserves, Runtimes
<1>8. s \in LoopStates /\ s.attemptsStarted = q.loop[l].attemptsStarted /\ s.status = "cancelled"
  BY <1>7, LoopTypes, LoopSteps
<1> HIDE DEF s, A
<1>9. Preserves(q, z)
  BY <1>7, <1>8, SetLoop
<1> HIDE DEF z
<1>10. Preserves(z, [z EXCEPT !.cancellationRequested = TRUE, !.activeLoops = A])
  BY <1>7, <1>9, SetCancelled DEF Preserves
<1>11. QED
  BY <1>1, <1>2, <1>6, <1>9, <1>10, PreservesTrans

\* Accepting the work of an exhausted loop.
LEMMA AcceptRevisionEscape ==
  ASSUME NEW r \in Runtimes, NEW l \in Loops
  PROVE  Preserves(r, acceptRevisionEscape(r, l))
<1> DEFINE review == LoopOf[l].review
           p == IF review \in Gates
                THEN IF r.status[review] \in ActiveStatus
                     THEN setNodeRun(r, review, "failed", "other") ELSE r
                ELSE setNodeRun(r, review, "succeeded", "none")
           s == loopStopConditionMet(p.loop[l], "human-accepted")
           A == p.activeLoops \ {l}
           q == [p EXCEPT !.loop[l] = s, !.activeLoops = A]
<1>1. acceptRevisionEscape(r, l) = settleBlockedWorkflowNodes(q)
  BY DEF acceptRevisionEscape
<1>2. Preserves(r, p)
  BY LoopTypes, EndNodeRun, PreservesRefl DEF RunStatus, ActiveStatus, FailureCode
<1> HIDE DEF p
<1>3. p \in Runtimes /\ A \in SUBSET Loops
  BY <1>2 DEF Preserves, Runtimes
<1>4. s \in LoopStates /\ s.attemptsStarted = p.loop[l].attemptsStarted /\ s.status = "satisfied"
  BY <1>3, LoopTypes, LoopSteps DEF StopCondition
<1> HIDE DEF s, A
<1>5. Preserves(p, q)
  BY <1>3, <1>4, SetLoop
<1> HIDE DEF q
<1>6. Preserves(q, settleBlockedWorkflowNodes(q))
  BY <1>5, Settle DEF Preserves
<1>7. QED
  BY <1>1, <1>2, <1>5, <1>6, PreservesTrans

\* The back-off of a loop ends.
LEMMA ElapseBackoff ==
  ASSUME NEW r \in Runtimes, NEW l \in Loops
  PROVE  Preserves(r, [r EXCEPT !.loop[l].backoff = FALSE])
<1> DEFINE s == [r.loop[l] EXCEPT !.backoff = FALSE]
<1>1. s \in LoopStates /\ s.attemptsStarted = r.loop[l].attemptsStarted
      /\ s.status = r.loop[l].status
  BY LoopTypes DEF LoopStates
<1>2. [r EXCEPT !.loop[l].backoff = FALSE] = [r EXCEPT !.loop[l] = s]
  BY DEF Runtimes
<1> HIDE DEF s
<1>3. QED
  BY <1>1, <1>2, SetLoop

\* An additional attempt: every record about a requeued node is dropped, and each
\* due loop counts up together with its implementation.
LEMMA QueueAttempts ==
  ASSUME NEW r \in Runtimes
  PROVE  Preserves(r, queueEligibleRevisionAttempts(r))
<1> DEFINE D == DueLoops(r)
           again == AttemptNodes(D)
           reviews == {LoopOf[l].review : l \in D}
           reviewEdges == {LoopOf[l].reviewEdge : l \in D}
           st == [n \in Nodes |-> IF n \in again THEN "queued" ELSE r.status[n]]
           p == replaceRunState(r, st)
           attempt == [n \in Nodes |-> IF n \in again THEN p.attempt[n] + 1 ELSE p.attempt[n]]
           code == [n \in Nodes |-> IF n \in again THEN "none" ELSE p.failureCode[n]]
           loop == [l \in Loops |-> IF l \in D
                                    THEN loopRevisionCompleted(LoopOf[l].maximumAttempts, p.loop[l])
                                    ELSE p.loop[l]]
           activeLoops == p.activeLoops \cup D
           outputs == [e \in Edges |-> IF producedBy(again, e) THEN 0 ELSE p.outputs[e]]
           contexts == [e \in Edges |-> IF readBy(again, e) THEN 0 ELSE p.contexts[e]]
           artifacts == [n \in Nodes |-> IF n \in again THEN 0 ELSE p.artifacts[n]]
           assessments == [e \in Edges |->
             IF \/ e \in reviewEdges
                \/ producedBy(again, e)
                \/ EdgeOf[e].type = "review" /\ ReviewerOf(e) \in again
             THEN NoAssessment ELSE p.assessments[e]]
           dropped(g) == \/ g \in reviews
                         \/ \E x \in Tests : /\ r.checks[g][x] # NoCheck
                                             /\ x \in again \/ reviewedSourceForGate(g) \in again
           checks == [g \in Gates |-> IF dropped(g) THEN [x \in Tests |-> NoCheck] ELSE p.checks[g]]
           approvals == [t \in Edges \cup Gates |->
             IF \/ t \in reviews \cup reviewEdges
                \/ t \in Edges /\ readBy(again, t)
             THEN NoFingerprint ELSE p.approvals[t]]
           decisions == [e \in Edges |-> IF e \in reviewEdges THEN NoDecision ELSE p.decisions[e]]
           q == [p EXCEPT !.attempt = attempt, !.failureCode = code, !.loop = loop,
                          !.activeLoops = activeLoops, !.outputs = outputs,
                          !.contexts = contexts, !.artifacts = artifacts,
                          !.assessments = assessments, !.checks = checks,
                          !.approvals = approvals, !.decisions = decisions]
<1>1. queueEligibleRevisionAttempts(r) = q
  BY DEF queueEligibleRevisionAttempts, queueRevisionAttempts
<1>2. D \subseteq Loops
  BY DEF DueLoops
<1>3. st \in [Nodes -> RunStatus]
  BY DEF Runtimes, RunStatus
<1>4. p \in Runtimes /\ p.status = st /\ Aggregated(p) /\ sameRecords(r, p)
  BY <1>3, ReplaceRunState
<1>5. \A n \in Nodes : /\ st[n] \in ActiveStatus => r.status[n] \in ActiveStatus
                       /\ st[n] = "running" => r.status[n] = "running"
  BY DEF ActiveStatus
<1> HIDE DEF st, p, D
<1>6. attempt \in [Nodes -> Nat \ {0}] /\ code \in [Nodes -> FailureCode]
  BY <1>4 DEF Runtimes, FailureCode
<1>7. loop \in [Loops -> LoopStates]
  <2>1. ASSUME NEW l \in Loops PROVE loop[l] \in LoopStates
    <3>1. p.loop[l] \in LoopStates /\ LoopOf[l].maximumAttempts \in Nat
      BY <1>4, LoopTypes
    <3>2. loopRevisionCompleted(LoopOf[l].maximumAttempts, p.loop[l]) \in LoopStates
      BY <3>1, LoopSteps
    <3>3. QED
      BY <3>1, <3>2
  <2>2. QED
    BY <2>1
<1>8. activeLoops \in SUBSET Loops
  BY <1>2, <1>4 DEF Runtimes
<1>9. outputs \in [Edges -> Nat] /\ contexts \in [Edges -> Nat] /\ artifacts \in [Nodes -> Nat]
  BY <1>4 DEF Runtimes
<1>10. assessments \in [Edges -> Assessments]
  <2>1. NoAssessment \in Assessments
    BY DEF NoAssessment, Assessments
  <2>2. QED
    BY <1>4, <2>1 DEF Runtimes
<1>11. checks \in [Gates -> [Tests -> Checks]]
  BY <1>4, NoCheckType DEF Runtimes
<1>12. NoFingerprint \in Fingerprints
  BY DEF NoFingerprint, Fingerprints
<1>13. approvals \in [Edges \cup Gates -> Fingerprints]
  BY <1>4, <1>12 DEF Runtimes
<1>14. decisions \in [Edges -> [decision : {"none", "approved", "changes-requested"},
                                fingerprint : Fingerprints]]
  BY <1>4, <1>12 DEF Runtimes, NoDecision
<1>15. freshEvidence(r) =>
         \A e \in Edges : /\ contexts[e] \in {0, attempt[EdgeOf[e].target]}
                          /\ outputs[e] # 0 => /\ EdgeOf[e].type = "output"
                                               /\ outputs[e] = attempt[EdgeOf[e].source]
  <2> SUFFICES ASSUME freshEvidence(r), NEW e \in Edges
               PROVE  /\ contexts[e] \in {0, attempt[EdgeOf[e].target]}
                      /\ outputs[e] # 0 => /\ EdgeOf[e].type = "output"
                                           /\ outputs[e] = attempt[EdgeOf[e].source]
    OBVIOUS
  <2>1. freshEdgeEvidence(p, e)
    BY <1>4 DEF freshEvidence, freshEdgeEvidence, sameRecords
  <2>2. EdgeOf[e].target \in Nodes /\ (EdgeOf[e].type # "context" => EdgeOf[e].source \in Nodes)
    BY CanvasAssumption
  <2> HIDE DEF again
  <2>3. QED
    BY <2>1, <2>2 DEF freshEdgeEvidence, producedBy, readBy
<1>16. freshEvidence(r) =>
         \A e \in Edges : assessments[e].verdict # "none" =>
           /\ EdgeOf[e].type = "review" /\ ReviewerOf(e) \in Nodes
           /\ assessments[e].reviewerAttempt = attempt[ReviewerOf(e)]
           /\ assessments[e].reviewedAttempt = attempt[EdgeOf[e].source]
  <2> SUFFICES ASSUME freshEvidence(r), NEW e \in Edges, assessments[e].verdict # "none"
               PROVE  /\ EdgeOf[e].type = "review" /\ ReviewerOf(e) \in Nodes
                      /\ assessments[e].reviewerAttempt = attempt[ReviewerOf(e)]
                      /\ assessments[e].reviewedAttempt = attempt[EdgeOf[e].source]
    OBVIOUS
  <2>1. freshEdgeEvidence(p, e)
    BY <1>4 DEF freshEvidence, freshEdgeEvidence, sameRecords
  <2>2. EdgeOf[e].type # "context" => EdgeOf[e].source \in Nodes
    BY CanvasAssumption
  <2> HIDE DEF again, reviewEdges
  <2>3. /\ assessments[e] = p.assessments[e] /\ ~producedBy(again, e)
        /\ ~(EdgeOf[e].type = "review" /\ ReviewerOf(e) \in again)
    BY DEF NoAssessment
  <2>4. QED
    BY <2>1, <2>2, <2>3 DEF freshEdgeEvidence, producedBy
<1>17. freshEvidence(r) => \A n \in Nodes : artifacts[n] \in {0, attempt[n]}
  <2> HIDE DEF again
  <2>1. QED
    BY <1>4 DEF freshEvidence, sameRecords
<1>18. freshEvidence(r) =>
         \A g \in Gates, x \in Tests : checks[g][x] # NoCheck =>
           /\ x \in NodeOf[g].checks
           /\ checks[g][x].producerAttempt = attempt[x]
           /\ checks[g][x].reviewedAttempt = attempt[reviewedSourceForGate(g)]
  <2> SUFFICES ASSUME freshEvidence(r), NEW g \in Gates, NEW x \in Tests, checks[g][x] # NoCheck
               PROVE  /\ x \in NodeOf[g].checks
                      /\ checks[g][x].producerAttempt = attempt[x]
                      /\ checks[g][x].reviewedAttempt = attempt[reviewedSourceForGate(g)]
    OBVIOUS
  <2> HIDE DEF again, reviews
  <2>1. ~dropped(g) /\ checks[g] = p.checks[g]
    BY DEF dropped
  <2>2. p.checks = r.checks /\ p.attempt = r.attempt
    BY <1>4 DEF sameRecords
  <2>3. r.checks[g][x] # NoCheck
    BY <2>1, <2>2
  <2>4. x \notin again /\ reviewedSourceForGate(g) \notin again
    BY <2>1, <2>3 DEF dropped
  <2>5. freshCheck(r, g, x)
    BY DEF freshEvidence
  <2>6. x \in Nodes /\ reviewedSourceForGate(g) \in Nodes
    BY <2>3, <2>5, ReviewedSource DEF freshCheck, Tests
  <2>7. QED
    BY <2>1, <2>2, <2>3, <2>4, <2>5, <2>6 DEF freshCheck
<1>19. loopsWithinAttempts(r) =>
         \A l \in Loops :
           /\ loop[l].attemptsStarted <= LoopOf[l].maximumAttempts
           /\ attempt[LoopOf[l].implementation] = loop[l].attemptsStarted
           /\ loop[l].status = "revision-required" =>
                loop[l].attemptsStarted < LoopOf[l].maximumAttempts
  <2> SUFFICES ASSUME loopsWithinAttempts(r), NEW l \in Loops
               PROVE  /\ loop[l].attemptsStarted <= LoopOf[l].maximumAttempts
                      /\ attempt[LoopOf[l].implementation] = loop[l].attemptsStarted
                      /\ loop[l].status = "revision-required" =>
                           loop[l].attemptsStarted < LoopOf[l].maximumAttempts
    OBVIOUS
  <2> DEFINE i == LoopOf[l].implementation
             m == LoopOf[l].maximumAttempts
  <2>1. p.loop = r.loop /\ p.attempt = r.attempt
    BY <1>4 DEF sameRecords
  <2>2. i \in Nodes /\ m \in Nat /\ r.loop[l] \in LoopStates /\ r.loop[l].attemptsStarted \in Nat
    BY LoopTypes DEF LoopStates
  <2>3. /\ r.loop[l].attemptsStarted <= m
        /\ r.attempt[i] = r.loop[l].attemptsStarted
        /\ r.loop[l].status = "revision-required" => r.loop[l].attemptsStarted < m
    BY DEF loopsWithinAttempts, withinAttempts
  <2>4. i \in RequeuedNodes(l)
    BY DEF RequeuedNodes
  <2>5. CASE l \in D
    <3>1. i \in again
      BY <2>4, <2>5 DEF AttemptNodes
    <3>2. r.loop[l].attemptsStarted < m
      BY <2>3, <2>5 DEF D, DueLoops, revisionDue
    <3>3. loop[l] = loopRevisionCompleted(m, r.loop[l])
      BY <2>1, <2>5
    <3>4. /\ loopRevisionCompleted(m, r.loop[l]).attemptsStarted = r.loop[l].attemptsStarted + 1
          /\ loopRevisionCompleted(m, r.loop[l]).status = "review-required"
      BY <2>2, <3>2, LoopSteps
    <3>5. attempt[i] = r.attempt[i] + 1
      BY <2>1, <2>2, <3>1
    <3> HIDE DEF attempt, loop
    <3>6. QED
      BY <2>2, <2>3, <3>2, <3>3, <3>4, <3>5
  <2>6. CASE l \notin D
    <3>1. \A k \in D : k \in Loops /\ k # l
      BY <1>2, <2>6
    <3>2. i \notin again
      BY <2>4, <3>1, DisjointLoops DEF AttemptNodes
    <3>3. loop[l] = r.loop[l] /\ attempt[i] = r.attempt[i]
      BY <2>1, <2>2, <2>6, <3>2
    <3>4. QED
      BY <2>3, <3>3
  <2>7. QED
    BY <2>5, <2>6
<1> HIDE DEF attempt, code, loop, activeLoops, outputs, contexts, artifacts, assessments, checks,
             approvals, decisions
<1>20. /\ q.status = p.status /\ q.runStatus = p.runStatus
       /\ q.attempt = attempt /\ q.loop = loop /\ q.contexts = contexts
       /\ q.outputs = outputs /\ q.artifacts = artifacts
       /\ q.assessments = assessments /\ q.checks = checks
       /\ q.cancellationRequested = p.cancellationRequested
  BY <1>4 DEF Runtimes
<1>21. q \in Runtimes
  BY <1>4, <1>6, <1>7, <1>8, <1>9, <1>10, <1>11, <1>13, <1>14 DEF Runtimes
<1> HIDE DEF q
<1>22. Aggregated(q) /\ startsNothing(r, q)
  BY <1>4, <1>5, <1>20 DEF Aggregated, startsNothing
<1>23. freshEvidence(r) => freshEvidence(q)
  BY <1>15, <1>16, <1>17, <1>18, <1>20 DEF freshEvidence, freshEdgeEvidence, freshCheck
<1>24. loopsWithinAttempts(r) => loopsWithinAttempts(q)
  BY <1>19, <1>20 DEF loopsWithinAttempts, withinAttempts
<1>25. r.cancellationRequested => q.cancellationRequested
  BY <1>4, <1>20 DEF sameRecords
<1>26. QED
  BY <1>1, <1>21, <1>22, <1>23, <1>24, <1>25 DEF Preserves

-----------------------------------------------------------------------------
(* The steps of the runtime *)

\* A node is ready only while it has no process and nobody cancelled the run.
LEMMA ReadyNode ==
  ASSUME NEW r \in Runtimes, NEW n \in Nodes, canStartWorkflowNode(r, n)
  PROVE  /\ r.status[n] \in UnstartedStatus
         /\ ~r.cancellationRequested
         /\ fitsReservation(ActiveNodes(r), n)
<1>1. evaluateNodeReadiness(r, n) = "ready" /\ fitsReservation(ActiveNodes(r), n)
  BY DEF canStartWorkflowNode
<1>2. ~(r.cancellationRequested \/ r.status[n] \notin UnstartedStatus)
  BY <1>1 DEF evaluateNodeReadiness, readinessWith
<1>3. QED
  BY <1>1, <1>2

\* Starting adds exactly one node to the active ones.
LEMMA StartWorkflowNode ==
  ASSUME NEW r \in Runtimes, NEW n \in Nodes, canStartWorkflowNode(r, n)
  PROVE  LET q == startWorkflowNode(r, n) IN
         /\ q \in Runtimes /\ Aggregated(q) /\ sameRecords(r, q)
         /\ n \notin ActiveNodes(r) /\ ActiveNodes(q) = ActiveNodes(r) \cup {n}
<1> DEFINE q == startWorkflowNode(r, n)
<1>1. q \in Runtimes /\ q.status = [r.status EXCEPT ![n] = "running"] /\ Aggregated(q)
      /\ sameRecords(r, q)
  BY SetNodeRun DEF startWorkflowNode, RunStatus, FailureCode
<1> HIDE DEF q
<1>2. r.status[n] \in UnstartedStatus
  BY ReadyNode
<1>3. n \notin ActiveNodes(r) /\ ActiveNodes(q) = ActiveNodes(r) \cup {n}
  BY <1>1, <1>2 DEF ActiveNodes, ActiveStatus, UnstartedStatus, Runtimes
<1>4. QED
  BY <1>1, <1>3 DEF q

\* Every step either preserves everything or starts one node.
LEMMA NextStep ==
  ASSUME TypeOK, Next
  PROVE  \/ Preserves(rt, rt')
         \/ \E n \in Nodes : canStartWorkflowNode(rt, n) /\ rt' = startWorkflowNode(rt, n)
<1> DEFINE Goal == \/ Preserves(rt, rt')
                   \/ \E n \in Nodes : canStartWorkflowNode(rt, n) /\ rt' = startWorkflowNode(rt, n)
<1>1. rt \in Runtimes
  BY DEF TypeOK
<1>2. CASE ReconcileEvidence
  BY <1>1, <1>2, Reconcile DEF ReconcileEvidence
<1>3. CASE UpdateSchedule
  <2> DEFINE p == settleBlockedWorkflowNodes(rt)
  <2>1. Preserves(rt, p)
    BY <1>1, Settle
  <2>2. rt' = markWaitingForApprovals(p)
    BY <1>3 DEF UpdateSchedule
  <2> HIDE DEF p
  <2>3. Preserves(p, markWaitingForApprovals(p))
    BY <2>1, MarkWaiting DEF Preserves
  <2>4. QED
    BY <2>1, <2>2, <2>3, PreservesTrans
<1>4. ASSUME NEW n \in Nodes, StartNode(n) PROVE Goal
  BY <1>4 DEF StartNode
<1>5. ASSUME NEW n \in Nodes, FailNodeBeforeLaunch(n) PROVE Goal
  BY <1>1, <1>5, FailBeforeLaunch DEF FailNodeBeforeLaunch
<1>6. ASSUME NEW n \in Nodes, NEW result \in ExecutorResults(n), CompleteNode(n, result)
      PROVE  Goal
  BY <1>1, <1>6, RecordCompletion DEF CompleteNode
<1>7. ASSUME NEW g \in Gates, CompleteGate(g) PROVE Goal
  BY <1>1, <1>7, InternalGateEnds DEF CompleteGate
<1>8. ASSUME NEW t \in ApprovalTargets, ApproveHumanDecision(t) PROVE Goal
  BY <1>1, <1>8, ApproveDecision DEF ApproveHumanDecision
<1>9. ASSUME NEW e \in HumanReviewEdges, NEW d \in {"approved", "changes-requested"},
             RecordHumanReview(e, d)
      PROVE  Goal
  <2> DEFINE p == recordWorkflowHumanReviewDecision(rt, e, d)
  <2>1. Preserves(rt, p)
    BY <1>1, RecordDecision
  <2>2. rt' \in routeHumanReview(p, e)
    BY <1>9 DEF RecordHumanReview
  <2> HIDE DEF p
  <2>3. rt' = p \/ \E l \in Loops : rt' = applyRevisionReview(p, l)
    BY <2>2 DEF routeHumanReview
  <2>4. \A l \in Loops : Preserves(p, applyRevisionReview(p, l))
    BY <2>1, ApplyReview DEF Preserves
  <2>5. QED
    BY <2>1, <2>3, <2>4, PreservesTrans
<1>10. CASE QueueRevisions
  BY <1>1, <1>10, QueueAttempts DEF QueueRevisions
<1>11. ASSUME NEW l \in Loops, CancelEscape(l) \/ AcceptEscape(l) \/ BackoffElapses(l)
       PROVE  Goal
  BY <1>1, <1>11, CancelRevisionEscape, AcceptRevisionEscape, ElapseBackoff
  DEF CancelEscape, AcceptEscape, BackoffElapses
<1>12. CASE CancelExecution
  BY <1>1, <1>12, CancelWorkflowExecution DEF CancelExecution
<1>13. CASE RecoverExecution
  BY <1>1, <1>13, RecoverWorkflowExecution DEF RecoverExecution
<1>14. QED
  BY <1>2, <1>3, <1>4, <1>5, <1>6, <1>7, <1>8, <1>9, <1>10, <1>11, <1>12, <1>13 DEF Next

-----------------------------------------------------------------------------
(* The invariant *)

\* Type correctness and the four properties together are inductive: each needs
\* TypeOK, and the counter of a loop stays within its bound only because a
\* revision is asked for below it (the last part of LoopIsBounded).
Inv ==
  /\ TypeOK /\ StoredStatusIsAggregate /\ NoStaleEvidence /\ LoopIsBounded
  /\ ConcurrencyWithinLimit /\ ExclusiveKeysHeldOnce

\* A new runtime is well typed.
LEMMA InitType == createWorkflowExecutionRuntime \in Runtimes
<1> DEFINE status == [n \in Nodes |-> "queued"]
           attempt == [n \in Nodes |-> 1]
           code == [n \in Nodes |-> "none"]
           loop == [l \in Loops |-> createRevisionLoopState]
           none == [e \in Edges |-> 0]
           artifacts == [n \in Nodes |-> 0]
           assessments == [e \in Edges |-> NoAssessment]
           checks == [g \in Gates |-> [p \in Tests |-> NoCheck]]
           approvals == [t \in Edges \cup Gates |-> NoFingerprint]
           decisions == [e \in Edges |-> NoDecision]
<1>1. status \in [Nodes -> RunStatus] /\ attempt \in [Nodes -> Nat \ {0}]
      /\ code \in [Nodes -> FailureCode] /\ "queued" \in RunStatus
  BY DEF RunStatus, FailureCode
<1>2. createRevisionLoopState \in LoopStates
  BY DEF createRevisionLoopState, LoopStates, LoopStatus
<1>3. loop \in [Loops -> LoopStates]
  BY <1>2
<1>4. none \in [Edges -> Nat] /\ artifacts \in [Nodes -> Nat]
  OBVIOUS
<1>5. NoAssessment \in Assessments /\ NoFingerprint \in Fingerprints
  BY DEF NoAssessment, Assessments, NoFingerprint, Fingerprints
<1>6. assessments \in [Edges -> Assessments] /\ checks \in [Gates -> [Tests -> Checks]]
      /\ approvals \in [Edges \cup Gates -> Fingerprints]
  BY <1>5, NoCheckType
<1>7. decisions \in [Edges -> [decision : {"none", "approved", "changes-requested"},
                               fingerprint : Fingerprints]]
  BY <1>5 DEF NoDecision
<1>8. createWorkflowExecutionRuntime =
        [status |-> status, attempt |-> attempt, failureCode |-> code, runStatus |-> "queued",
         loop |-> loop, activeLoops |-> {}, cancellationRequested |-> FALSE,
         outputs |-> none, contexts |-> none, artifacts |-> artifacts,
         assessments |-> assessments, checks |-> checks, approvals |-> approvals,
         decisions |-> decisions]
  BY DEF createWorkflowExecutionRuntime
<1> HIDE DEF status, attempt, code, loop, none, artifacts, assessments, checks, approvals, decisions
<1>9. QED
  BY <1>1, <1>3, <1>4, <1>6, <1>7, <1>8 DEF Runtimes

\* A new runtime satisfies the invariant.
LEMMA InitInv == Init => Inv
<1> SUFFICES ASSUME Init PROVE Inv
  OBVIOUS
<1>1. rt = createWorkflowExecutionRuntime
  BY DEF Init
<1>2. TypeOK
  BY <1>1, InitType DEF TypeOK
<1>3. /\ rt.status = [n \in Nodes |-> "queued"] /\ rt.runStatus = "queued"
      /\ rt.attempt = [n \in Nodes |-> 1]
      /\ rt.loop = [l \in Loops |-> createRevisionLoopState]
      /\ rt.outputs = [e \in Edges |-> 0] /\ rt.contexts = [e \in Edges |-> 0]
      /\ rt.artifacts = [n \in Nodes |-> 0] /\ rt.assessments = [e \in Edges |-> NoAssessment]
      /\ rt.checks = [g \in Gates |-> [p \in Tests |-> NoCheck]]
  BY <1>1 DEF createWorkflowExecutionRuntime
<1>4. StoredStatusIsAggregate
  BY <1>3 DEF StoredStatusIsAggregate, aggregateWorkflowStatus
<1>5. NoStaleEvidence
  BY <1>3 DEF NoStaleEvidence, freshEvidence, freshEdgeEvidence, freshCheck, NoAssessment
<1>6. LoopIsBounded
  BY <1>3, CanvasAssumption
  DEF LoopIsBounded, withinAttempts, createRevisionLoopState, LoopConfig
<1>7. ActiveNodes(rt) = {}
  BY <1>3 DEF ActiveNodes, ActiveStatus
<1>8. ConcurrencyWithinLimit /\ ExclusiveKeysHeldOnce
  BY <1>7, FS_EmptySet, LimitsAssumption DEF ConcurrencyWithinLimit, ExclusiveKeysHeldOnce
<1>9. QED
  BY <1>2, <1>4, <1>5, <1>6, <1>8 DEF Inv

\* There are finitely many active nodes.
LEMMA ActiveNodesFinite ==
  ASSUME NEW r
  PROVE  IsFiniteSet(ActiveNodes(r)) /\ Cardinality(ActiveNodes(r)) \in Nat
<1>1. ActiveNodes(r) \in SUBSET Nodes /\ IsFiniteSet(Nodes)
  BY CanvasAssumption DEF ActiveNodes
<1>2. IsFiniteSet(ActiveNodes(r))
  BY <1>1, FS_Subset
<1>3. QED
  BY <1>2, FS_CardinalityType

\* Every step of the runtime preserves the invariant.
LEMMA InvNext == Inv /\ [Next]_rt => Inv'
<1> SUFFICES ASSUME Inv, [Next]_rt PROVE Inv'
  OBVIOUS
<1>1. rt \in Runtimes /\ TypeOK
  BY DEF Inv, TypeOK
<1>2. CASE Preserves(rt, rt')
  <2>1. TypeOK' /\ StoredStatusIsAggregate' /\ NoStaleEvidence' /\ LoopIsBounded'
    BY <1>2 DEF Inv, Preserves, TypeOK, StoredStatusIsAggregate, Aggregated, NoStaleEvidence,
                LoopIsBounded, loopsWithinAttempts
  <2>2. ActiveNodes(rt') \in SUBSET ActiveNodes(rt)
    BY <1>2 DEF Preserves, startsNothing, ActiveNodes
  <2>3. ConcurrencyWithinLimit'
    <3>1. Cardinality(ActiveNodes(rt')) <= Cardinality(ActiveNodes(rt))
      BY <2>2, ActiveNodesFinite, FS_Subset
    <3>2. Cardinality(ActiveNodes(rt)) <= MaximumConcurrency
      BY DEF Inv, ConcurrencyWithinLimit
    <3>3. Cardinality(ActiveNodes(rt)) \in Nat /\ Cardinality(ActiveNodes(rt')) \in Nat
      BY ActiveNodesFinite
    <3>4. QED
      BY <3>1, <3>2, <3>3, LimitsAssumption DEF ConcurrencyWithinLimit
  <2>4. ExclusiveKeysHeldOnce'
    BY <2>2 DEF Inv, ExclusiveKeysHeldOnce
  <2>5. QED
    BY <2>1, <2>3, <2>4 DEF Inv
<1>3. CASE \E n \in Nodes : canStartWorkflowNode(rt, n) /\ rt' = startWorkflowNode(rt, n)
  <2>1. PICK n \in Nodes : canStartWorkflowNode(rt, n) /\ rt' = startWorkflowNode(rt, n)
    BY <1>3
  <2>2. /\ rt' \in Runtimes /\ Aggregated(rt') /\ sameRecords(rt, rt')
        /\ n \notin ActiveNodes(rt) /\ ActiveNodes(rt') = ActiveNodes(rt) \cup {n}
    BY <1>1, <2>1, StartWorkflowNode
  <2>3. fitsReservation(ActiveNodes(rt), n)
    BY <1>1, <2>1, ReadyNode
  <2>4. TypeOK' /\ StoredStatusIsAggregate'
    BY <2>2 DEF TypeOK, StoredStatusIsAggregate, Aggregated
  <2>5. NoStaleEvidence' /\ LoopIsBounded'
    BY <2>2, SameRecordsPreserve DEF Inv, NoStaleEvidence, LoopIsBounded, loopsWithinAttempts
  <2>6. ConcurrencyWithinLimit'
    <3>1. Cardinality(ActiveNodes(rt')) = Cardinality(ActiveNodes(rt)) + 1
      BY <2>2, ActiveNodesFinite, FS_AddElement
    <3>2. Cardinality(ActiveNodes(rt)) + 1 <= MaximumConcurrency
      BY <2>3 DEF fitsReservation
    <3>3. QED
      BY <3>1, <3>2 DEF ConcurrencyWithinLimit
  <2>7. ExclusiveKeysHeldOnce'
    <3>1. \A m \in ActiveNodes(rt) : NodeOf[n].keys \cap NodeOf[m].keys = {}
      BY <2>3 DEF fitsReservation, KeysOf
    <3>2. QED
      BY <2>2, <3>1 DEF Inv, ExclusiveKeysHeldOnce
  <2>8. QED
    BY <2>4, <2>5, <2>6, <2>7 DEF Inv
<1>4. CASE UNCHANGED rt
  BY <1>4 DEF Inv, TypeOK, StoredStatusIsAggregate, NoStaleEvidence, LoopIsBounded,
              ConcurrencyWithinLimit, ExclusiveKeysHeldOnce
<1>5. QED
  BY <1>1, <1>2, <1>3, <1>4, NextStep

\* The inductive invariant holds in every reachable state.
THEOREM Invariance == Spec => []Inv
<1>1. QED
  BY InitInv, InvNext, PTL DEF Spec

\* Every mutation keeps the runtime well typed: statuses, attempts, loops and all
\* evidence (the schema the store parses a runtime with).
THEOREM TypeCorrect == Spec => []TypeOK
<1>1. Inv => TypeOK
  BY DEF Inv
<1>2. QED
  BY <1>1, Invariance, PTL

\* The run status every mutation stores is the aggregate of its node statuses.
THEOREM StatusCorrect == Spec => []StoredStatusIsAggregate
<1>1. Inv => StoredStatusIsAggregate
  BY DEF Inv
<1>2. QED
  BY <1>1, Invariance, PTL

\* On every valid canvas no evidence outlives the attempt it was collected for.
THEOREM EvidenceIsFresh == Spec => []NoStaleEvidence
<1>1. Inv => NoStaleEvidence
  BY DEF Inv
<1>2. QED
  BY <1>1, Invariance, PTL

\* Every revision loop stays within its configured attempts.
THEOREM LoopsAreBounded == Spec => []LoopIsBounded
<1>1. Inv => LoopIsBounded
  BY DEF Inv
<1>2. QED
  BY <1>1, Invariance, PTL

\* Never more active nodes than the canvas allows, counting those being cancelled,
\* whatever happened between the decision to run a node and its start.
THEOREM ConcurrencyHolds == Spec => []ConcurrencyWithinLimit
<1>1. Inv => ConcurrencyWithinLimit
  BY DEF Inv
<1>2. QED
  BY <1>1, Invariance, PTL

\* No exclusive key is ever held by two active nodes.
THEOREM KeysAreExclusive == Spec => []ExclusiveKeysHeldOnce
<1>1. Inv => ExclusiveKeysHeldOnce
  BY DEF Inv
<1>2. QED
  BY <1>1, Invariance, PTL

\* Once cancellation was requested no step starts a node: the only step that
\* does asks for a ready node, and a cancelled run has none.
THEOREM CancellationHolds == Spec => CancelledRunStartsNothing
<1>1. ASSUME Inv, [Next]_rt
      PROVE  [rt.cancellationRequested =>
                \A n \in Nodes : rt'.status[n] = "running" => rt.status[n] = "running"]_rt
  <2>1. rt \in Runtimes /\ TypeOK
    BY <1>1 DEF Inv, TypeOK
  <2>2. CASE Preserves(rt, rt')
    BY <2>2 DEF Preserves, startsNothing
  <2>3. CASE \E n \in Nodes : canStartWorkflowNode(rt, n) /\ rt' = startWorkflowNode(rt, n)
    BY <2>1, <2>3, ReadyNode
  <2>4. QED
    BY <1>1, <2>1, <2>2, <2>3, NextStep
<1>2. QED
  BY <1>1, Invariance, PTL DEF Spec, CancelledRunStartsNothing

-----------------------------------------------------------------------------
(* Smallest counterexamples *)

Below == {p \in Nat \X Nat : p[1] < p[2]}

\* The library's theorem, without its operator parameter.
LEMMA BelowWellFounded == IsWellFoundedOn(Below, Nat)
  BY NatLessThanWellFounded DEF OpToRel, Below

\* A set of natural numbers has a least element.
LEMMA LeastNumber ==
  ASSUME NEW S \in SUBSET Nat, S # {}
  PROVE  \E x \in S : \A y \in S : x <= y
<1>1. PICK x \in S : \A y \in S : <<y, x>> \notin Below
  BY BelowWellFounded, WFMin
<1>2. ASSUME NEW y \in S PROVE x <= y
  <2>1. x \in Nat /\ y \in Nat
    OBVIOUS
  <2>2. SUFFICES ASSUME y < x PROVE FALSE
    BY <2>1
  <2>3. <<y, x>>[1] < <<y, x>>[2]
    BY <2>2
  <2>4. <<y, x>> \in Below
    BY <2>1, <2>3 DEF Below
  <2>5. QED
    BY <1>1, <2>4
<1>3. QED
  BY <1>2

\* Among some subsets of a finite set there is one without a smaller one.
LEMMA SmallestSet ==
  ASSUME NEW S, IsFiniteSet(S), NEW B \in SUBSET (SUBSET S), B # {}
  PROVE  \E s \in B : \A t \in B : Cardinality(s) <= Cardinality(t)
<1> DEFINE C == {Cardinality(s) : s \in B}
<1>1. \A s \in B : Cardinality(s) \in Nat
  BY FS_Subset, FS_CardinalityType
<1>2. C \in SUBSET Nat /\ C # {}
  BY <1>1
<1>3. PICK x \in C : \A y \in C : x <= y
  BY <1>2, LeastNumber
<1>4. QED
  BY <1>3

\* A subset without one of its elements is smaller.
LEMMA SmallerSet ==
  ASSUME NEW S, IsFiniteSet(S), NEW s \in SUBSET S, NEW x \in s
  PROVE  /\ s \ {x} \in SUBSET S
         /\ Cardinality(s) \in Nat /\ Cardinality(s \ {x}) \in Nat
         /\ Cardinality(s \ {x}) = Cardinality(s) - 1
<1>1. IsFiniteSet(s)
  BY FS_Subset
<1>2. IsFiniteSet(s \ {x}) /\ Cardinality(s \ {x}) = Cardinality(s) - 1
  BY <1>1, FS_RemoveElement
<1>3. QED
  BY <1>1, <1>2, FS_CardinalityType

-----------------------------------------------------------------------------
(* Sums over the subsets of a set *)

first(s) == CHOOSE x \in s : TRUE

\* The first element is an element.
LEMMA FirstIsMember == \A s : s # {} => first(s) \in s
  BY DEF first

\* g is the sum of d over each subset of S.
Sums(d, S, g) ==
  g = [s \in SUBSET S |-> IF s = {} THEN 0 ELSE d[first(s)] + g[s \ {first(s)}]]

\* What it is to be one, set by set.
LEMMA SumOf ==
  ASSUME NEW d, NEW S, NEW g, Sums(d, S, g), NEW s \in SUBSET S
  PROVE  g[s] = IF s = {} THEN 0 ELSE d[first(s)] + g[s \ {first(s)}]
<1> DEFINE h == [t \in SUBSET S |-> IF t = {} THEN 0 ELSE d[first(t)] + g[t \ {first(t)}]]
<1>1. g[s] = h[s]
  BY DEF Sums
<1>2. h[s] = IF s = {} THEN 0 ELSE d[first(s)] + g[s \ {first(s)}]
  OBVIOUS
<1>3. QED
  BY <1>1, <1>2

small(S, n) == {s \in SUBSET S : Cardinality(s) <= n}

\* A sum over the subsets of at most n elements.
SumsUpTo(d, S, n, g) ==
  g = [s \in small(S, n) |-> IF s = {} THEN 0 ELSE d[first(s)] + g[s \ {first(s)}]]

\* What it is to be one, set by set.
LEMMA SumUpTo ==
  ASSUME NEW d, NEW S, NEW n, NEW g, SumsUpTo(d, S, n, g), NEW s \in small(S, n)
  PROVE  g[s] = IF s = {} THEN 0 ELSE d[first(s)] + g[s \ {first(s)}]
<1> DEFINE h == [t \in small(S, n) |-> IF t = {} THEN 0 ELSE d[first(t)] + g[t \ {first(t)}]]
<1>1. g[s] = h[s]
  BY DEF SumsUpTo
<1>2. h[s] = IF s = {} THEN 0 ELSE d[first(s)] + g[s \ {first(s)}]
  OBVIOUS
<1>3. QED
  BY <1>1, <1>2

\* A sum over small sets extends to sets with one more element.
LEMMA SumExtends ==
  ASSUME NEW d, NEW S, IsFiniteSet(S), NEW n \in Nat, NEW g, SumsUpTo(d, S, n, g)
  PROVE  \E h : SumsUpTo(d, S, n + 1, h)
<1> DEFINE h == [s \in small(S, n + 1) |->
                   IF s = {} THEN 0 ELSE d[first(s)] + g[s \ {first(s)}]]
<1>1. \A s \in small(S, n + 1) : h[s] = IF s = {} THEN 0 ELSE d[first(s)] + g[s \ {first(s)}]
  OBVIOUS
<1>2. \A s \in small(S, n) : s \in small(S, n + 1)
  <2>1. \A s \in SUBSET S : Cardinality(s) \in Nat
    BY FS_Subset, FS_CardinalityType
  <2>2. QED
    BY <2>1 DEF small
<1>h. h = [s \in small(S, n + 1) |-> IF s = {} THEN 0 ELSE d[first(s)] + g[s \ {first(s)}]]
  OBVIOUS
<1> HIDE DEF h
<1>3. ASSUME NEW s \in small(S, n) PROVE h[s] = g[s]
  <2>1. g[s] = IF s = {} THEN 0 ELSE d[first(s)] + g[s \ {first(s)}]
    BY SumUpTo
  <2>2. h[s] = IF s = {} THEN 0 ELSE d[first(s)] + g[s \ {first(s)}]
    BY <1>1, <1>2
  <2>3. QED
    BY <2>1, <2>2
<1>4. ASSUME NEW s \in small(S, n + 1), s # {}
      PROVE  s \ {first(s)} \in small(S, n)
  <2>1. s \in SUBSET S /\ Cardinality(s) <= n + 1 /\ first(s) \in s
    BY <1>4, FirstIsMember DEF small
  <2>2. /\ s \ {first(s)} \in SUBSET S
        /\ Cardinality(s) \in Nat /\ Cardinality(s \ {first(s)}) = Cardinality(s) - 1
    BY <2>1, SmallerSet
  <2>3. QED
    BY <2>1, <2>2 DEF small
<1>5. \A s \in small(S, n + 1) :
        (IF s = {} THEN 0 ELSE d[first(s)] + g[s \ {first(s)}])
          = IF s = {} THEN 0 ELSE d[first(s)] + h[s \ {first(s)}]
  BY <1>3, <1>4
<1>6. h = [s \in small(S, n + 1) |-> IF s = {} THEN 0 ELSE d[first(s)] + h[s \ {first(s)}]]
  BY <1>h, <1>5, Zenon
<1>7. QED
  BY <1>6 DEF SumsUpTo

\* The sums over the subsets of a finite set exist.
LEMMA SumExists ==
  ASSUME NEW d, NEW S, IsFiniteSet(S)
  PROVE  \E g : Sums(d, S, g)
<1> DEFINE B == {n \in Nat : ~ \E g : SumsUpTo(d, S, n, g)}
<1>1. B = {}
  <2>1. SUFFICES ASSUME B # {} PROVE FALSE
    OBVIOUS
  <2>2. B \in SUBSET Nat
    OBVIOUS
  <2>3. PICK n \in B : \A m \in B : n <= m
    BY <2>1, <2>2, LeastNumber
  <2>4. n \in Nat /\ ~ \E g : SumsUpTo(d, S, n, g)
    BY <2>3
  <2>5. CASE n = 0
    <3> DEFINE g == [s \in small(S, 0) |-> 0]
    <3>1. \A s \in small(S, 0) : s = {}
      <4>1. ASSUME NEW s \in SUBSET S, Cardinality(s) <= 0 PROVE s = {}
        <5>1. IsFiniteSet(s) /\ Cardinality(s) \in Nat
          BY FS_Subset, FS_CardinalityType
        <5>2. Cardinality(s) = 0
          BY <4>1, <5>1
        <5>3. QED
          BY <5>1, <5>2, FS_EmptySet
      <4>2. QED
        BY <4>1 DEF small
    <3>2. g = [s \in small(S, 0) |-> IF s = {} THEN 0 ELSE d[first(s)] + g[s \ {first(s)}]]
      BY <3>1
    <3>3. SumsUpTo(d, S, 0, g)
      BY <3>2 DEF SumsUpTo
    <3>4. QED
      BY <2>4, <2>5, <3>3
  <2>6. CASE n # 0
    <3>1. n - 1 \in Nat /\ n - 1 \notin B /\ (n - 1) + 1 = n
      BY <2>3, <2>4, <2>6
    <3>2. PICK g : SumsUpTo(d, S, n - 1, g)
      BY <3>1
    <3>3. \E h : SumsUpTo(d, S, (n - 1) + 1, h)
      BY <3>1, <3>2, SumExtends
    <3>4. QED
      BY <2>4, <3>1, <3>3
  <2>7. QED
    BY <2>5, <2>6
<1>2. Cardinality(S) \in Nat /\ small(S, Cardinality(S)) = SUBSET S
  BY FS_Subset, FS_CardinalityType DEF small
<1>3. PICK g : SumsUpTo(d, S, Cardinality(S), g)
  BY <1>1, <1>2
<1>4. Sums(d, S, g)
  BY <1>2, <1>3 DEF Sums, SumsUpTo
<1>5. QED
  BY <1>4

\* Whatever element is taken first, the sum is the same, and it is a number.
LEMMA SumStep ==
  ASSUME NEW S, IsFiniteSet(S), NEW d, \A x \in S : d[x] \in Nat, NEW g, Sums(d, S, g)
  PROVE  \A s \in SUBSET S : g[s] \in Nat /\ \A x \in s : g[s] = d[x] + g[s \ {x}]
<1> DEFINE good(s) == g[s] \in Nat /\ \A x \in s : g[s] = d[x] + g[s \ {x}]
           B == {s \in SUBSET S : ~good(s)}
<1>1. SUFFICES ASSUME B # {} PROVE FALSE
  OBVIOUS
<1>2. PICK s \in B : \A t \in B : Cardinality(s) <= Cardinality(t)
  <2>1. B \in SUBSET (SUBSET S)
    OBVIOUS
  <2> HIDE DEF B
  <2>2. QED
    BY <1>1, <2>1, SmallestSet
<1>3. s \in SUBSET S /\ ~good(s)
  BY <1>2
<1>4. ASSUME NEW x \in s PROVE s \ {x} \in SUBSET S /\ good(s \ {x})
  <2>1. /\ s \ {x} \in SUBSET S
        /\ Cardinality(s) \in Nat /\ Cardinality(s \ {x}) = Cardinality(s) - 1
    BY <1>3, SmallerSet
  <2>2. ~(Cardinality(s) <= Cardinality(s \ {x}))
    BY <2>1
  <2>3. s \ {x} \notin B
    BY <1>2, <2>2
  <2>4. QED
    BY <2>1, <2>3
<1>5. CASE s = {}
  <2>1. g[s] = 0
    BY <1>3, <1>5, SumOf
  <2>2. QED
    BY <1>3, <1>5, <2>1
<1>6. CASE s # {}
  <2> DEFINE f == first(s)
  <2>1. f \in s /\ f \in S /\ d[f] \in Nat
    BY <1>3, <1>6, FirstIsMember
  <2>2. g[s] = d[f] + g[s \ {f}]
    BY <1>3, <1>6, SumOf
  <2> HIDE DEF f
  <2>3. g[s \ {f}] \in Nat
    BY <1>4, <2>1
  <2>4. ASSUME NEW x \in s, x # f PROVE g[s] = d[x] + g[s \ {x}]
    <3>1. x \in s \ {f} /\ f \in s \ {x} /\ x \in S /\ d[x] \in Nat
      BY <1>3, <2>1, <2>4
    <3>2. g[s \ {f}] = d[x] + g[(s \ {f}) \ {x}]
      BY <1>4, <2>1, <3>1
    <3>3. g[s \ {x}] = d[f] + g[(s \ {x}) \ {f}]
      BY <1>4, <3>1
    <3>4. (s \ {x}) \ {f} = (s \ {f}) \ {x}
      OBVIOUS
    <3>5. g[(s \ {f}) \ {x}] \in Nat
      <4>1. (s \ {f}) \ {x} = (s \ {x}) \ {f} /\ Cardinality(s) \in Nat
        BY <1>3, FS_Subset, FS_CardinalityType
      <4>2. /\ s \ {f} \in SUBSET S /\ Cardinality(s \ {f}) \in Nat
            /\ Cardinality(s \ {f}) = Cardinality(s) - 1
        BY <1>3, <2>1, SmallerSet
      <4>3. /\ (s \ {f}) \ {x} \in SUBSET S
            /\ Cardinality((s \ {f}) \ {x}) = Cardinality(s \ {f}) - 1
        BY <3>1, <4>2, SmallerSet
      <4>4. ~(Cardinality(s) <= Cardinality((s \ {f}) \ {x}))
        BY <4>1, <4>2, <4>3
      <4>5. QED
        BY <1>2, <4>3, <4>4
    <3>6. g[(s \ {x}) \ {f}] = g[(s \ {f}) \ {x}]
      BY <3>4, Zenon
    <3> DEFINE a == g[(s \ {f}) \ {x}]
    <3>7. g[s] = d[f] + (d[x] + a) /\ g[s \ {x}] = d[f] + a
      BY <2>2, <3>2, <3>3, <3>6, Zenon
    <3>8. a \in Nat
      BY <3>5
    <3> HIDE DEF a
    <3>9. QED
      BY <2>1, <3>1, <3>7, <3>8
  <2>5. g[s] \in Nat
    BY <2>1, <2>2, <2>3
  <2>6. QED
    BY <1>3, <2>2, <2>4, <2>5
<1>7. QED
  BY <1>5, <1>6

\* Two sums agree on the sets both are defined for.
LEMMA SumIsUnique ==
  ASSUME NEW S, IsFiniteSet(S), NEW T \in SUBSET S, NEW d, NEW g, NEW h,
         Sums(d, S, g), Sums(d, T, h)
  PROVE  g[T] = h[T]
<1> DEFINE B == {s \in SUBSET T : g[s] # h[s]}
<1>1. SUFFICES ASSUME B # {} PROVE FALSE
  OBVIOUS
<1>2. IsFiniteSet(T)
  BY FS_Subset
<1>3. PICK s \in B : \A t \in B : Cardinality(s) <= Cardinality(t)
  <2>1. B \in SUBSET (SUBSET T)
    OBVIOUS
  <2> HIDE DEF B
  <2>2. QED
    BY <1>1, <1>2, <2>1, SmallestSet
<1>4. s \in SUBSET T /\ s \in SUBSET S /\ g[s] # h[s]
  BY <1>3
<1>5. /\ g[s] = IF s = {} THEN 0 ELSE d[first(s)] + g[s \ {first(s)}]
      /\ h[s] = IF s = {} THEN 0 ELSE d[first(s)] + h[s \ {first(s)}]
  BY <1>4, SumOf
<1>6. s # {} /\ first(s) \in s
  BY <1>4, <1>5, FirstIsMember
<1>7. /\ s \ {first(s)} \in SUBSET T
      /\ Cardinality(s) \in Nat /\ Cardinality(s \ {first(s)}) = Cardinality(s) - 1
  BY <1>2, <1>4, <1>6, SmallerSet
<1>8. ~(Cardinality(s) <= Cardinality(s \ {first(s)}))
  BY <1>7
<1>9. s \ {first(s)} \notin B
  BY <1>3, <1>8
<1>10. QED
  BY <1>4, <1>5, <1>6, <1>7, <1>9

\* A larger set has no smaller sum.
LEMMA SumGrows ==
  ASSUME NEW S, IsFiniteSet(S), NEW d, \A x \in S : d[x] \in Nat, NEW g, Sums(d, S, g),
         NEW T \in SUBSET S
  PROVE  g[T] <= g[S]
<1> DEFINE B == {s \in SUBSET S : T \subseteq s /\ ~(g[T] <= g[s])}
<1>1. SUFFICES ASSUME B # {} PROVE FALSE
  OBVIOUS
<1>2. PICK s \in B : \A t \in B : Cardinality(s) <= Cardinality(t)
  <2>1. B \in SUBSET (SUBSET S)
    OBVIOUS
  <2> HIDE DEF B
  <2>2. QED
    BY <1>1, <2>1, SmallestSet
<1>3. s \in SUBSET S /\ T \subseteq s /\ ~(g[T] <= g[s])
  BY <1>2
<1>4. g[T] \in Nat /\ g[s] \in Nat
  BY <1>3, SumStep
<1>5. PICK x \in s : x \notin T
  BY <1>3, <1>4
<1>6. /\ s \ {x} \in SUBSET S
      /\ Cardinality(s) \in Nat /\ Cardinality(s \ {x}) = Cardinality(s) - 1
  BY <1>3, SmallerSet
<1>7. ~(Cardinality(s) <= Cardinality(s \ {x})) /\ T \subseteq s \ {x}
  BY <1>3, <1>5, <1>6
<1>8. g[T] <= g[s \ {x}]
  BY <1>2, <1>6, <1>7
<1>9. g[s] = d[x] + g[s \ {x}] /\ g[s \ {x}] \in Nat /\ d[x] \in Nat
  <2>1. \A t \in SUBSET S : g[t] \in Nat /\ \A y \in t : g[t] = d[y] + g[t \ {y}]
    BY SumStep
  <2>2. QED
    BY <1>3, <1>6, <2>1
<1>10. QED
  BY <1>3, <1>4, <1>8, <1>9

-----------------------------------------------------------------------------
(* The demand of a set of nodes *)

\* The demand of a set of nodes is such a sum.
LEMMA DemandUnfolds ==
  ASSUME NEW S \in SUBSET Nodes, NEW res, NEW d, d = [n \in Nodes |-> NodeOf[n].demand[res]]
  PROVE  \E g : Sums(d, S, g) /\ DemandOf(S, res) = g[S]
<1> DEFINE body(g) == [s \in SUBSET S |-> IF s = {} THEN 0
                         ELSE NodeOf[CHOOSE x \in s : TRUE].demand[res]
                                + g[s \ {CHOOSE x \in s : TRUE}]]
           sum(g) == [s \in SUBSET S |-> IF s = {} THEN 0 ELSE d[first(s)] + g[s \ {first(s)}]]
           iter == CHOOSE g : g = body(g)
<1>1. DemandOf(S, res) = iter[S]
  BY DEF DemandOf, MapThenSumSet, MapThenFoldSet
<1>2. ASSUME NEW g PROVE body(g) = sum(g)
  <2>1. ASSUME NEW s \in SUBSET S, s # {} PROVE d[first(s)] = NodeOf[first(s)].demand[res]
    BY <2>1, FirstIsMember
  <2>2. \A s \in SUBSET S : (IF s = {} THEN 0 ELSE NodeOf[first(s)].demand[res] + g[s \ {first(s)}])
                              = (IF s = {} THEN 0 ELSE d[first(s)] + g[s \ {first(s)}])
    BY <2>1
  <2>3. body(g) = [s \in SUBSET S |-> IF s = {} THEN 0
                      ELSE NodeOf[first(s)].demand[res] + g[s \ {first(s)}]]
    BY DEF first
  <2> HIDE DEF body
  <2>4. QED
    BY <2>2, <2>3, Zenon
<1>3. IsFiniteSet(S)
  BY CanvasAssumption, FS_Subset
<1>4. PICK g : Sums(d, S, g)
  BY <1>3, SumExists
<1>5. g = sum(g)
  BY <1>4 DEF Sums
<1> HIDE DEF body, sum
<1>6. g = body(g)
  BY <1>2, <1>5
<1>7. iter = body(iter)
  BY <1>6
<1> HIDE DEF iter
<1>8. iter = sum(iter)
  BY <1>2, <1>7
<1>9. Sums(d, S, iter)
  BY <1>8 DEF Sums, sum
<1>10. QED
  BY <1>1, <1>9

\* What the demand of a set of nodes is: a number, not smaller than that of a subset,
\* and the sum of a node's own demand and that of the others.
LEMMA DemandSums ==
  ASSUME NEW S \in SUBSET Nodes, NEW T \in SUBSET S, NEW res \in Resources
  PROVE  /\ DemandOf(S, res) \in Nat /\ DemandOf(T, res) \in Nat
         /\ DemandOf(T, res) <= DemandOf(S, res)
         /\ \A n \in S : T = S \ {n} => DemandOf(S, res) = NodeOf[n].demand[res] + DemandOf(T, res)
<1> DEFINE d == [n \in Nodes |-> NodeOf[n].demand[res]]
<1>1. \A n \in Nodes : d[n] = NodeOf[n].demand[res] /\ d[n] \in Nat
  BY CanvasAssumption DEF NodeConfig
<1>2. PICK g : Sums(d, S, g) /\ DemandOf(S, res) = g[S]
  BY DemandUnfolds
<1>3. PICK h : Sums(d, T, h) /\ DemandOf(T, res) = h[T]
  <2>1. T \in SUBSET Nodes
    OBVIOUS
  <2>2. QED
    BY <2>1, DemandUnfolds
<1> HIDE DEF d
<1>4. IsFiniteSet(S) /\ \A n \in S : d[n] \in Nat
  BY <1>1, CanvasAssumption, FS_Subset
<1>5. g[T] = h[T]
  BY <1>2, <1>3, <1>4, SumIsUnique
<1>6. \A s \in SUBSET S : g[s] \in Nat /\ \A x \in s : g[s] = d[x] + g[s \ {x}]
  BY <1>2, <1>4, SumStep
<1>7. g[T] <= g[S]
  BY <1>2, <1>4, SumGrows
<1>8. S \in SUBSET S
  OBVIOUS
<1>9. ASSUME NEW n \in S, T = S \ {n} PROVE g[S] = NodeOf[n].demand[res] + g[T]
  BY <1>1, <1>6, <1>8, <1>9
<1>10. QED
  BY <1>2, <1>3, <1>5, <1>6, <1>7, <1>8, <1>9

\* Nothing demands nothing.
LEMMA NoDemand ==
  ASSUME NEW res \in Resources
  PROVE  DemandOf({}, res) = 0
<1> DEFINE d == [n \in Nodes |-> NodeOf[n].demand[res]]
<1>1. PICK g : Sums(d, {}, g) /\ DemandOf({}, res) = g[{}]
  <2>1. {} \in SUBSET Nodes
    OBVIOUS
  <2>2. QED
    BY <2>1, DemandUnfolds
<1> HIDE DEF d
<1>2. {} \in SUBSET {}
  OBVIOUS
<1>3. g[{}] = 0
  BY <1>1, <1>2, SumOf
<1>4. QED
  BY <1>1, <1>3

\* The active nodes never demand more than the canvas has: a step that starts nothing leaves
\* a subset of them, and a start was checked against all that are active
\* (activeReservation, fitsReservation).
THEOREM DemandHolds == Spec => []DemandWithinLimits
<1>1. Init => DemandWithinLimits
  <2>1. SUFFICES ASSUME Init PROVE DemandWithinLimits
    OBVIOUS
  <2>2. rt.status = [n \in Nodes |-> "queued"]
    BY <2>1 DEF Init, createWorkflowExecutionRuntime
  <2>3. ActiveNodes(rt) = {}
    BY <2>2 DEF ActiveNodes, ActiveStatus
  <2>4. QED
    BY <2>3, NoDemand, LimitsAssumption DEF DemandWithinLimits
<1>2. ASSUME Inv, DemandWithinLimits, [Next]_rt PROVE DemandWithinLimits'
  <2>1. rt \in Runtimes /\ TypeOK
    BY <1>2 DEF Inv, TypeOK
  <2>2. ActiveNodes(rt) \in SUBSET Nodes /\ ActiveNodes(rt') \in SUBSET Nodes
    BY DEF ActiveNodes
  <2>3. ASSUME NEW res \in Resources PROVE DemandOf(ActiveNodes(rt'), res) <= Limits[res]
    <3>1. Limits[res] \in Nat /\ DemandOf(ActiveNodes(rt), res) <= Limits[res]
      BY <1>2, LimitsAssumption DEF DemandWithinLimits
    <3>2. CASE Preserves(rt, rt')
      <4>1. ActiveNodes(rt') \in SUBSET ActiveNodes(rt)
        BY <3>2 DEF Preserves, startsNothing, ActiveNodes
      <4>2. /\ DemandOf(ActiveNodes(rt), res) \in Nat /\ DemandOf(ActiveNodes(rt'), res) \in Nat
            /\ DemandOf(ActiveNodes(rt'), res) <= DemandOf(ActiveNodes(rt), res)
        BY <2>2, <4>1, DemandSums
      <4>3. QED
        BY <3>1, <4>2
    <3>3. CASE \E n \in Nodes : canStartWorkflowNode(rt, n) /\ rt' = startWorkflowNode(rt, n)
      <4>1. PICK n \in Nodes : canStartWorkflowNode(rt, n) /\ rt' = startWorkflowNode(rt, n)
        BY <3>3
      <4>2. n \notin ActiveNodes(rt) /\ ActiveNodes(rt') = ActiveNodes(rt) \cup {n}
        BY <2>1, <4>1, StartWorkflowNode
      <4>3. DemandOf(ActiveNodes(rt), res) + NodeOf[n].demand[res] <= Limits[res]
        BY <2>1, <4>1, ReadyNode DEF fitsReservation
      <4>4. /\ n \in ActiveNodes(rt') /\ ActiveNodes(rt) = ActiveNodes(rt') \ {n}
            /\ ActiveNodes(rt) \in SUBSET ActiveNodes(rt')
        BY <4>2
      <4>5. /\ DemandOf(ActiveNodes(rt), res) \in Nat
            /\ DemandOf(ActiveNodes(rt'), res)
                 = NodeOf[n].demand[res] + DemandOf(ActiveNodes(rt), res)
        <5>1. \A m \in ActiveNodes(rt') : ActiveNodes(rt) = ActiveNodes(rt') \ {m} =>
                DemandOf(ActiveNodes(rt'), res)
                  = NodeOf[m].demand[res] + DemandOf(ActiveNodes(rt), res)
          BY <2>2, <4>4, DemandSums
        <5>2. DemandOf(ActiveNodes(rt), res) \in Nat
          BY <2>2, <4>4, DemandSums
        <5>3. QED
          BY <4>4, <5>1, <5>2
      <4>6. NodeOf[n].demand[res] \in Nat
        BY CanvasAssumption DEF NodeConfig
      <4>7. QED
        BY <3>1, <4>3, <4>5, <4>6
    <3>4. CASE UNCHANGED rt
      BY <3>1, <3>4
    <3>5. QED
      BY <1>2, <2>1, <3>2, <3>3, <3>4, NextStep
  <2>4. QED
    BY <2>3 DEF DemandWithinLimits
<1>3. QED
  BY <1>1, <1>2, Invariance, PTL DEF Spec
=============================================================================
