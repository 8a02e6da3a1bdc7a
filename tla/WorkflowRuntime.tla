-------------------------- MODULE WorkflowRuntime --------------------------
(***************************************************************************)
(* The workflow runtime (packages/core/src/workflow-runtime): which node of*)
(* a planned canvas may run, what its completion proves, when a review     *)
(* gate opens, and how a revision loop sends work back.                    *)
(*                                                                         *)
(* The code is a set of functions from one immutable runtime value to the  *)
(* next; each becomes an operator on the record rt. A function that throws *)
(* is split in two: canF is the condition under which it returns and F the *)
(* value it returns. Spec has one action per function the host persists.   *)
(*                                                                         *)
(* Every piece of evidence is bound in the code to a digest or fingerprint *)
(* of one attempt of one node; here the attempt number stands for it, and  *)
(* 0 for "no evidence". Timestamps are left out: the host never records a  *)
(* time before the last one, so only the back-off of a loop remains, as a  *)
(* flag. The run covers the whole canvas: Nodes and Edges are the plan.    *)
(***************************************************************************)
EXTENDS WorkflowModel, Sequences, FiniteSets, FiniteSetsExt, Functions

CONSTANTS
  Nodes,                \* planned node ids
  Edges,                \* executable edge ids of the plan
  Loops,                \* planned revision loop ids
  NodeOf,               \* node id -> its configuration
  EdgeOf,               \* edge id -> its configuration
  LoopOf,               \* loop id -> its configuration
  Order,                \* the node ids in the order of the plan's stages
  MaximumConcurrency,   \* canvas.workflowLimits.maximumConcurrency
  Limits,               \* canvas.workflowLimits, per weighted resource
  NoNode                \* an optional node id that is not configured

VARIABLE rt

-----------------------------------------------------------------------------
(* The canvas *)

Resources == {"cpuUnits", "memoryMb"}
NodeType == {"agent", "task", "test", "review-gate", "diff-review"}

\* checks: the test nodes that produce a gate's requiredCheckIds.
NodeConfig ==
  [type : NodeType, checks : SUBSET Nodes, reviewerAgent : Nodes \cup {NoNode},
   humanApproval : BOOLEAN, backoff : BOOLEAN,
   demand : [Resources -> Nat \ {0}], keys : SUBSET STRING]

LoopConfig ==
  [implementation : Nodes, review : Nodes, reviewEdge : Edges,
   maximumAttempts : Nat \ {0}, stopConditions : SUBSET StopCondition]

ASSUME CanvasAssumption ==
  /\ IsFiniteSet(Nodes)
  /\ NoNode \notin Nodes
  /\ NodeOf \in [Nodes -> NodeConfig]
  /\ DOMAIN EdgeOf = Edges
  /\ \A e \in Edges : /\ EdgeOf[e].target \in Nodes
                      /\ EdgeOf[e].type # "context" => EdgeOf[e].source \in Nodes
  /\ LoopOf \in [Loops -> LoopConfig]

ASSUME LimitsAssumption ==
  /\ MaximumConcurrency \in Nat \ {0}
  /\ Limits \in [Resources -> Nat \ {0}]

\* What validateWorkflow accepts, as far as the properties depend on it.
ASSUME ValidCanvas ==
  /\ Edges \cap Nodes = {}
  /\ \A n \in Nodes : \A p \in NodeOf[n].checks : NodeOf[p].type = "test"
  /\ \A n \in Nodes : LET agent == NodeOf[n].reviewerAgent IN
       agent # NoNode => NodeOf[agent].type = "agent"
  /\ \A e \in Edges :
       EdgeOf[e].type = "execute" /\ EdgeOf[e].approval = "review-gate" =>
         EdgeOf[e].gate \in Nodes /\ NodeOf[EdgeOf[e].gate].type = "review-gate"
  /\ \A e \in Edges :
       EdgeOf[e].type = "review" =>
         CASE EdgeOf[e].reviewer = "agent" -> NodeOf[EdgeOf[e].target].type = "agent"
           [] EdgeOf[e].reviewer = "gate" -> NodeOf[EdgeOf[e].target].type = "review-gate"
           [] EdgeOf[e].reviewer = "human" -> NodeOf[EdgeOf[e].target].type = "diff-review"
  /\ \A l \in Loops : LET e == LoopOf[l].reviewEdge IN
       /\ EdgeOf[e].type = "review"
       /\ EdgeOf[e].source = LoopOf[l].implementation
       /\ EdgeOf[e].target = LoopOf[l].review
       /\ \A k \in Loops : LoopOf[k].reviewEdge = e => k = l
       /\ LoopOf[l].stopConditions \cap {"review-approved", "tests-passed"} # {}

Gates == {n \in Nodes : NodeOf[n].type = "review-gate"}
Tests == {n \in Nodes : NodeOf[n].type = "test"}
EdgesOfType(t) == {e \in Edges : EdgeOf[e].type = t}
Incoming(n) == {e \in Edges : EdgeOf[e].target = n}

\* The edges by which an agent node reviews another node directly.
DirectReviews(n) == {e \in EdgesOfType("review") :
                       EdgeOf[e].reviewer = "agent" /\ EdgeOf[e].target = n}

\* The agent whose assessment a review edge expects.
ReviewerOf(e) ==
  CASE EdgeOf[e].reviewer = "agent" -> EdgeOf[e].target
    [] EdgeOf[e].reviewer = "gate" -> NodeOf[EdgeOf[e].target].reviewerAgent
    [] OTHER -> NoNode

\* The review edges a completing agent must assess.
ReviewEdgesBy(n) == {e \in EdgesOfType("review") : ReviewerOf(e) = n}

ApprovedByGate(g) == {e \in EdgesOfType("execute") :
                        EdgeOf[e].approval = "review-gate" /\ EdgeOf[e].gate = g}

reviewedSourceIdsForGate(g) ==
  {EdgeOf[e].source : e \in {x \in EdgesOfType("review") : EdgeOf[x].target = g}}
  \cup {EdgeOf[e].source : e \in ApprovedByGate(g)}
  \cup {LoopOf[l].implementation : l \in {k \in Loops : LoopOf[k].review = g}}

\* validateWorkflow: a gate that asks for any evidence reviews exactly one node.
ASSUME GateSourceAssumption ==
  \A g \in Gates :
    NodeOf[g].checks # {} \/ NodeOf[g].reviewerAgent # NoNode \/ NodeOf[g].humanApproval =>
      \E n \in Nodes : reviewedSourceIdsForGate(g) = {n}

reviewedSourceForGate(g) == CHOOSE n \in reviewedSourceIdsForGate(g) : TRUE

\* The required outputs of the reviewed node that a check producer consumes.
CausalEdges(reviewed, producer) ==
  {e \in EdgesOfType("output") : /\ EdgeOf[e].required
                                 /\ EdgeOf[e].source = reviewed
                                 /\ EdgeOf[e].target = producer}

-----------------------------------------------------------------------------
(* The runtime value *)

NoAssessment == [verdict |-> "none", reviewerAttempt |-> 0, reviewedAttempt |-> 0]
NoCheck == [status |-> "missing", producerAttempt |-> 0, reviewedAttempt |-> 0]
NoFingerprint == [targetAttempt |-> 0, runs |-> {}, outputs |-> {}, contexts |-> {},
                  checks |-> {}, assessments |-> {}]
NoDecision == [decision |-> "none", fingerprint |-> NoFingerprint]

Assessments == [verdict : {"none", "approved", "changes-requested"},
                reviewerAttempt : Nat, reviewedAttempt : Nat]
Checks == [status : {"missing", "passed", "failed", "cancelled", "lost"},
           producerAttempt : Nat, reviewedAttempt : Nat]
Fingerprints == [targetAttempt : Nat, runs : SUBSET (Nodes \X Nat \X RunStatus),
                 outputs : SUBSET (Edges \X Nat), contexts : SUBSET (Edges \X Nat),
                 checks : SUBSET (Nodes \X Checks), assessments : SUBSET (Edges \X Assessments)]

\* The only failure code any rule reads is the one of a rejecting reviewer.
FailureCode == {"none", "REVIEW_CHANGES_REQUESTED", "other"}

Runtimes ==
  [status : [Nodes -> RunStatus], attempt : [Nodes -> Nat \ {0}],
   failureCode : [Nodes -> FailureCode], runStatus : RunStatus,
   loop : [Loops -> LoopStates], activeLoops : SUBSET Loops,
   cancellationRequested : BOOLEAN,
   outputs : [Edges -> Nat], contexts : [Edges -> Nat], artifacts : [Nodes -> Nat],
   assessments : [Edges -> Assessments], checks : [Gates -> [Tests -> Checks]],
   approvals : [Edges \cup Gates -> Fingerprints],
   decisions : [Edges -> [decision : {"none", "approved", "changes-requested"},
                          fingerprint : Fingerprints]]]

createWorkflowExecutionRuntime ==
  [status |-> [n \in Nodes |-> "queued"], attempt |-> [n \in Nodes |-> 1],
   failureCode |-> [n \in Nodes |-> "none"], runStatus |-> "queued",
   loop |-> [l \in Loops |-> createRevisionLoopState], activeLoops |-> {},
   cancellationRequested |-> FALSE,
   outputs |-> [e \in Edges |-> 0], contexts |-> [e \in Edges |-> 0],
   artifacts |-> [n \in Nodes |-> 0],
   assessments |-> [e \in Edges |-> NoAssessment],
   checks |-> [g \in Gates |-> [p \in Tests |-> NoCheck]],
   approvals |-> [t \in Edges \cup Gates |-> NoFingerprint],
   decisions |-> [e \in Edges |-> NoDecision]]

-----------------------------------------------------------------------------
(* Current evidence *)

\* Stored assessment of review edge e, if it still speaks about the current
\* attempts of a finished reviewer and of the node reviewed, whose canvas status
\* is given. Not for human reviews, which record a decision instead.
AssessmentGiven(r, e, sourceStatus) ==
  LET a == r.assessments[e]
      reviewer == ReviewerOf(e)
      source == EdgeOf[e].source IN
  IF /\ a.verdict # "none"
     /\ reviewer # NoNode
     /\ \/ r.status[reviewer] \in {"succeeded", "waiting-for-approval"}
        \/ /\ r.status[reviewer] = "failed"
           /\ r.failureCode[reviewer] = "REVIEW_CHANGES_REQUESTED"
     /\ a.reviewerAttempt = r.attempt[reviewer]
     /\ r.status[source] = "succeeded"
     /\ sourceStatus = "succeeded"
     /\ a.reviewedAttempt = r.attempt[source]
     /\ r.artifacts[source] \in {0, r.attempt[source]}
  THEN a ELSE NoAssessment

\* The status other nodes see: a succeeded reviewer counts as failed once it
\* asked for changes and as running until every node it reviews is approved.
reviewedStatus(status, verdicts) ==
  IF status # "succeeded" \/ verdicts = {} THEN status
  ELSE IF "changes-requested" \in verdicts THEN "failed"
  ELSE IF verdicts # {"approved"} THEN "running"
  ELSE "succeeded"

canvasNodeStatus(r) ==
  LET seen[n \in Nodes] ==
        reviewedStatus(r.status[n],
          {AssessmentGiven(r, e, seen[EdgeOf[e].source]).verdict : e \in DirectReviews(n)})
  IN [n \in Nodes |-> IF r.status[n] = "succeeded" THEN seen[n] ELSE r.status[n]]

currentReviewerAssessmentForEdge(r, e) ==
  AssessmentGiven(r, e, canvasNodeStatus(r)[EdgeOf[e].source])

Succeeded(r, n) == r.status[n] = "succeeded" /\ canvasNodeStatus(r)[n] = "succeeded"

currentCausalCheckPublications(r, reviewed, producer) ==
  {e \in CausalEdges(reviewed, producer) : r.outputs[e] = r.attempt[reviewed]}

\* The producer statuses that agree with a check result.
expectedProducerStatuses(s) ==
  CASE s = "passed" -> {"succeeded"}
    [] s = "failed" -> {"succeeded", "failed"}
    [] s = "cancelled" -> {"cancelled"}
    [] s = "lost" -> {"lost"}
    [] OTHER -> {}

\* Check result c of producer p still speaks about the gate's current attempt.
currentCheckForGate(r, g, p, c) ==
  LET reviewed == reviewedSourceForGate(g) IN
  /\ r.status[reviewed] = "succeeded"
  /\ c.producerAttempt = r.attempt[p]
  /\ r.status[p] \in expectedProducerStatuses(c.status)
  /\ c.reviewedAttempt = r.attempt[reviewed]
  /\ currentCausalCheckPublications(r, reviewed, p) # {}

currentGateChecks(r, g) ==
  [p \in NodeOf[g].checks |->
     IF /\ Succeeded(r, reviewedSourceForGate(g))
        /\ currentCheckForGate(r, g, p, r.checks[g][p])
     THEN r.checks[g][p] ELSE NoCheck]

\* The evidence a human decision on target t (an edge or a gate) is bound to.
approvalRequestUnchecked(r, t) ==
  LET isGate == t \in Gates
      target == IF isGate THEN t ELSE EdgeOf[t].target
      reviewed == IF isGate THEN reviewedSourceIdsForGate(t) ELSE {EdgeOf[t].source}
  IN [targetAttempt |-> r.attempt[target],
      runs |-> {<<n, r.attempt[n], r.status[n]>> : n \in reviewed},
      outputs |-> {<<e, r.outputs[e]>> :
                     e \in {x \in EdgesOfType("output") :
                              /\ EdgeOf[x].source \in reviewed
                              /\ r.outputs[x] = r.attempt[EdgeOf[x].source]}},
      contexts |-> {<<e, r.contexts[e]>> :
                      e \in {x \in EdgesOfType("context") :
                               EdgeOf[x].target = target /\ r.contexts[x] # 0}},
      checks |-> IF isGate
                 THEN {<<p, currentGateChecks(r, t)[p]>> : p \in NodeOf[t].checks}
                 ELSE {},
      assessments |-> {<<e, currentReviewerAssessmentForEdge(r, e)>> :
                         e \in {x \in EdgesOfType("review") : EdgeOf[x].source \in reviewed}}]

\* Faulty variant: any approval ever given counts.
hasSomeHumanApproval(r, t) == r.approvals[t] # NoFingerprint

hasCurrentHumanApproval(r, t) == r.approvals[t] = approvalRequestUnchecked(r, t)

currentHumanReviewDecision(r, e) ==
  IF r.decisions[e].fingerprint = approvalRequestUnchecked(r, e)
  THEN r.decisions[e].decision ELSE "none"

GateReviewEdges(g) == {e \in EdgesOfType("review") :
                         EdgeOf[e].target = g /\ EdgeOf[e].reviewer = "gate"}

givenVerdict(verdicts) ==
  IF verdicts \subseteq {"none"} THEN "none" ELSE CHOOSE v \in verdicts : v # "none"

GateAssessment(r, g) ==
  givenVerdict({currentReviewerAssessmentForEdge(r, e).verdict : e \in GateReviewEdges(g)})

GateCheckStatuses(r, g) == {c.status : c \in Range(currentGateChecks(r, g))}

gateDeterministicStatus(r, g) ==
  deterministicStatus(GateCheckStatuses(r, g))

reviewGateEvaluation(r, g) ==
  evaluateReviewGate(GateCheckStatuses(r, g),
                     NodeOf[g].reviewerAgent # NoNode, GateAssessment(r, g),
                     NodeOf[g].humanApproval, hasCurrentHumanApproval(r, g))

-----------------------------------------------------------------------------
(* What an edge and a node wait for *)

contextDisposition(r, e) ==
  IF ~EdgeOf[e].attachments THEN IF EdgeOf[e].required THEN "blocked" ELSE "satisfied"
  ELSE IF r.contexts[e] = 0 THEN "waiting"
  ELSE IF r.contexts[e] = r.attempt[EdgeOf[e].target] THEN "satisfied"
  ELSE "blocked"

dependencyDisposition(sourceStatus) ==
  IF sourceStatus = "succeeded" THEN "satisfied"
  ELSE IF isTerminalRunStatus(sourceStatus) THEN "blocked"
  ELSE "waiting"

gateApprovalDisposition(verdict, gateStatus) ==
  IF verdict = "failed" \/ gateStatus \in TerminalStatus \ {"succeeded"} THEN "blocked"
  ELSE IF verdict = "waiting-human" THEN "waiting-for-approval"
  ELSE IF verdict = "passed" /\ gateStatus = "succeeded" THEN "satisfied"
  ELSE "waiting"

\* Faulty variant: every execute edge fires when its source has ended.
executeAlwaysTriggered(trigger, sourceStatus) == isTerminalRunStatus(sourceStatus)

executeTriggered(trigger, sourceStatus) ==
  IF trigger = "on-success" THEN sourceStatus = "succeeded"
  ELSE isTerminalRunStatus(sourceStatus)

executeDisposition(r, e, sourceStatus) ==
  IF r.failureCode[EdgeOf[e].source] = "REVIEW_CHANGES_REQUESTED" THEN "blocked"
  ELSE IF ~executeTriggered(EdgeOf[e].trigger, sourceStatus)
       THEN IF isTerminalRunStatus(sourceStatus) THEN "blocked" ELSE "waiting"
  ELSE CASE EdgeOf[e].approval = "human" ->
              IF hasCurrentHumanApproval(r, e) THEN "satisfied" ELSE "waiting-for-approval"
         [] EdgeOf[e].approval = "review-gate" ->
              gateApprovalDisposition(reviewGateEvaluation(r, EdgeOf[e].gate),
                                      r.status[EdgeOf[e].gate])
         [] OTHER -> "satisfied"

outputDisposition(r, e, sourceStatus) ==
  IF r.outputs[e] = r.attempt[EdgeOf[e].source] THEN "satisfied"
  ELSE IF ~isTerminalRunStatus(sourceStatus) THEN "waiting"
  ELSE IF ~EdgeOf[e].required THEN "satisfied"
  ELSE IF sourceStatus = "succeeded" THEN "waiting"
  ELSE "blocked"

\* A review by a person or through a gate that ended with changes requested.
rejectedReview(r, e) ==
  /\ EdgeOf[e].type = "review"
  /\ \/ /\ EdgeOf[e].reviewer = "gate"
        /\ currentReviewerAssessmentForEdge(r, e).verdict = "changes-requested"
     \/ /\ EdgeOf[e].reviewer = "human"
        /\ currentHumanReviewDecision(r, e) = "changes-requested"

agentReviewDisposition(verdict, reviewerStatusNow) ==
  CASE verdict = "approved" -> "satisfied"
    [] verdict = "changes-requested" -> "blocked"
    [] OTHER -> IF reviewerStatusNow \in TerminalStatus \ {"succeeded"} THEN "blocked"
                ELSE IF reviewerStatusNow \in {"succeeded", "waiting-for-approval"}
                     THEN "waiting"
                ELSE "satisfied"

reviewDisposition(r, e, sourceStatus) ==
  IF sourceStatus # "succeeded" THEN dependencyDisposition(sourceStatus)
  ELSE CASE EdgeOf[e].reviewer = "agent" ->
              agentReviewDisposition(AssessmentGiven(r, e, sourceStatus).verdict,
                                     r.status[EdgeOf[e].target])
         [] EdgeOf[e].reviewer = "human" ->
              IF currentHumanReviewDecision(r, e) = "none" THEN "waiting-for-approval"
              ELSE "satisfied"
         [] OTHER -> IF /\ EdgeOf[e].requireApproval
                        /\ ReviewerOf(e) # NoNode
                        /\ AssessmentGiven(r, e, sourceStatus) = NoAssessment
                     THEN "waiting" ELSE "satisfied"

edgeDisposition(r, e, sourceStatus) ==
  CASE EdgeOf[e].type = "dependency" -> dependencyDisposition(sourceStatus)
    [] EdgeOf[e].type = "execute" -> executeDisposition(r, e, sourceStatus)
    [] EdgeOf[e].type = "output" -> outputDisposition(r, e, sourceStatus)
    [] EdgeOf[e].type = "review" -> reviewDisposition(r, e, sourceStatus)

evaluateExecutableEdge(r, e) ==
  IF EdgeOf[e].type = "context" THEN contextDisposition(r, e)
  ELSE edgeDisposition(r, e, canvasNodeStatus(r)[EdgeOf[e].source])

\* The nodes an agent reviews on behalf of the gates that name it.
AssignedSources(n) ==
  UNION {reviewedSourceIdsForGate(g) : g \in {x \in Gates : NodeOf[x].reviewerAgent = n}}

assignedReadiness(sources) ==
  IF sources \cap (TerminalStatus \ {"succeeded"}) # {} THEN "blocked"
  ELSE IF sources \subseteq {"succeeded"} THEN "ready" ELSE "waiting"

gateReadiness(verdict) ==
  CASE verdict = "pending" -> "waiting"
    [] verdict = "waiting-human" -> "waiting-for-approval"
    [] OTHER -> "ready"

\* What is left to decide once every incoming edge is satisfied.
ownReadiness(r, n) ==
  CASE NodeOf[n].type = "agent" ->
         assignedReadiness({canvasNodeStatus(r)[m] : m \in AssignedSources(n)})
    [] NodeOf[n].type = "review-gate" -> gateReadiness(reviewGateEvaluation(r, n))
    [] OTHER -> "ready"

\* The incoming edges are judged before the node itself, the worst first.
combinedReadiness(dispositions, own) ==
  CASE "blocked" \in dispositions -> "blocked"
    [] dispositions \cap {"blocked", "waiting"} = {"waiting"} -> "waiting"
    [] dispositions \cap {"blocked", "waiting", "waiting-for-approval"}
         = {"waiting-for-approval"} -> "waiting-for-approval"
    [] OTHER -> own

edgeDispositions(r, n) == [e \in Incoming(n) |-> evaluateExecutableEdge(r, e)]

\* Faulty variant: a cancelled run goes on being scheduled.
readinessDespiteCancellation(r, n, dispositions) ==
  IF isTerminalRunStatus(r.runStatus) \/ r.status[n] \notin UnstartedStatus
  THEN "not-runnable"
  ELSE combinedReadiness(Range(dispositions), ownReadiness(r, n))

\* dispositions: those of the edges into n.
readinessWith(r, n, dispositions) ==
  IF \/ r.cancellationRequested
     \/ isTerminalRunStatus(r.runStatus)
     \/ r.status[n] \notin UnstartedStatus
  THEN "not-runnable"
  ELSE combinedReadiness(Range(dispositions), ownReadiness(r, n))

evaluateNodeReadiness(r, n) == readinessWith(r, n, edgeDispositions(r, n))

-----------------------------------------------------------------------------
(* Scheduling *)

\* Faulty variant: the run status is left as it was.
replaceNodeRunsOnly(r, status) == [r EXCEPT !.status = status]

replaceRunState(r, status) ==
  [r EXCEPT !.status = status, !.runStatus = aggregateWorkflowStatus(status)]

setNodeRun(r, n, status, code) ==
  [replaceRunState(r, [r.status EXCEPT ![n] = status]) EXCEPT !.failureCode[n] = code]

ActiveNodes(r) == {n \in Nodes : r.status[n] \in ActiveStatus}

KeysOf(S) == UNION {NodeOf[m].keys : m \in S}

DemandOf(S, res) == MapThenSumSet(LAMBDA m : NodeOf[m].demand[res], S)

\* Faulty variants: one node too many, a demand compared on its own, keys ignored.
fitsOneMore(reserved, n) ==
  /\ Cardinality(reserved) <= MaximumConcurrency
  /\ \A res \in Resources : DemandOf(reserved, res) + NodeOf[n].demand[res] <= Limits[res]
  /\ NodeOf[n].keys \cap KeysOf(reserved) = {}
fitsAlone(reserved, n) ==
  /\ Cardinality(reserved) + 1 <= MaximumConcurrency
  /\ \A res \in Resources : NodeOf[n].demand[res] <= Limits[res]
  /\ NodeOf[n].keys \cap KeysOf(reserved) = {}
fitsWithoutKeys(reserved, n) ==
  /\ Cardinality(reserved) + 1 <= MaximumConcurrency
  /\ \A res \in Resources : DemandOf(reserved, res) + NodeOf[n].demand[res] <= Limits[res]

\* reserved: the nodes whose resources are taken.
fitsReservation(reserved, n) ==
  /\ Cardinality(reserved) + 1 <= MaximumConcurrency
  /\ \A res \in Resources : DemandOf(reserved, res) + NodeOf[n].demand[res] <= Limits[res]
  /\ NodeOf[n].keys \cap KeysOf(reserved) = {}

\* Greedy choice of the ready nodes along the plan's order, each chosen node reserving
\* its share; Order lists nodes of the canvas only.
runnableNodeIds(r) ==
  LET ready == {n \in Nodes : evaluateNodeReadiness(r, n) = "ready"}
      chosen[i \in 0..Len(Order)] ==
        IF i = 0 THEN {}
        ELSE LET before == chosen[i - 1] IN
             IF Order[i] \in ready /\ fitsReservation(ActiveNodes(r) \cup before, Order[i])
             THEN before \cup {Order[i]} ELSE before
  IN ready \cap chosen[Len(Order)]

blockIsDeferredByRevisionLoop(r, e) ==
  \E l \in Loops :
    /\ r.loop[l].status \in UnresolvedLoopStatus
    /\ \/ EdgeOf[e].source = LoopOf[l].review
       \/ e \in ApprovedByGate(LoopOf[l].review)

onlyDeferred(r, blocked) ==
  blocked # {} /\ \A e \in blocked : blockIsDeferredByRevisionLoop(r, e)

neverReady(r, n, dispositions) ==
  /\ readinessWith(r, n, dispositions) = "blocked"
  /\ ~onlyDeferred(r, {e \in Incoming(n) : dispositions[e] = "blocked"})

definitivelyBlocked(r) == {n \in Nodes : neverReady(r, n, edgeDispositions(r, n))}

cancelUnstarted(r, S) ==
  LET hit == {n \in Nodes : n \in S /\ r.status[n] \in UnstartedStatus} IN
  IF hit = {} THEN r
  ELSE [replaceRunState(r, [n \in Nodes |-> IF n \in hit THEN "cancelled" ELSE r.status[n]])
          EXCEPT !.failureCode = [n \in Nodes |-> IF n \in hit THEN "none" ELSE @[n]]]

\* The loop of the code, as the set of nodes it cancels: each round may block more.
settleBlockedWorkflowNodes(r) ==
  LET doomed[S \in SUBSET Nodes] ==
        LET grow(more) == IF more \subseteq S THEN S ELSE doomed[S \cup more] IN
        grow(definitivelyBlocked(cancelUnstarted(r, S)))
  IN cancelUnstarted(r, doomed[{}])

markWaitingForApprovals(r) ==
  replaceRunState(r,
    [n \in Nodes |->
       IF r.status[n] = "queued" /\ evaluateNodeReadiness(r, n) = "waiting-for-approval"
       THEN "waiting-for-approval" ELSE r.status[n]])

canStartWorkflowNode(r, n) ==
  /\ evaluateNodeReadiness(r, n) = "ready"
  /\ fitsReservation(ActiveNodes(r), n)

startWorkflowNode(r, n) == setNodeRun(r, n, "running", "none")

canFailWorkflowNodeBeforeLaunch(r, n) ==
  r.status[n] = "queued" /\ canStartWorkflowNode(r, n)

failWorkflowNodeBeforeLaunch(r, n) ==
  settleBlockedWorkflowNodes(setNodeRun(r, n, "failed", "other"))

canCompleteWorkflowNode(r, n, status) ==
  /\ status = "succeeded" /\ n \in Gates => reviewGateEvaluation(r, n) = "passed"
  /\ \/ status = "succeeded" /\ DirectReviews(n) # {}
        /\ canTransitionRun(r.status[n], "waiting-for-approval")
     \/ status = "cancelled" /\ r.status[n] = "running"
     \/ ~(status = "succeeded" /\ DirectReviews(n) # {})
        /\ canTransitionRun(r.status[n], status)

\* A direct reviewer waits for its assessment instead of succeeding.
completeWorkflowNode(r, n, status) ==
  IF status = "succeeded" /\ DirectReviews(n) # {}
  THEN setNodeRun(r, n, "waiting-for-approval", "none")
  ELSE LET code == IF status \in {"failed", "lost"} THEN "other" ELSE "none"
           revised == {l \in r.activeLoops : /\ status = "succeeded"
                                             /\ LoopOf[l].implementation = n}
       IN settleBlockedWorkflowNodes([setNodeRun(r, n, status, code)
                                        EXCEPT !.activeLoops = @ \ revised])

requestWorkflowCancellation(r) ==
  [replaceRunState(r, [n \in Nodes |-> cancellationStatus(r.status[n])])
     EXCEPT !.failureCode = [n \in Nodes |->
              IF cancellationStatus(r.status[n]) = r.status[n] THEN @[n] ELSE "none"]]

cancelWorkflowExecution(r) ==
  [requestWorkflowCancellation(r) EXCEPT !.cancellationRequested = TRUE, !.activeLoops = {}]

\* The host proves no process alive after a restart, so all active work is lost.
recoverWorkflowExecution(r) ==
  LET lost == ActiveNodes(r)
      recovered == [replaceRunState(r, [n \in Nodes |-> IF n \in lost THEN "lost"
                                                        ELSE r.status[n]])
                      EXCEPT !.failureCode = [n \in Nodes |-> IF n \in lost THEN "other"
                                                              ELSE @[n]]]
  IN settleBlockedWorkflowNodes([recovered EXCEPT !.activeLoops = {}])

-----------------------------------------------------------------------------
(* Evidence *)

\* getWorkflowHumanApprovalRequest: t is the decision now open to the person.
awaitingHumanDecision(r, t) ==
  /\ ~hasCurrentHumanApproval(r, t)
  /\ IF t \in Gates THEN reviewGateEvaluation(r, t) = "waiting-human"
     ELSE /\ evaluateExecutableEdge(r, t) = "waiting-for-approval"
          /\ \A e \in Incoming(EdgeOf[t].target) \ {t} :
               /\ evaluateExecutableEdge(r, e) \notin {"waiting", "blocked"}
               /\ ~rejectedReview(r, e)

\* Approvals exist for execute edges and gates configured for one.
ApprovalTargets == {e \in EdgesOfType("execute") : EdgeOf[e].approval = "human"}
                   \cup {g \in Gates : NodeOf[g].humanApproval}

HumanReviewEdges == {e \in EdgesOfType("review") : EdgeOf[e].reviewer = "human"}

approveWorkflowHumanDecision(r, t) ==
  [r EXCEPT !.approvals[t] = approvalRequestUnchecked(r, t)]

\* Faulty variant: a decision is taken whatever became of the review node.
canRecordDecisionAnyTime(r, e) == awaitingHumanDecision(r, e)

canRecordWorkflowHumanReviewDecision(r, e) ==
  awaitingHumanDecision(r, e) /\ r.status[EdgeOf[e].target] \in UnstartedStatus

recordWorkflowHumanReviewDecision(r, e, decision) ==
  LET decided == IF decision = "approved"
                 THEN setNodeRun(r, EdgeOf[e].target, "succeeded", "none")
                 ELSE setNodeRun(r, EdgeOf[e].target, "failed", "other")
  IN settleBlockedWorkflowNodes(
       [decided EXCEPT !.decisions[e] = [decision |-> decision,
                                         fingerprint |-> approvalRequestUnchecked(r, e)]])

\* The context edges whose selection still has to be proved for the attempt.
UnresolvedContexts(r) ==
  {e \in EdgesOfType("context") : /\ EdgeOf[e].attachments
                                  /\ r.status[EdgeOf[e].target] \in UnstartedStatus
                                  /\ r.contexts[e] # r.attempt[EdgeOf[e].target]}

recordWorkflowContextResolutions(r) ==
  [r EXCEPT !.contexts = [e \in Edges |-> IF e \in UnresolvedContexts(r)
                                          THEN r.attempt[EdgeOf[e].target] ELSE @[e]]]

\* Every waiting gate keeps its current checks and adopts current results that
\* were recorded for another gate, unless they disagree.
reconcilePersistedGateChecks(r) ==
  LET pool(g, p) == {c \in {r.checks[h][p] : h \in Gates} : currentCheckForGate(r, g, p, c)}
      kept(g) == [p \in Tests |->
                    IF p \notin NodeOf[g].checks THEN NoCheck
                    ELSE IF currentCheckForGate(r, g, p, r.checks[g][p]) THEN r.checks[g][p]
                    ELSE IF Cardinality(pool(g, p)) = 1 THEN CHOOSE c \in pool(g, p) : TRUE
                    ELSE NoCheck]
  IN [r EXCEPT !.checks = [g \in Gates |->
        IF /\ r.status[g] \in UnstartedStatus
           /\ \E p \in Tests : kept(g)[p] # NoCheck
           /\ Succeeded(r, reviewedSourceForGate(g))
        THEN kept(g) ELSE r.checks[g]]]

reconcile(r) == reconcilePersistedGateChecks(recordWorkflowContextResolutions(r))

-----------------------------------------------------------------------------
(* Completion of a process, with its evidence *)

\* What the executor of node n hands back. evidence: "none" when it is missing
\* or does not match the run, "plain" when it proves the end of the process
\* only, "full" when it also proves every output and the reviewed artifact.
\* verdict: the final assessment of a reviewing agent.
ExecutorResults(n) ==
  {result \in [status : {"succeeded", "failed", "cancelled", "lost"},
               evidence : {"none", "plain", "full"},
               verdict : {"approved", "changes-requested"}] :
     /\ result.evidence = "full" => result.status = "succeeded"
     /\ result.verdict = "changes-requested" =>
          result.evidence = "full" /\ ReviewEdgesBy(n) # {}}

OutputEdges(n) == {e \in EdgesOfType("output") : EdgeOf[e].source = n}

\* publishWorkflowOutput accepts an output only before its consumer starts.
canPublishWorkflowOutput(r, e) ==
  /\ canvasNodeStatus(r)[EdgeOf[e].source] = "succeeded"
  /\ r.status[EdgeOf[e].target] \in UnstartedStatus

canPublishCompletionOutputs(r, n, evidence) ==
  r.status[n] = "succeeded" =>
    \A e \in OutputEdges(n) : IF evidence = "full" THEN canPublishWorkflowOutput(r, e)
                              ELSE ~EdgeOf[e].required

publishCompletionOutputs(r, n, evidence) ==
  IF r.status[n] = "succeeded" /\ evidence = "full"
  THEN [r EXCEPT !.outputs = [e \in Edges |-> IF e \in OutputEdges(n) THEN r.attempt[n]
                                              ELSE @[e]]]
  ELSE r

canRecordWorkflowReview(r, e) ==
  LET source == EdgeOf[e].source
      reviewer == ReviewerOf(e) IN
  /\ Succeeded(r, source)
  /\ r.artifacts[source] = r.attempt[source]
  /\ EdgeOf[e].target \in Gates => r.status[EdgeOf[e].target] \in UnstartedStatus
  /\ IF EdgeOf[e].reviewer = "agent"
     THEN r.status[reviewer] \in {"waiting-for-approval", "succeeded"}
     ELSE Succeeded(r, reviewer)

\* A direct reviewer ends with its verdicts on the nodes it reviews.
assessedReviewer(r, reviewer, verdicts) ==
  IF "changes-requested" \in verdicts
  THEN setNodeRun(r, reviewer, "failed", "REVIEW_CHANGES_REQUESTED")
  ELSE IF verdicts = {"approved"} THEN setNodeRun(r, reviewer, "succeeded", "none")
  ELSE r

finishReviewer(r, reviewer) ==
  assessedReviewer(r, reviewer, {currentReviewerAssessmentForEdge(r, x).verdict :
                                   x \in DirectReviews(reviewer)})

storeAssessment(r, e, verdict) ==
  [r EXCEPT !.assessments[e] =
     [verdict |-> verdict, reviewerAttempt |-> r.attempt[ReviewerOf(e)],
      reviewedAttempt |-> r.attempt[EdgeOf[e].source]]]

recordWorkflowReview(r, e, verdict) ==
  settleBlockedWorkflowNodes(
    IF EdgeOf[e].reviewer = "agent"
    THEN finishReviewer(storeAssessment(r, e, verdict), ReviewerOf(e))
    ELSE storeAssessment(r, e, verdict))

\* Bound of the model: one assessment per final record, so that their order
\* does not matter.
ASSUME SingleReviewAssumption ==
  \A n \in Nodes : \A e, f \in ReviewEdgesBy(n) : e = f

canRecordReviewerFinalAssessments(r, n, evidence) ==
  \A e \in ReviewEdgesBy(n) : evidence = "full" /\ canRecordWorkflowReview(r, e)

recordReviewerFinalAssessments(r, n, verdict) ==
  IF ReviewEdgesBy(n) = {} THEN r
  ELSE recordWorkflowReview(r, CHOOSE e \in ReviewEdgesBy(n) : TRUE, verdict)

\* Faulty variant: the status of the process is stored as the check's.
checkStatusUntranslated(status) == status

checkStatus(status) == IF status = "succeeded" THEN "passed" ELSE status

GatesAwaitingCheck(r, p) ==
  {g \in Gates : p \in NodeOf[g].checks /\ r.status[g] \in UnstartedStatus}

canRecordExactCheckForGates(r, p) ==
  \A g \in GatesAwaitingCheck(r, p) :
    /\ Succeeded(r, reviewedSourceForGate(g))
    /\ currentCausalCheckPublications(r, reviewedSourceForGate(g), p) # {}

recordExactCheckForGates(r, p, status) ==
  LET check(g) == [status |-> checkStatus(status), producerAttempt |-> r.attempt[p],
                   reviewedAttempt |-> r.attempt[reviewedSourceForGate(g)]]
  IN [r EXCEPT !.checks = [g \in Gates |->
        IF g \notin GatesAwaitingCheck(r, p) THEN r.checks[g]
        ELSE [q \in Tests |->
                IF q = p THEN check(g)
                ELSE IF currentCheckForGate(r, g, q, r.checks[g][q]) THEN r.checks[g][q]
                ELSE NoCheck]]]

\* recordCompletionEvidence on the completed runtime of an agent or task.
canRecordAgentCompletion(r, n, result) ==
  /\ result.evidence # "none" /\ result.status # "lost"
  /\ canPublishCompletionOutputs(r, n, result.evidence)
  /\ result.status = "succeeded" /\ NodeOf[n].type = "agent" =>
       canRecordReviewerFinalAssessments(publishCompletionOutputs(r, n, result.evidence),
                                         n, result.evidence)

recordAgentCompletion(r, n, result) ==
  LET proved == IF result.status = "succeeded" /\ result.evidence = "full"
                THEN [r EXCEPT !.artifacts[n] = r.attempt[n]] ELSE r
      published == publishCompletionOutputs(proved, n, result.evidence)
  IN IF result.status = "succeeded" /\ NodeOf[n].type = "agent"
     THEN recordReviewerFinalAssessments(published, n, result.verdict) ELSE published

\* recordCompletionEvidence on the completed runtime of a test.
canRecordTestCompletion(r, n, result) ==
  /\ result.evidence # "none"
  /\ canPublishCompletionOutputs(r, n, result.evidence)
  /\ canRecordExactCheckForGates(publishCompletionOutputs(r, n, result.evidence), n)

recordTestCompletion(r, n, result) ==
  recordExactCheckForGates(publishCompletionOutputs(r, n, result.evidence), n, result.status)

\* The runtime part of #completeLocked: a completion whose evidence is refused
\* is recorded as a failure of the node. completed: r with n completed.
recordCompletionEvidence(r, completed, n, result) ==
  IF n \in Tests /\ canRecordTestCompletion(completed, n, result)
  THEN recordTestCompletion(completed, n, result)
  ELSE IF n \notin Tests /\ canRecordAgentCompletion(completed, n, result)
  THEN recordAgentCompletion(completed, n, result)
  ELSE completeWorkflowNode(r, n, "failed")

recordCompletion(r, n, result) ==
  recordCompletionEvidence(r, completeWorkflowNode(r, n, result.status), n, result)

-----------------------------------------------------------------------------
(* Revision loops *)

\* The verdict of the review that closes an attempt of loop l.
reviewOutcome(r, l) ==
  LET e == LoopOf[l].reviewEdge
      outcome(verdict) == CASE verdict = "approved" -> "passed"
                            [] verdict = "changes-requested" -> "failed"
                            [] OTHER -> "pending"
  IN IF LoopOf[l].review \in Gates THEN reviewGateEvaluation(r, LoopOf[l].review)
     ELSE IF EdgeOf[e].reviewer = "human" THEN outcome(currentHumanReviewDecision(r, e))
     ELSE outcome(currentReviewerAssessmentForEdge(r, e).verdict)

stopConditionMet(r, l) ==
  LET stops == LoopOf[l].stopConditions IN
  IF "review-approved" \in stops THEN "review-approved"
  ELSE IF /\ "tests-passed" \in stops
          /\ LoopOf[l].review \in Gates
          /\ gateDeterministicStatus(r, LoopOf[l].review) = "passed"
       THEN "tests-passed" ELSE "none"

\* The review node may close an attempt with this outcome.
outcomeIsDue(r, l, outcome) ==
  LET review == r.status[LoopOf[l].review] IN
  /\ IF LoopOf[l].review \in Gates THEN review = "running" \/ isTerminalRunStatus(review)
     ELSE review = "succeeded" \/ (review = "failed" /\ outcome = "failed")
  /\ outcome \in {"passed", "failed"}
  /\ outcome = "passed" => stopConditionMet(r, l) # "none"

canApplyRevisionReview(r, l) ==
  /\ r.loop[l].status = "review-required"
  /\ r.status[LoopOf[l].implementation] = "succeeded"
  /\ outcomeIsDue(r, l, reviewOutcome(r, l))

applyRevisionReview(r, l) ==
  [r EXCEPT !.loop[l] =
     IF reviewOutcome(r, l) = "passed" THEN loopStopConditionMet(@, stopConditionMet(r, l))
     ELSE loopReviewFailed(LoopOf[l].maximumAttempts, @, NodeOf[LoopOf[l].review].backoff)]

\* The host routes a decision into the loop of its edge; no result when the loop
\* refuses it.
routeHumanReview(decided, e) ==
  LET loops == {l \in Loops : LoopOf[l].reviewEdge = e} IN
  IF loops = {} THEN {decided}
  ELSE {applyRevisionReview(decided, l) : l \in {k \in loops : canApplyRevisionReview(decided, k)}}

OpenLoops(r, g) == {l \in Loops : LoopOf[l].review = g /\ r.loop[l].status = "review-required"}

\* A passed gate ends first and then satisfies its loop; the code fails the gate
\* when the loop refuses the outcome.
closeLoopAfter(r, passed, g, l) ==
  IF canApplyRevisionReview(passed, l) THEN applyRevisionReview(passed, l)
  ELSE completeWorkflowNode(r, g, "failed")

\* The host's own completion of a started gate: a failure is routed into the
\* loop before the gate ends; anything unexpected fails the gate.
completeInternalReviewGate(r, g) ==
  LET open == OpenLoops(r, g)
      l == CHOOSE k \in open : TRUE
  IN CASE reviewGateEvaluation(r, g) = "passed" /\ Cardinality(open) = 0 ->
            completeWorkflowNode(r, g, "succeeded")
       [] reviewGateEvaluation(r, g) = "passed" /\ Cardinality(open) = 1 ->
            closeLoopAfter(r, completeWorkflowNode(r, g, "succeeded"), g, l)
       [] OTHER ->
            completeWorkflowNode(
              IF /\ reviewGateEvaluation(r, g) = "failed" /\ Cardinality(open) = 1
                 /\ canApplyRevisionReview(r, l)
              THEN applyRevisionReview(r, l) ELSE r, g, "failed")

\* The nodes an additional attempt runs again.
RequeuedNodes(l) ==
  LET review == LoopOf[l].review IN
  {LoopOf[l].implementation, review}
  \cup IF review \notin Gates THEN {}
       ELSE NodeOf[review].checks \cup ({NodeOf[review].reviewerAgent} \ {NoNode})

\* Bound of the model: loops share no node, so that the order in which due
\* loops are queued does not matter.
ASSUME DisjointLoops ==
  \A l, k \in Loops : l # k => RequeuedNodes(l) \cap RequeuedNodes(k) = {}

revisionDue(r, l) ==
  /\ r.loop[l].status = "revision-required"
  /\ ~r.loop[l].backoff
  /\ isTerminalRunStatus(r.status[LoopOf[l].review])

DueLoops(r) == {l \in Loops : revisionDue(r, l)}

AttemptNodes(D) == UNION {RequeuedNodes(l) : l \in D}

canQueueEligibleRevisionAttempts(r) ==
  /\ DueLoops(r) # {}
  /\ \A n \in AttemptNodes(DueLoops(r)) : isTerminalRunStatus(r.status[n])

\* Faulty variant: only the assessments of earlier attempts are dropped.
reviewProducedBy(again, e) == EdgeOf[e].type = "review" /\ EdgeOf[e].source \in again

\* The edges whose evidence an attempt of the nodes again supersedes.
producedBy(again, e) == EdgeOf[e].type # "context" /\ EdgeOf[e].source \in again

\* The edges those nodes read again.
readBy(again, e) == EdgeOf[e].target \in again

\* Requeues the nodes of the loops D as new attempts and drops their evidence.
queueRevisionAttempts(r, D) ==
  LET again == AttemptNodes(D)
      reviews == {LoopOf[l].review : l \in D}
      reviewEdges == {LoopOf[l].reviewEdge : l \in D}
      reopened == replaceRunState(r, [n \in Nodes |-> IF n \in again THEN "queued"
                                                      ELSE r.status[n]])
  IN [reopened EXCEPT
        !.attempt = [n \in Nodes |-> IF n \in again THEN @[n] + 1 ELSE @[n]],
        !.failureCode = [n \in Nodes |-> IF n \in again THEN "none" ELSE @[n]],
        !.loop = [l \in Loops |->
          IF l \in D THEN loopRevisionCompleted(LoopOf[l].maximumAttempts, @[l]) ELSE @[l]],
        !.activeLoops = @ \cup D,
        !.outputs = [e \in Edges |-> IF producedBy(again, e) THEN 0 ELSE @[e]],
        !.contexts = [e \in Edges |-> IF readBy(again, e) THEN 0 ELSE @[e]],
        !.artifacts = [n \in Nodes |-> IF n \in again THEN 0 ELSE @[n]],
        !.assessments = [e \in Edges |->
          IF \/ e \in reviewEdges
             \/ producedBy(again, e)
             \/ EdgeOf[e].type = "review" /\ ReviewerOf(e) \in again
          THEN NoAssessment ELSE @[e]],
        !.checks = [g \in Gates |->
          IF \/ g \in reviews
             \/ \E p \in Tests : /\ r.checks[g][p] # NoCheck
                                 /\ p \in again \/ reviewedSourceForGate(g) \in again
          THEN [p \in Tests |-> NoCheck] ELSE @[g]],
        !.approvals = [t \in Edges \cup Gates |->
          IF \/ t \in reviews \cup reviewEdges
             \/ t \in Edges /\ readBy(again, t)
          THEN NoFingerprint ELSE @[t]],
        !.decisions = [e \in Edges |-> IF e \in reviewEdges THEN NoDecision ELSE @[e]]]

queueEligibleRevisionAttempts(r) == queueRevisionAttempts(r, DueLoops(r))

canResolveRevisionEscape(r, l) == r.loop[l].status = "waiting-human"

\* Giving up: the run is cancelled and failures count as cancelled.
cancelRevisionEscape(r, l) ==
  LET asked == requestWorkflowCancellation(r) IN
  [replaceRunState(asked, [n \in Nodes |-> IF asked.status[n] \in {"failed", "lost"}
                                           THEN "cancelled" ELSE asked.status[n]])
     EXCEPT !.loop[l] = loopHumanAborted(@), !.activeLoops = @ \ {l},
            !.cancellationRequested = TRUE]

\* Accepting: a failed gate stays failed, a failed human review is overruled.
canAcceptRevisionEscape(r, l) ==
  LET review == LoopOf[l].review IN
  /\ canResolveRevisionEscape(r, l)
  /\ "human-accepted" \in LoopOf[l].stopConditions
  /\ IF review \in Gates THEN r.status[review] # "succeeded"
     ELSE \/ r.status[review] = "succeeded"
          \/ EdgeOf[LoopOf[l].reviewEdge].reviewer = "human" /\ r.status[review] = "failed"

\* Faulty variant: accepting overrules a failed gate like a failed human review.
acceptOverrulesGate(r, l) ==
  settleBlockedWorkflowNodes(
    [setNodeRun(r, LoopOf[l].review, "succeeded", "none")
       EXCEPT !.loop[l] = loopStopConditionMet(@, "human-accepted"),
              !.activeLoops = @ \ {l}])

acceptRevisionEscape(r, l) ==
  LET review == LoopOf[l].review
      accepted == IF review \in Gates
                  THEN IF r.status[review] \in ActiveStatus
                       THEN setNodeRun(r, review, "failed", "other") ELSE r
                  ELSE setNodeRun(r, review, "succeeded", "none")
  IN settleBlockedWorkflowNodes(
       [accepted EXCEPT !.loop[l] = loopStopConditionMet(@, "human-accepted"),
                        !.activeLoops = @ \ {l}])

-----------------------------------------------------------------------------
(* The runtime as a state machine: one action per persisted mutation. The    *)
(* host runs the mutations of one execution one at a time; a gate is started *)
(* and completed under one lock, so only a crash comes between the two.      *)

Init == rt = createWorkflowExecutionRuntime

NoGateRunning == \A g \in Gates : rt.status[g] # "running"

ReconcileEvidence ==
  /\ NoGateRunning
  /\ rt' = reconcile(rt)

QueueRevisions ==
  /\ NoGateRunning
  /\ canQueueEligibleRevisionAttempts(rt)
  /\ rt' = queueEligibleRevisionAttempts(rt)

UpdateSchedule ==
  /\ NoGateRunning
  /\ rt' = markWaitingForApprovals(settleBlockedWorkflowNodes(rt))

StartNode(n) ==
  /\ NoGateRunning
  /\ canStartWorkflowNode(rt, n)
  /\ rt' = startWorkflowNode(rt, n)

FailNodeBeforeLaunch(n) ==
  /\ NoGateRunning
  /\ canFailWorkflowNodeBeforeLaunch(rt, n)
  /\ rt' = failWorkflowNodeBeforeLaunch(rt, n)

CompleteNode(n, result) ==
  /\ NoGateRunning
  /\ n \notin Gates
  /\ rt.status[n] \in ActiveStatus
  /\ canCompleteWorkflowNode(rt, n, result.status)
  /\ rt' = recordCompletion(rt, n, result)

CompleteGate(g) ==
  /\ rt.status[g] = "running"
  /\ rt' = completeInternalReviewGate(rt, g)

ApproveHumanDecision(t) ==
  /\ NoGateRunning
  /\ awaitingHumanDecision(rt, t)
  /\ rt' = approveWorkflowHumanDecision(rt, t)

RecordHumanReview(e, decision) ==
  /\ NoGateRunning
  /\ canRecordWorkflowHumanReviewDecision(rt, e)
  /\ rt' \in routeHumanReview(recordWorkflowHumanReviewDecision(rt, e, decision), e)

CancelEscape(l) ==
  /\ NoGateRunning
  /\ canResolveRevisionEscape(rt, l)
  /\ rt' = cancelRevisionEscape(rt, l)

AcceptEscape(l) ==
  /\ NoGateRunning
  /\ canAcceptRevisionEscape(rt, l)
  /\ rt' = acceptRevisionEscape(rt, l)

CancelExecution ==
  /\ NoGateRunning
  /\ rt' = cancelWorkflowExecution(rt)

\* A restart of the host; only executions that have not ended are recovered.
RecoverExecution ==
  /\ ~isTerminalRunStatus(rt.runStatus)
  /\ rt' = recoverWorkflowExecution(rt)

\* The eligibleAt time of a waiting loop passes.
BackoffElapses(l) ==
  /\ rt.loop[l].backoff
  /\ rt' = [rt EXCEPT !.loop[l].backoff = FALSE]

Next ==
  \/ ReconcileEvidence
  \/ UpdateSchedule
  \/ \E n \in Nodes : StartNode(n)
  \/ \E n \in Nodes : FailNodeBeforeLaunch(n)
  \/ \E n \in Nodes : \E result \in ExecutorResults(n) : CompleteNode(n, result)
  \/ \E g \in Gates : CompleteGate(g)
  \/ \E t \in ApprovalTargets : ApproveHumanDecision(t)
  \/ \E e \in HumanReviewEdges, d \in {"approved", "changes-requested"} :
       RecordHumanReview(e, d)
  \/ QueueRevisions
  \/ \E l \in Loops : CancelEscape(l) \/ AcceptEscape(l) \/ BackoffElapses(l)
  \/ CancelExecution
  \/ RecoverExecution

Spec == Init /\ [][Next]_rt

-----------------------------------------------------------------------------
(* Properties *)

\* Every operation leaves a value WorkflowExecutionRuntimeSchema accepts: statuses,
\* attempts, evidence and loop counters stay within the persisted schema.
TypeOK == rt \in Runtimes

\* The persisted run status is always the aggregate of the node statuses, after
\* every mutation: storage indexes and the recovery query rely on it.
StoredStatusIsAggregate == rt.runStatus = aggregateWorkflowStatus(rt.status)

\* The nodes recorded as running or being cancelled, whose processes may be alive,
\* never exceed maximumConcurrency, whatever happened between the decision to run
\* a node and its start (activeReservation, fitsReservation).
ConcurrencyWithinLimit == Cardinality(ActiveNodes(rt)) <= MaximumConcurrency

\* No two active nodes hold the same exclusive key: a node asked to stop keeps its
\* keys until its process has ended (activeReservation counts "cancelling").
ExclusiveKeysHeldOnce ==
  \A m, n \in ActiveNodes(rt) : m # n => NodeOf[m].keys \cap NodeOf[n].keys = {}

\* The cpu, memory and other units the active nodes reserved together never exceed
\* the limits of the canvas (fitsReservation adds to what is reserved already).
DemandWithinLimits ==
  \A res \in Resources : DemandOf(ActiveNodes(rt), res) <= Limits[res]

\* What is recorded about edge e, and the check of p for gate g, speak about the
\* current attempts only.
freshEdgeEvidence(r, e) ==
  /\ r.contexts[e] \in {0, r.attempt[EdgeOf[e].target]}
  /\ r.outputs[e] # 0 => /\ EdgeOf[e].type = "output"
                         /\ r.outputs[e] = r.attempt[EdgeOf[e].source]
  /\ r.assessments[e].verdict # "none" =>
       /\ EdgeOf[e].type = "review" /\ ReviewerOf(e) \in Nodes
       /\ r.assessments[e].reviewerAttempt = r.attempt[ReviewerOf(e)]
       /\ r.assessments[e].reviewedAttempt = r.attempt[EdgeOf[e].source]

freshCheck(r, g, p) ==
  r.checks[g][p] # NoCheck =>
    /\ p \in NodeOf[g].checks
    /\ r.checks[g][p].producerAttempt = r.attempt[p]
    /\ r.checks[g][p].reviewedAttempt = r.attempt[reviewedSourceForGate(g)]

freshEvidence(r) ==
  /\ \A e \in Edges : freshEdgeEvidence(r, e)
  /\ \A n \in Nodes : r.artifacts[n] \in {0, r.attempt[n]}
  /\ \A g \in Gates, p \in Tests : freshCheck(r, g, p)

\* No evidence outlives the attempt it was collected for: after a revision
\* requeues some nodes, nothing recorded about their earlier attempts is left,
\* and nothing about other nodes is stale (queueRevisionAttempt's filters).
NoStaleEvidence == freshEvidence(rt)

\* A gate that succeeded did so on evidence that still stands: every required
\* check passed, and the reviewer and the person approved, for the attempt of
\* the reviewed node that is current now.
GateStandsOnCurrentEvidence ==
  \A g \in Gates : rt.status[g] = "succeeded" => reviewGateEvaluation(rt, g) = "passed"

(* The canvases on which a gate that passed keeps standing on its evidence. *)

\* S holds the nodes the evidence of gate g rests on: the node it reviews, its checks
\* and its reviewer, and with a node also the nodes it reviews directly.
basisOf(g, S) ==
  /\ reviewedSourceIdsForGate(g) \subseteq S
  /\ NodeOf[g].checks \subseteq S
  /\ NodeOf[g].reviewerAgent \in S \cup {NoNode}
  /\ \A n \in S : \A e \in DirectReviews(n) : EdgeOf[e].source \in S

\* The nodes the evidence of gate g rests on.
EvidenceNodes(g) == {n \in Nodes : \A S \in SUBSET Nodes : basisOf(g, S) => n \in S}

\* Every node comes after the nodes it reviews directly.
reviewsDescend(rank) ==
  \A n \in Nodes : \A e \in DirectReviews(n) : rank[EdgeOf[e].source] < rank[n]

\* No circle of direct reviews: validateWorkflow rejects every cycle of edges other
\* than revisions (CYCLE).
AcyclicReviews == \E rank \in [Nodes -> Nat] : reviewsDescend(rank)

\* A loop that requeues a node on which a gate rests requeues the gate.
LoopsTakeTheGate ==
  \A g \in Gates : \A l \in Loops :
    RequeuedNodes(l) \cap EvidenceNodes(g) # {} => g \in RequeuedNodes(l)

\* What a person approves at a gate includes every review of the work: the gate has
\* evidence that the work is done, and nobody but its own reviewer assesses it.
ApprovalSeesTheWork ==
  \A g \in Gates : NodeOf[g].humanApproval =>
    /\ \/ NodeOf[g].checks # {} \/ NodeOf[g].reviewerAgent # NoNode
       \/ \E e \in EdgesOfType("review") : EdgeOf[e].target = g
    /\ \A e \in EdgesOfType("review") :
         EdgeOf[e].source \in reviewedSourceIdsForGate(g) =>
           ReviewerOf(e) \in {NoNode, NodeOf[g].reviewerAgent}

\* Work placed behind a gate is never under way unless the gate has passed.
NothingRunsBehindAClosedGate ==
  \A e \in EdgesOfType("execute") :
    /\ EdgeOf[e].trigger = "on-success"
    /\ rt.status[EdgeOf[e].target] \in ActiveStatus
    => /\ EdgeOf[e].source \in Gates => rt.status[EdgeOf[e].source] = "succeeded"
       /\ EdgeOf[e].approval = "review-gate" => rt.status[EdgeOf[e].gate] = "succeeded"

withinAttempts(r, l) ==
  /\ r.loop[l].attemptsStarted <= LoopOf[l].maximumAttempts
  /\ r.attempt[LoopOf[l].implementation] = r.loop[l].attemptsStarted
  /\ r.loop[l].status = "revision-required" =>
       r.loop[l].attemptsStarted < LoopOf[l].maximumAttempts

\* A revision loop never starts more attempts than configured, its counter is the
\* attempt number of the implementation, and exhaustion waits for a person.
LoopIsBounded == \A l \in Loops : withinAttempts(rt, l)

\* A node that ended changes its status only as a new attempt, when a person
\* gives up on a run, or when a person overrules a failed human review.
EndedNodesStayEnded ==
  [][\A n \in Nodes :
       isTerminalRunStatus(rt.status[n]) /\ rt'.status[n] # rt.status[n] =>
         \/ rt'.status[n] = "queued" /\ rt'.attempt[n] = rt.attempt[n] + 1
         \/ /\ rt.status[n] \in {"failed", "lost"} /\ rt'.status[n] = "cancelled"
            /\ \E l \in Loops : /\ rt.loop[l].status = "waiting-human"
                                /\ rt'.loop[l].status = "cancelled"
         \/ /\ rt.status[n] = "failed" /\ rt'.status[n] = "succeeded"
            /\ \E l \in Loops : /\ LoopOf[l].review = n
                                /\ rt.loop[l].status = "waiting-human"
                                /\ rt'.loop[l].stopCondition = "human-accepted"]_rt

\* Once cancellation was requested no node starts any more.
CancelledRunStartsNothing ==
  [][rt.cancellationRequested =>
       \A n \in Nodes : rt'.status[n] = "running" => rt.status[n] = "running"]_rt

\* A node whose start needs a person's approval starts only on an approval of
\* the current attempt of the work it follows.
ApprovalIsForCurrentWork ==
  [][\A e \in EdgesOfType("execute") :
       LET n == EdgeOf[e].target IN
       /\ EdgeOf[e].approval = "human"
       /\ rt.status[n] # "running" /\ rt'.status[n] = "running"
       => \E run \in rt.approvals[e].runs :
            run[1] = EdgeOf[e].source /\ run[2] = rt.attempt[EdgeOf[e].source]]_rt

=============================================================================
