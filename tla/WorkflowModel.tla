--------------------------- MODULE WorkflowModel ---------------------------
(***************************************************************************)
(* The status algebra of a workflow run: the life cycle of one node run,   *)
(* the status of a whole run, the verdict of a review gate and the bounded *)
(* revision loop (packages/core/src/workflow/model.ts and gates.ts).       *)
(* Everything here is a pure operator; the state lives in WorkflowRuntime. *)
(***************************************************************************)
EXTENDS Naturals

RunStatus == {"queued", "running", "waiting-for-approval", "paused", "cancelling",
              "failed", "succeeded", "cancelled", "lost"}

TerminalStatus == {"failed", "succeeded", "cancelled", "lost"}

isTerminalRunStatus(s) == s \in TerminalStatus

\* A node run that no process has been started for yet.
UnstartedStatus == {"queued", "waiting-for-approval"}

\* A node run that owns a process and therefore resources.
ActiveStatus == {"running", "cancelling"}

AllowedTransitions ==
  ({"queued"} \X {"running", "waiting-for-approval", "cancelled"})
  \cup ({"running"} \X {"waiting-for-approval", "paused", "cancelling",
                        "failed", "succeeded", "lost"})
  \cup ({"waiting-for-approval"} \X {"queued", "running", "cancelled"})
  \cup ({"paused"} \X {"running", "cancelled", "lost"})
  \cup ({"cancelling"} \X {"cancelled", "failed", "lost"})
  \cup ({"failed"} \X {"queued"})
  \cup ({"lost"} \X {"queued", "paused"})

canTransitionRun(from, to) == <<from, to>> \in AllowedTransitions

\* The status of a run: live work dominates, terminal precedence only applies
\* once every node is terminal. status is a function on the planned nodes.
aggregateWorkflowStatus(status) ==
  LET some(s) == \E n \in DOMAIN status : status[n] = s IN
  IF DOMAIN status = {} THEN "queued"
  ELSE IF some("cancelling") THEN "cancelling"
  ELSE IF some("running") THEN "running"
  ELSE IF some("waiting-for-approval") THEN "waiting-for-approval"
  ELSE IF some("paused") THEN "paused"
  ELSE IF some("queued") THEN "queued"
  ELSE IF some("lost") THEN "lost"
  ELSE IF some("failed") THEN "failed"
  ELSE IF some("cancelled") THEN "cancelled"
  ELSE "succeeded"

\* What a cancellation request does to one node run.
cancellationStatus(s) ==
  IF isTerminalRunStatus(s) \/ s = "cancelling" THEN s
  ELSE IF s = "running" THEN "cancelling"
  ELSE "cancelled"

-----------------------------------------------------------------------------
(* Review gates *)

GateVerdict == {"pending", "waiting-human", "failed", "passed"}

\* checks: the statuses of the current check results, one per required check,
\* "missing" where there is none. Deterministic evidence is judged first.
deterministicStatus(checks) ==
  IF checks \cap {"failed", "cancelled", "lost"} # {} THEN "failed"
  ELSE IF checks \cap {"missing", "queued", "running"} # {} THEN "pending"
  ELSE "passed"

\* verdict: the current reviewer assessment, "none" when there is none.
reviewerStatus(required, verdict) ==
  IF ~required THEN "not-required"
  ELSE IF verdict = "none" THEN "pending"
  ELSE IF verdict = "changes-requested" THEN "failed"
  ELSE "passed"

evaluateReviewGate(checks, reviewerRequired, verdict, humanRequired, humanApproved) ==
  LET evidence == {deterministicStatus(checks), reviewerStatus(reviewerRequired, verdict)} IN
  IF "failed" \in evidence THEN "failed"
  ELSE IF "pending" \in evidence THEN "pending"
  ELSE IF humanRequired /\ ~humanApproved THEN "waiting-human"
  ELSE "passed"

-----------------------------------------------------------------------------
(* Bounded revision loops *)

LoopStatus == {"review-required", "revision-required", "waiting-human", "satisfied", "cancelled"}

StopCondition == {"review-approved", "tests-passed", "human-accepted"}

UnresolvedLoopStatus == {"review-required", "revision-required", "waiting-human"}

\* backoff is TRUE while the eligibleAt time of the next attempt lies ahead.
LoopStates == [status : LoopStatus, attemptsStarted : Nat, backoff : BOOLEAN,
               stopCondition : StopCondition \cup {"none"}]

createRevisionLoopState ==
  [status |-> "review-required", attemptsStarted |-> 1, backoff |-> FALSE,
   stopCondition |-> "none"]

\* Faulty variant: exhausted one attempt late.
reviewFailedOffByOne(maximumAttempts, state, delayed) ==
  LET exhausted == state.attemptsStarted > maximumAttempts IN
  [state EXCEPT !.status = IF exhausted THEN "waiting-human" ELSE "revision-required",
                !.backoff = ~exhausted /\ delayed]

loopReviewFailed(maximumAttempts, state, delayed) ==
  LET exhausted == state.attemptsStarted >= maximumAttempts IN
  [state EXCEPT !.status = IF exhausted THEN "waiting-human" ELSE "revision-required",
                !.backoff = ~exhausted /\ delayed]

loopRevisionCompleted(maximumAttempts, state) ==
  IF state.attemptsStarted >= maximumAttempts
  THEN [state EXCEPT !.status = "waiting-human"]
  ELSE [state EXCEPT !.status = "review-required", !.backoff = FALSE,
                     !.attemptsStarted = state.attemptsStarted + 1]

loopStopConditionMet(state, condition) ==
  [state EXCEPT !.status = "satisfied", !.backoff = FALSE, !.stopCondition = condition]

loopHumanAborted(state) == [state EXCEPT !.status = "cancelled", !.backoff = FALSE]
=============================================================================
