----------------------------- MODULE MCHostLoop -----------------------------
(***************************************************************************)
(* The host on a small revision loop: impl is tested by check, the gate    *)
(* sends it back once when the check fails, ship follows the gate.         *)
(***************************************************************************)
EXTENDS WorkflowHost

node(type) == [type |-> type, checks |-> {}, reviewerAgent |-> "none", humanApproval |-> FALSE,
               backoff |-> FALSE, demand |-> [res \in Resources |-> 1], keys |-> {}]

MCNodes == {"impl", "check", "gate", "ship"}
MCNodeOf ==
  [impl |-> node("agent"), check |-> node("test"), ship |-> node("agent"),
   gate |-> [node("review-gate") EXCEPT !.checks = {"check"}, !.backoff = TRUE]]

MCEdges == {"diff", "review", "go"}
MCEdgeOf ==
  [diff |-> [type |-> "output", source |-> "impl", target |-> "check", required |-> TRUE],
   review |-> [type |-> "review", source |-> "impl", target |-> "gate", reviewer |-> "gate",
               requireApproval |-> FALSE],
   go |-> [type |-> "execute", source |-> "gate", target |-> "ship", trigger |-> "on-success",
           approval |-> "none"]]

MCLoops == {"loop"}
MCLoopOf ==
  [loop |-> [implementation |-> "impl", review |-> "gate", reviewEdge |-> "review",
             maximumAttempts |-> 2, stopConditions |-> {"tests-passed", "human-accepted"}]]

MCOrder == <<"impl", "check", "gate", "ship">>
MCLimits == [res \in Resources |-> 2]
=============================================================================
