---------------------------- MODULE MCHostEscape ----------------------------
(***************************************************************************)
(* The host and a person: a diff review with a single attempt, a step that *)
(* needs an approval, and an independent agent beside them that holds the  *)
(* same exclusive key as that step and is ready before it.                *)
(***************************************************************************)
EXTENDS WorkflowHost

node(type) == [type |-> type, checks |-> {}, reviewerAgent |-> "none", humanApproval |-> FALSE,
               backoff |-> FALSE, demand |-> [res \in Resources |-> 1], keys |-> {}]

MCNodes == {"impl", "look", "publish", "side"}
exclusive(n) == [n EXCEPT !.keys = {"worktree"}]
MCNodeOf ==
  [impl |-> node("agent"), look |-> node("diff-review"), publish |-> exclusive(node("agent")),
   side |-> exclusive(node("agent"))]

MCEdges == {"review", "go"}
MCEdgeOf ==
  [review |-> [type |-> "review", source |-> "impl", target |-> "look", reviewer |-> "human",
               requireApproval |-> TRUE],
   go |-> [type |-> "execute", source |-> "look", target |-> "publish", trigger |-> "on-success",
           approval |-> "human"]]

MCLoops == {"loop"}
MCLoopOf ==
  [loop |-> [implementation |-> "impl", review |-> "look", reviewEdge |-> "review",
             maximumAttempts |-> 1, stopConditions |-> {"review-approved", "human-accepted"}]]

MCOrder == <<"impl", "look", "publish", "side">>
MCLimits == [res \in Resources |-> 2]
=============================================================================
