----------------------------- MODULE MCHostLine -----------------------------
(***************************************************************************)
(* A plain pipeline without a loop, for liveness: impl, its exact check, the*)
(* gate over the check and the agent behind the gate.                      *)
(***************************************************************************)
EXTENDS WorkflowHost

node(type) == [type |-> type, checks |-> {}, reviewerAgent |-> "none", humanApproval |-> FALSE,
               backoff |-> FALSE, demand |-> [res \in Resources |-> 1], keys |-> {}]

MCNodes == {"impl", "check", "gate", "ship"}
MCNodeOf ==
  [impl |-> node("agent"), check |-> node("test"), ship |-> node("agent"),
   gate |-> [node("review-gate") EXCEPT !.checks = {"check"}]]

MCEdges == {"diff", "review", "checked", "go"}
MCEdgeOf ==
  [diff |-> [type |-> "output", source |-> "impl", target |-> "check", required |-> TRUE],
   review |-> [type |-> "review", source |-> "impl", target |-> "gate", reviewer |-> "gate",
               requireApproval |-> FALSE],
   checked |-> [type |-> "dependency", source |-> "check", target |-> "gate"],
   go |-> [type |-> "execute", source |-> "gate", target |-> "ship", trigger |-> "on-success",
           approval |-> "none"]]

MCLoops == {}
MCLoopOf == [l \in {} |-> l]
MCOrder == <<"impl", "check", "gate", "ship">>
MCLimits == [res \in Resources |-> 2]
=============================================================================
