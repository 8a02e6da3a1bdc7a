----------------------------- MODULE MCGateLoop -----------------------------
(***************************************************************************)
(* A revision loop around a review gate: impl produces a diff that the test*)
(* node checks and the agent rv reviews; the gate needs both and a person. *)
(* A failed gate sends impl back once; ship runs after the gate passed.    *)
(***************************************************************************)
EXTENDS WorkflowRuntime

node(type) == [type |-> type, checks |-> {}, reviewerAgent |-> "none", humanApproval |-> FALSE,
               backoff |-> FALSE, demand |-> [res \in Resources |-> 1], keys |-> {}]

MCNodes == {"impl", "test", "rv", "gate", "ship"}
MCNodeOf ==
  [n \in MCNodes |->
     CASE n = "test" -> node("test")
       [] n = "gate" -> [node("review-gate") EXCEPT !.checks = {"test"}, !.reviewerAgent = "rv",
                                                    !.humanApproval = TRUE, !.backoff = TRUE]
       [] OTHER -> node("agent")]

MCEdges == {"diff", "review", "go"}
MCEdgeOf ==
  [diff |-> [type |-> "output", source |-> "impl", target |-> "test", required |-> TRUE],
   review |-> [type |-> "review", source |-> "impl", target |-> "gate", reviewer |-> "gate",
               requireApproval |-> TRUE],
   go |-> [type |-> "execute", source |-> "gate", target |-> "ship", trigger |-> "on-success",
           approval |-> "none"]]

MCLoops == {"loop"}
MCLoopOf ==
  [loop |-> [implementation |-> "impl", review |-> "gate", reviewEdge |-> "review",
             maximumAttempts |-> 2, stopConditions |-> {"review-approved", "human-accepted"}]]

MCOrder == <<"impl", "test", "rv", "gate", "ship">>
MCLimits == [res \in Resources |-> 2]

\* This canvas is one on which gates keep standing on their evidence.
ASSUME GatesStandHere ==
  /\ reviewsDescend([n \in Nodes |-> CHOOSE i \in DOMAIN Order : Order[i] = n])
  /\ LoopsTakeTheGate
  /\ ApprovalSeesTheWork
=============================================================================
