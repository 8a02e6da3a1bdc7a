---------------------------- MODULE MCHumanReview ----------------------------
(***************************************************************************)
(* Decisions of a person: brief is attached to impl as context, a person   *)
(* reviews the diff of impl at the node look (two attempts), and approves  *)
(* the steps to publish and to notes, which follows any outcome of impl.   *)
(***************************************************************************)
EXTENDS WorkflowRuntime

node(type) == [type |-> type, checks |-> {}, reviewerAgent |-> "none", humanApproval |-> FALSE,
               backoff |-> FALSE, demand |-> [res \in Resources |-> 1], keys |-> {}]

MCNodes == {"impl", "look", "publish", "notes"}
MCNodeOf == [impl |-> node("agent"), look |-> node("diff-review"), publish |-> node("agent"),
             notes |-> node("task")]

MCEdges == {"brief", "review", "go", "always"}
MCEdgeOf ==
  [brief |-> [type |-> "context", target |-> "impl", attachments |-> TRUE, required |-> TRUE],
   review |-> [type |-> "review", source |-> "impl", target |-> "look", reviewer |-> "human",
               requireApproval |-> TRUE],
   go |-> [type |-> "execute", source |-> "look", target |-> "publish", trigger |-> "on-success",
           approval |-> "human"],
   always |-> [type |-> "execute", source |-> "impl", target |-> "notes",
               trigger |-> "on-completion", approval |-> "human"]]

MCLoops == {"loop"}
MCLoopOf ==
  [loop |-> [implementation |-> "impl", review |-> "look", reviewEdge |-> "review",
             maximumAttempts |-> 2, stopConditions |-> {"review-approved", "human-accepted"}]]

MCOrder == <<"impl", "look", "notes", "publish">>
MCLimits == [res \in Resources |-> 2]

\* This canvas is one on which gates keep standing on their evidence.
ASSUME GatesStandHere ==
  /\ reviewsDescend([n \in Nodes |-> CHOOSE i \in DOMAIN Order : Order[i] = n])
  /\ LoopsTakeTheGate
  /\ ApprovalSeesTheWork
=============================================================================
