---------------------------- MODULE MCContention ----------------------------
(***************************************************************************)
(* Parallel work under tight limits: build and tidy hold the same exclusive*)
(* key; critic reviews build directly; check tests the output of build for *)
(* the gate that guards deploy, which also waits for critic. Each limit is *)
(* the tight one somewhere: tidy, big, critic and check would fit together *)
(* but for the concurrency, tidy and deploy but for the memory, and big and*)
(* deploy with anything else but for the cpu.                              *)
(***************************************************************************)
EXTENDS WorkflowRuntime

node(type) == [type |-> type, checks |-> {}, reviewerAgent |-> "none", humanApproval |-> FALSE,
               backoff |-> FALSE, demand |-> [cpuUnits |-> 1, memoryMb |-> 2], keys |-> {}]

MCNodes == {"build", "tidy", "big", "critic", "check", "gate", "deploy"}
MCNodeOf ==
  [n \in MCNodes |->
     CASE n \in {"build", "tidy"} -> [node("agent") EXCEPT !.keys = {"worktree"}]
       [] n = "big" -> [node("task") EXCEPT !.demand = [cpuUnits |-> 2, memoryMb |-> 1]]
       [] n = "check" -> [node("test") EXCEPT !.demand = [cpuUnits |-> 1, memoryMb |-> 1]]
       [] n = "gate" -> [node("review-gate") EXCEPT !.checks = {"check"}]
       [] n = "deploy" -> [node("agent") EXCEPT !.demand = [cpuUnits |-> 3, memoryMb |-> 5]]
       [] OTHER -> node("agent")]

MCEdges == {"diff", "critique", "then", "tested", "guarded"}
MCEdgeOf ==
  [diff |-> [type |-> "output", source |-> "build", target |-> "check", required |-> TRUE],
   critique |-> [type |-> "review", source |-> "build", target |-> "critic", reviewer |-> "agent",
                 requireApproval |-> TRUE],
   then |-> [type |-> "dependency", source |-> "critic", target |-> "deploy"],
   tested |-> [type |-> "review", source |-> "build", target |-> "gate", reviewer |-> "gate",
               requireApproval |-> FALSE],
   guarded |-> [type |-> "execute", source |-> "build", target |-> "deploy",
                trigger |-> "on-success", approval |-> "review-gate", gate |-> "gate"]]

MCLoops == {}
MCLoopOf == [l \in {} |-> l]
MCOrder == <<"build", "tidy", "big", "critic", "check", "gate", "deploy">>
MCLimits == [cpuUnits |-> 5, memoryMb |-> 6]

\* This canvas is one on which gates keep standing on their evidence.
ASSUME GatesStandHere ==
  /\ reviewsDescend([n \in Nodes |-> CHOOSE i \in DOMAIN Order : Order[i] = n])
  /\ LoopsTakeTheGate
  /\ ApprovalSeesTheWork
=============================================================================
