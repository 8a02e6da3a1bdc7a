----------------------------- MODULE MCAgentRuns -----------------------------
EXTENDS AgentRuns, TLC
\* The runs that are not part of the history are alike, and so are the owners.
Alike == Permutations(Runs \ History) \cup Permutations(Owners)
\* States that differ only in what no step and no property looks at again count as
\* one.  How a run ended matters only to a run that resumes it, or may still do so (a
\* retry is possible only where a launch is, and takes the same steps), and to the
\* write that records it, which may be refused once; of a run that is over only an
\* orphaned process still has a worktree; a generation is compared only before and at
\* the launch; and the changes in a worktree that is gone went with it.
Resumable(r) == \E s \in Runs : op[s] = "idle" \/ (op[s] # "over" /\ plan[s].parent = r)
Status(r) == IF store[r].status \notin Terminal THEN store[r].status
             ELSE IF store[r].status = "interrupted" /\ Resumable(r) THEN "interrupted" ELSE "ended"
Record(r) == IF store[r] = NoRecord THEN NoRecord ELSE [store[r] EXCEPT !.status = Status(r)]
Exit(r) == IF \/ session[r] \in {"succeeded", "terminated"}
              \/ session[r] = "interrupted" /\ ~Resumable(r)
              \/ session[r] = "failed" /\ ~Undisturbed THEN "ended" ELSE session[r]
Plan(r) == IF op[r] # "over" THEN plan[r]
           ELSE IF session[r] = "orphan" THEN [worktree |-> Target(r)] ELSE NoPlan
Compared == {"preparing", "targeted", "pending", "launching", "authorized", "spawned"}
Seen == <<[r \in Runs |-> <<op[r], Record(r), Plan(r), Exit(r)>>], active,
          {r \in stale : op[r] \in Compared},
          [r \in Runs |-> <<worktree[r], changed[r] /\ worktree[r] # "gone">>], control, bounds>>
=============================================================================
