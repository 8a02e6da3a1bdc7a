---------------------------- MODULE AtomicReplace ----------------------------
(***************************************************************************)
(* What the recovery of the local database promises: the database that a   *)
(* process opens is either the one that was there or the whole backup the  *)
(* user chose, and the change from one to the other is one step.  A        *)
(* database that was lost is never silently replaced by an empty one.      *)
(***************************************************************************)
VARIABLES value,   \* the database the user owns: see Values
          view     \* what the open store shows, "closed" when none is open

replaceVars == <<value, view>>

\* "none": no database was ever initialised; "lost": it was, and its file is gone;
\* "old": the bytes found at the first start; "new": the restored backup;
\* "own": a database that this program has written since.
Values == {"none", "lost", "old", "new", "own"}

Init == value \in {"none", "lost", "old"} /\ view = "closed"

\* A verified backup replaces a database that could not be opened.
Replace == /\ view = "closed" /\ value \in {"lost", "old"}
           /\ value' = "new" /\ UNCHANGED view

\* The first start of a new installation creates the database, open or not.
Create == /\ view = "closed" /\ value = "none"
          /\ value' = "own" /\ view' \in {"own", "closed"}

Open == /\ view = "closed" /\ value \in {"old", "new", "own"}
        /\ view' = value /\ UNCHANGED value

Write == view # "closed" /\ value' = "own" /\ view' = "own"

Close == view # "closed" /\ view' = "closed" /\ UNCHANGED value

Next == Replace \/ Create \/ Open \/ Write \/ Close

Spec == Init /\ [][Next]_replaceVars
=============================================================================
