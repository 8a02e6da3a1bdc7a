------------------------ MODULE CollaborationProofs ------------------------
(***************************************************************************)
(* What the delivery of comments promises, for any number of comments,     *)
(* deliveries, sessions and faults: the types and limits of the session    *)
(* and the ledger, that no running session forgets a delivery, that what   *)
(* is called acknowledged is in the server's store, that a settlement is   *)
(* final, and that no accepted comment is lost.                            *)
(*                                                                         *)
(* All of it rests on one relation between the session, the ledger and the *)
(* settlements retained in memory (Consistent): a delivery that waits for  *)
(* its answer, or whose settlement waits for the database, is still "sent" *)
(* in the ledger, and the state it confirms covers its row.                *)
(***************************************************************************)
EXTENDS CollaborationDelivery, FiniteSetTheorems, WellFoundedInduction, TLAPS

-----------------------------------------------------------------------------
(* Least and greatest numbers *)

Below == {p \in Nat \X Nat : p[1] < p[2]}

\* The library's theorem, without its operator parameter.
LEMMA BelowWellFounded == IsWellFoundedOn(Below, Nat)
  BY NatLessThanWellFounded DEF OpToRel, Below

\* A set of natural numbers has a least element.
LEMMA LeastNatural ==
  ASSUME NEW S \in SUBSET Nat, S # {}
  PROVE  Min(S) \in S /\ \A y \in S : Min(S) <= y
<1>1. \E x \in S : \A y \in S : <<y, x>> \notin Below
  BY BelowWellFounded, WFMin
<1>2. ASSUME NEW x \in Nat, NEW y \in Nat, y < x PROVE <<y, x>> \in Below
  <2>1. <<y, x>>[1] < <<y, x>>[2]
    BY <1>2
  <2>2. QED
    BY <2>1 DEF Below
<1>3. PICK x \in S : \A y \in S : <<y, x>> \notin Below
  BY <1>1
<1>4. ASSUME NEW y \in S PROVE x <= y
  <2>1. x \in Nat /\ y \in Nat
    OBVIOUS
  <2>2. ~(y < x)
    BY <1>2, <1>3, <2>1
  <2>3. QED
    BY <2>1, <2>2
<1>5. \E z \in S : \A y \in S : z <= y
  BY <1>4
<1>6. QED
  BY <1>5 DEF Min

\* A bounded set of natural numbers has a greatest element.
LEMMA GreatestNatural ==
  ASSUME NEW n \in Nat, NEW S \in SUBSET (0..n), S # {}
  PROVE  Max(S) \in S /\ \A y \in S : Max(S) >= y
<1> DEFINE B == {k \in Nat : \A y \in S : y <= k}
           m == Min(B)
<1>1. m \in B /\ \A k \in B : m <= k
  <2>1. n \in B /\ B \in SUBSET Nat
    OBVIOUS
  <2>2. QED
    BY <2>1, LeastNatural
<1> HIDE DEF m
<1>2. m \in S
  <2>1. SUFFICES ASSUME m \notin S PROVE FALSE
    OBVIOUS
  <2>2. \A y \in S : y <= m - 1
    BY <1>1, <2>1
  <2>3. PICK y \in S : TRUE
    OBVIOUS
  <2>4. m - 1 \in Nat
    BY <1>1, <2>2, <2>3
  <2>5. QED
    BY <1>1, <2>2, <2>4
<1>3. \E x \in S : \A y \in S : x >= y
  BY <1>1, <1>2
<1>4. QED
  BY <1>3 DEF Max

-----------------------------------------------------------------------------
(* Partial functions on delivery numbers *)

Deliveries == Nat

\* The functions on some delivery numbers with values in V.
Partial(V) == UNION {[D -> V] : D \in SUBSET Nat}

\* What it is to be one.
LEMMA PartialFunctions ==
  ASSUME NEW V, NEW f
  PROVE  f \in Partial(V) <=> /\ f = [i \in DOMAIN f |-> f[i]] /\ DOMAIN f \subseteq Nat
                              /\ \A i \in DOMAIN f : f[i] \in V
<1>1. ASSUME f \in Partial(V)
      PROVE  /\ f = [i \in DOMAIN f |-> f[i]] /\ DOMAIN f \subseteq Nat
             /\ \A i \in DOMAIN f : f[i] \in V
  <2>1. PICK D \in SUBSET Nat : f \in [D -> V]
    BY <1>1 DEF Partial
  <2>2. QED
    BY <2>1
<1>2. ASSUME f = [i \in DOMAIN f |-> f[i]], DOMAIN f \subseteq Nat, \A i \in DOMAIN f : f[i] \in V
      PROVE  f \in Partial(V)
  <2>1. f \in [DOMAIN f -> V]
    BY <1>2
  <2>2. QED
    BY <1>2, <2>1 DEF Partial
<1>3. QED
  BY <1>1, <1>2

\* The empty function is one.
LEMMA NoEntry ==
  ASSUME NEW V
  PROVE  <<>> \in Partial(V) /\ DOMAIN <<>> = {}
<1>1. DOMAIN <<>> = {} /\ <<>> \in [{} -> V]
  OBVIOUS
<1>2. QED
  BY <1>1 DEF Partial

\* Adding an entry, or replacing it.
LEMMA WithEntry ==
  ASSUME NEW V, NEW f \in Partial(V), NEW id \in Deliveries, NEW v \in V
  PROVE  /\ with(f, id, v) \in Partial(V) /\ DOMAIN with(f, id, v) = DOMAIN f \cup {id}
         /\ with(f, id, v)[id] = v /\ \A i \in DOMAIN f \ {id} : with(f, id, v)[i] = f[i]
<1>1. DOMAIN f \subseteq Nat /\ \A i \in DOMAIN f : f[i] \in V
  BY PartialFunctions
<1>2. /\ DOMAIN with(f, id, v) = DOMAIN f \cup {id} /\ with(f, id, v)[id] = v
      /\ \A i \in DOMAIN f \ {id} : with(f, id, v)[i] = f[i]
  BY DEF with
<1>3. with(f, id, v) \in [DOMAIN f \cup {id} -> V]
  BY <1>1 DEF with
<1>4. QED
  BY <1>1, <1>2, <1>3 DEF Partial, Deliveries

\* Dropping an entry.
LEMMA WithoutEntry ==
  ASSUME NEW V, NEW f \in Partial(V), NEW id
  PROVE  /\ without(f, id) \in Partial(V) /\ DOMAIN without(f, id) = DOMAIN f \ {id}
         /\ \A i \in DOMAIN f \ {id} : without(f, id)[i] = f[i]
<1>1. DOMAIN f \subseteq Nat /\ \A i \in DOMAIN f : f[i] \in V
  BY PartialFunctions
<1>2. without(f, id) \in [DOMAIN f \ {id} -> V]
  BY <1>1 DEF without
<1>3. QED
  BY <1>1, <1>2 DEF without, Partial

-----------------------------------------------------------------------------
(* The ledger, and the recovery state projected from it *)

Verdicts == {"acknowledged", "rejected"}
Snapshots == SUBSET Comments
Rows == [baseline : SUBSET Comments, candidate : SUBSET Comments, disposition : Dispositions]
Databases == [rows : Partial(Rows), kept : BOOLEAN, snapshot : SUBSET Comments,
              dismissals : SUBSET (Own \X Nat)]

\* A database and its rows, one by one.
LEMMA DatabaseRows ==
  ASSUME NEW d \in Databases
  PROVE  /\ d.rows \in Partial(Rows) /\ DOMAIN d.rows \subseteq Nat /\ d.snapshot \subseteq Comments
         /\ d.dismissals \subseteq Own \X Nat
         /\ \A i \in DOMAIN d.rows : /\ d.rows[i] \in Rows /\ d.rows[i].baseline \subseteq Comments
                                     /\ d.rows[i].candidate \subseteq Comments
                                     /\ d.rows[i].disposition \in Dispositions
<1>1. d.rows \in Partial(Rows) /\ d.snapshot \subseteq Comments /\ d.dismissals \subseteq Own \X Nat
  BY DEF Databases
<1>2. DOMAIN d.rows \subseteq Nat /\ \A i \in DOMAIN d.rows : d.rows[i] \in Rows
  BY <1>1, PartialFunctions
<1>3. QED
  BY <1>1, <1>2 DEF Rows

\* The recovery state of a database speaks of comments only.
LEMMA RecoveryTypes ==
  ASSUME NEW n \in Nat, NEW d \in Databases, DOMAIN d.rows \subseteq 1..n
  PROVE  /\ recoverCollaborationSyncState(d).baseline \subseteq Comments
         /\ recoverCollaborationSyncState(d).pending \subseteq Comments
         /\ effectiveCollaborationSyncPending(d) \subseteq Comments
<1>1. \A D \in SUBSET (DOMAIN d.rows) : D # {} => Max(D) \in D /\ Min(D) \in D
  <2>1. ASSUME NEW D \in SUBSET (DOMAIN d.rows), D # {} PROVE Max(D) \in D /\ Min(D) \in D
    <3>1. D \in SUBSET (0..n) /\ D \in SUBSET Nat
      OBVIOUS
    <3>2. QED
      BY <2>1, <3>1, LeastNatural, GreatestNatural
  <2>2. QED
    BY <2>1
<1>2. Settled(d, "acknowledged") \in SUBSET (DOMAIN d.rows)
  BY DEF Settled
<1>3. CASE DOMAIN d.rows # {}
  <2>1. Max(DOMAIN d.rows) \in DOMAIN d.rows /\ Min(DOMAIN d.rows) \in DOMAIN d.rows
    BY <1>1, <1>3
  <2>2. Settled(d, "acknowledged") # {} => Max(Settled(d, "acknowledged")) \in DOMAIN d.rows
    BY <1>1, <1>2
  <2>3. recoverCollaborationSyncState(d) = projectDeliveryLedger(d)
    BY <1>3 DEF recoverCollaborationSyncState
  <2>4. /\ projectDeliveryLedger(d).baseline \subseteq Comments
        /\ projectDeliveryLedger(d).pending \subseteq Comments
    BY <2>1, <2>2, DatabaseRows DEF projectDeliveryLedger
  <2>5. QED
    BY <2>3, <2>4 DEF effectiveCollaborationSyncPending
<1>4. CASE DOMAIN d.rows = {}
  <2>1. /\ recoverCollaborationSyncState(d).baseline = d.snapshot
        /\ recoverCollaborationSyncState(d).pending = d.snapshot
    BY <1>4 DEF recoverCollaborationSyncState
  <2>2. QED
    BY <2>1, DatabaseRows DEF effectiveCollaborationSyncPending
<1>5. QED
  BY <1>3, <1>4

\* What is quarantined is an own comment with the number of a rejected delivery.
LEMMA QuarantineTypes ==
  ASSUME NEW n \in Nat, NEW d \in Databases, DOMAIN d.rows \subseteq 1..n
  PROVE  activeRejected(d) \subseteq Own \X Nat /\ commentsOf(activeRejected(d)) \subseteq Own
<1>1. ASSUME NEW e \in recoverRejectedCommentEntries(d) PROVE e \in Own \X Nat
  <2>1. PICK c \in Own, S \in SUBSET Settled(d, "rejected") : S # {} /\ e = <<c, Max(S)>>
    BY <1>1 DEF recoverRejectedCommentEntries
  <2>2. S \in SUBSET (0..n)
    BY <2>1 DEF Settled
  <2>3. \E k \in S : k = Max(S)
    BY <2>1, <2>2, GreatestNatural
  <2>4. Max(S) \in Nat
    <3>1. PICK k \in S : k = Max(S)
      BY <2>3
    <3>2. k \in Nat
      BY <2>2
    <3>3. QED
      BY <3>1, <3>2
  <2>5. QED
    BY <2>1, <2>4
<1>2. activeRejected(d) \subseteq Own \X Nat
  BY <1>1 DEF activeRejected
<1>3. QED
  BY <1>2 DEF commentsOf

-----------------------------------------------------------------------------
(* The invariant *)

Over == {"none", "error"}
Statuses == Over \cup {"connecting", "connected", "reconnecting", "offline"}
Waiting == [vector : SUBSET Comments, timer : BOOLEAN]
Retained == Partial(Verdicts)
Sessions == [status : Statuses, synced : BOOLEAN, joining : BOOLEAN, hasConnected : BOOLEAN,
             doc : SUBSET Comments, pending : Partial(Waiting), from : Nat]

\* The row i of the ledger: it is acknowledged only when its comments are stored; while
\* the session waits for its answer, or its settlement for the database, it is "sent";
\* and the running session of a delivery that is "sent" knows of it.
RowOK(c, d, e, stored, i) ==
  /\ d.rows[i].disposition = "acknowledged" => d.rows[i].candidate \subseteq stored
  /\ i \in DOMAIN c.pending => /\ d.rows[i].disposition = "sent"
                               /\ d.rows[i].candidate \subseteq c.pending[i].vector
  /\ i \in DOMAIN e => /\ d.rows[i].disposition = "sent"
                       /\ e[i] = "acknowledged" => d.rows[i].candidate \subseteq stored
  /\ d.rows[i].disposition = "sent" /\ i > c.from /\ c.status \notin Over =>
       i \in DOMAIN c.pending \cup DOMAIN e

\* The session c, the ledger of d and the retained settlements e agree, with n
\* deliveries so far and the comments of stored in the server's database.
Consistent(c, d, e, stored, n) ==
  /\ c \in Sessions /\ d \in Databases /\ e \in Retained /\ n \in Nat
  /\ DOMAIN c.pending \subseteq 1..n /\ DOMAIN d.rows \subseteq 1..n /\ DOMAIN e \subseteq 1..n
  /\ c.from <= n
  /\ Cardinality(DOMAIN c.pending) <= MaxPending /\ Cardinality(DOMAIN d.rows) <= MaxRows
  /\ DOMAIN c.pending \cap DOMAIN e = {}
  /\ c.status \in Over => DOMAIN c.pending = {} /\ ~c.joining
  /\ \A i \in DOMAIN d.rows : RowOK(c, d, e, stored, i)

\* What travels on the websocket: comments, and acknowledgements of what is stored.
honest(m, stored) ==
  /\ m.type \in {"sync", "update"} => m.ops \subseteq Comments
  /\ m.type = "acknowledged" => m.vector \subseteq stored
queue(q, stored) == \E S : q \in Seq(S) /\ \A m \in S : honest(m, stored)
Linked(l, stored) ==
  /\ l = [up |-> l.up, toServer |-> l.toServer, toClient |-> l.toClient] /\ l.up \in BOOLEAN
  /\ queue(l.toServer, {}) /\ queue(l.toClient, stored)

ServerOK ==
  /\ server \in [doc : SUBSET Comments, stored : SUBSET Comments, member : BOOLEAN]
  /\ server.stored \subseteq server.doc

DeliveryInv ==
  /\ Consistent(client, db, early, server.stored, ids)
  /\ ServerOK /\ Linked(link, server.stored) /\ peer \subseteq Foreign
  /\ link.up => client.status \notin Over

-----------------------------------------------------------------------------
(* Steps of the session *)

\* The session q has the deliveries of c.
Keeps(c, q) ==
  /\ q \in Sessions /\ q.from = c.from /\ DOMAIN q.pending = DOMAIN c.pending
  /\ \A i \in DOMAIN c.pending : q.pending[i].vector = c.pending[i].vector
  /\ q.status \in Over <=> c.status \in Over
  /\ q.joining => c.joining

\* A session that keeps its deliveries stays consistent.
LEMMA KeepsConsistent ==
  ASSUME NEW c, NEW q, NEW d, NEW e, NEW stored, NEW n,
         Consistent(c, d, e, stored, n), Keeps(c, q)
  PROVE  Consistent(q, d, e, stored, n)
<1>1. ASSUME NEW i \in DOMAIN d.rows PROVE RowOK(q, d, e, stored, i)
  BY DEF Consistent, Keeps, RowOK
<1>2. QED
  BY <1>1 DEF Consistent, Keeps

\* So does one that starts or ends, which waits for nothing.
LEMMA FreshConsistent ==
  ASSUME NEW c, NEW q \in Sessions, NEW d, NEW e, NEW stored, NEW n,
         Consistent(c, d, e, stored, n), DOMAIN q.pending = {}, q.from <= n,
         q.status \in Over \/ q.from = n, q.status \in Over => ~q.joining
  PROVE  Consistent(q, d, e, stored, n)
<1>1. Cardinality(DOMAIN q.pending) <= MaxPending
  BY FS_EmptySet, DeliveryAssumption
<1>2. ASSUME NEW i \in DOMAIN d.rows PROVE RowOK(q, d, e, stored, i)
  <2>1. i \in 1..n /\ q.from \in Nat /\ n \in Nat
    BY DEF Consistent, Sessions
  <2>2. ~(i > q.from /\ q.status \notin Over)
    BY <2>1
  <2>3. QED
    BY <2>2 DEF Consistent, RowOK
<1>3. QED
  BY <1>1, <1>2 DEF Consistent

\* Settlements in memory may be lost with the session that retained them.
LEMMA ForgottenConsistent ==
  ASSUME NEW c, NEW d, NEW e, NEW stored, NEW n,
         Consistent(c, d, e, stored, n), c.status \in Over
  PROVE  Consistent(c, d, <<>>, stored, n)
<1>1. <<>> \in Retained /\ DOMAIN <<>> = {}
  BY NoEntry DEF Retained
<1> DEFINE none == <<>>
<1> HIDE DEF none
<1>2. none \in Retained /\ DOMAIN none = {}
  BY <1>1 DEF none
<1>3. ASSUME NEW i \in DOMAIN d.rows PROVE RowOK(c, d, none, stored, i)
  BY <1>2 DEF Consistent, RowOK
<1>4. Consistent(c, d, none, stored, n)
  BY <1>2, <1>3 DEF Consistent
<1>5. QED
  BY <1>4 DEF none

\* The server's database only grows.
LEMMA StoredConsistent ==
  ASSUME NEW c, NEW d, NEW e, NEW stored, NEW more, NEW n,
         Consistent(c, d, e, stored, n), stored \subseteq more
  PROVE  Consistent(c, d, e, more, n)
<1>1. ASSUME NEW i \in DOMAIN d.rows PROVE RowOK(c, d, e, more, i)
  BY DEF Consistent, RowOK
<1>2. QED
  BY <1>1 DEF Consistent

\* A database whose rows are the same, or all gone.
LEMMA LedgerConsistent ==
  ASSUME NEW c, NEW d, NEW q \in Databases, NEW e, NEW stored, NEW n,
         Consistent(c, d, e, stored, n), q.rows = d.rows \/ DOMAIN q.rows = {}
  PROVE  Consistent(c, q, e, stored, n)
<1>1. Cardinality(DOMAIN q.rows) <= MaxRows
  BY FS_EmptySet, LedgerAssumption DEF Consistent
<1>2. ASSUME NEW i \in DOMAIN q.rows PROVE RowOK(c, q, e, stored, i)
  BY <1>2 DEF Consistent, RowOK
<1>3. QED
  BY <1>1, <1>2 DEF Consistent

\* A retained settlement may be forgotten once its row is gone.
LEMMA EmptyLedgerConsistent ==
  ASSUME NEW c, NEW d, NEW e, NEW f \in Retained, NEW stored, NEW n,
         Consistent(c, d, e, stored, n), DOMAIN d.rows = {}, DOMAIN f \subseteq DOMAIN e
  PROVE  Consistent(c, d, f, stored, n)
  BY DEF Consistent

-----------------------------------------------------------------------------
(* Timers, reconnections and disconnections keep the deliveries *)

\* Arming or suspending the timers.
LEMMA TimersKept ==
  ASSUME NEW p \in Partial(Waiting)
  PROVE  /\ armed(p) \in Partial(Waiting) /\ DOMAIN armed(p) = DOMAIN p
         /\ suspended(p) \in Partial(Waiting) /\ DOMAIN suspended(p) = DOMAIN p
         /\ \A i \in DOMAIN p : /\ armed(p)[i].vector = p[i].vector
                                /\ suspended(p)[i].vector = p[i].vector
<1>1. DOMAIN p \subseteq Nat /\ \A i \in DOMAIN p : p[i] \in Waiting
  BY PartialFunctions
<1>2. \A i \in DOMAIN p : /\ [p[i] EXCEPT !.timer = TRUE] \in Waiting
                          /\ [p[i] EXCEPT !.timer = FALSE] \in Waiting
                          /\ [p[i] EXCEPT !.timer = TRUE].vector = p[i].vector
                          /\ [p[i] EXCEPT !.timer = FALSE].vector = p[i].vector
  BY <1>1 DEF Waiting
<1>3. armed(p) \in [DOMAIN p -> Waiting] /\ suspended(p) \in [DOMAIN p -> Waiting]
  BY <1>2 DEF armed, suspended
<1>4. armed(p) \in Partial(Waiting) /\ suspended(p) \in Partial(Waiting)
  BY <1>1, <1>3 DEF Partial
<1>5. QED
  BY <1>2, <1>3, <1>4 DEF armed, suspended

\* One timer only.
LEMMA TimerStopped ==
  ASSUME NEW c \in Sessions, NEW id \in DOMAIN c.pending
  PROVE  Keeps(c, [c EXCEPT !.pending[id].timer = FALSE])
<1> DEFINE p == [c.pending EXCEPT ![id].timer = FALSE]
<1>1. c.pending \in Partial(Waiting)
  BY DEF Sessions
<1>2. DOMAIN c.pending \subseteq Nat /\ \A i \in DOMAIN c.pending : c.pending[i] \in Waiting
  BY <1>1, PartialFunctions
<1>3. /\ [c.pending[id] EXCEPT !.timer = FALSE] \in Waiting
      /\ [c.pending[id] EXCEPT !.timer = FALSE].vector = c.pending[id].vector
  BY <1>2 DEF Waiting
<1>4. p = [i \in DOMAIN c.pending |-> IF i = id THEN [c.pending[id] EXCEPT !.timer = FALSE]
                                                ELSE c.pending[i]]
  BY <1>1, PartialFunctions
<1>5. p \in [DOMAIN c.pending -> Waiting] /\ \A i \in DOMAIN c.pending : p[i].vector = c.pending[i].vector
  BY <1>2, <1>3, <1>4
<1>6. p \in Partial(Waiting) /\ DOMAIN p = DOMAIN c.pending
  BY <1>2, <1>5 DEF Partial
<1>7. [c EXCEPT !.pending[id].timer = FALSE] = [c EXCEPT !.pending = p]
  OBVIOUS
<1> HIDE DEF p
<1>8. Keeps(c, [c EXCEPT !.pending = p])
  BY <1>5, <1>6 DEF Keeps, Sessions
<1>9. QED
  BY <1>7, <1>8

\* The session's own document may grow.
LEMMA DocumentGrows ==
  ASSUME NEW c \in Sessions, NEW ops \in SUBSET Comments, NEW b \in BOOLEAN
  PROVE  /\ Keeps(c, [c EXCEPT !.doc = @ \cup ops])
         /\ Keeps(c, [c EXCEPT !.synced = b, !.doc = @ \cup ops])
  BY DEF Keeps, Sessions

\* A join or a reconnection that completes.
LEMMA CompletedKeeps ==
  ASSUME NEW c \in Sessions, c.status \in Over => ~c.joining
  PROVE  Keeps(c, completed(c))
<1>1. c.pending \in Partial(Waiting)
  BY DEF Sessions
<1> DEFINE p == armed(c.pending)
<1>2. /\ p \in Partial(Waiting) /\ DOMAIN p = DOMAIN c.pending
      /\ \A i \in DOMAIN c.pending : p[i].vector = c.pending[i].vector
  BY <1>1, TimersKept
<1> HIDE DEF p
<1>3. \/ completed(c) = c
      \/ c.joining /\ completed(c) = [c EXCEPT !.status = "connected", !.joining = FALSE, !.hasConnected = TRUE]
      \/ c.status = "reconnecting" /\ completed(c) = [c EXCEPT !.status = "connected"]
      \/ completed(c) = [c EXCEPT !.pending = p]
  BY DEF completed, p
<1>4. Keeps(c, c)
  BY DEF Keeps
<1>5. c.joining => Keeps(c, [c EXCEPT !.status = "connected", !.joining = FALSE, !.hasConnected = TRUE])
  BY DEF Keeps, Sessions, Statuses, Over
<1>6. c.status = "reconnecting" => Keeps(c, [c EXCEPT !.status = "connected"])
  BY DEF Keeps, Sessions, Statuses, Over
<1>7. Keeps(c, [c EXCEPT !.pending = p])
  BY <1>2 DEF Keeps, Sessions
<1>8. QED
  BY <1>3, <1>4, <1>5, <1>6, <1>7

\* A session that has just begun, or is over: nothing is pending.
Idle(q, status, from) ==
  q \in Sessions /\ DOMAIN q.pending = {} /\ q.from = from /\ q.status = status

\* The sessions of the code that are idle.
LEMMA IdleSessions ==
  ASSUME NEW from \in Nat
  PROVE  /\ Idle(NoSession, "none", 0) /\ NoSession.joining = FALSE
         /\ \A q : q = [NoSession EXCEPT !.status = "error", !.from = from] =>
              Idle(q, "error", from) /\ q.joining = FALSE
         /\ \A q : q = [NoSession EXCEPT !.status = "connecting", !.joining = TRUE, !.from = from] =>
              Idle(q, "connecting", from)
<1> DEFINE none == <<>>
<1>1. none \in Partial(Waiting) /\ DOMAIN none = {}
  BY NoEntry
<1>2. NoSession = [status |-> "none", synced |-> FALSE, joining |-> FALSE,
                   hasConnected |-> FALSE, doc |-> {}, pending |-> none, from |-> 0]
  BY DEF NoSession
<1> HIDE DEF none
<1>3. Idle(NoSession, "none", 0) /\ NoSession.joining = FALSE
  BY <1>1, <1>2 DEF Idle, Sessions, Statuses, Over
<1>4. ASSUME NEW q, q = [NoSession EXCEPT !.status = "error", !.from = from]
      PROVE  Idle(q, "error", from) /\ q.joining = FALSE
  <2>1. q = [status |-> "error", synced |-> FALSE, joining |-> FALSE,
             hasConnected |-> FALSE, doc |-> {}, pending |-> none, from |-> from]
    BY <1>2, <1>4
  <2>2. QED
    BY <1>1, <2>1 DEF Idle, Sessions, Statuses, Over
<1>5. ASSUME NEW q, q = [NoSession EXCEPT !.status = "connecting", !.joining = TRUE, !.from = from]
      PROVE  Idle(q, "connecting", from)
  <2>1. q = [status |-> "connecting", synced |-> FALSE, joining |-> TRUE,
             hasConnected |-> FALSE, doc |-> {}, pending |-> none, from |-> from]
    BY <1>2, <1>5
  <2>2. QED
    BY <1>1, <2>1 DEF Idle, Sessions, Statuses, Over
<1>6. QED
  BY <1>3, <1>4, <1>5

\* A lost connection suspends the timers, or ends a session that never connected.
LEMMA DisconnectedKeeps ==
  ASSUME NEW c \in Sessions, c.status \notin Over
  PROVE  Keeps(c, disconnected(c)) \/ disconnected(c) = failed(c)
<1>1. c.pending \in Partial(Waiting)
  BY DEF Sessions
<1> DEFINE p == suspended(c.pending)
<1>2. /\ p \in Partial(Waiting) /\ DOMAIN p = DOMAIN c.pending
      /\ \A i \in DOMAIN c.pending : p[i].vector = c.pending[i].vector
  BY <1>1, TimersKept
<1> HIDE DEF p
<1>3. \/ disconnected(c) = failed(c)
      \/ \E s \in {"reconnecting", "offline"} :
           disconnected(c) = [[c EXCEPT !.synced = FALSE, !.pending = p] EXCEPT !.status = s]
  BY DEF disconnected, p
<1>4. ASSUME NEW s \in {"reconnecting", "offline"}
      PROVE  Keeps(c, [[c EXCEPT !.synced = FALSE, !.pending = p] EXCEPT !.status = s])
  BY <1>2 DEF Keeps, Sessions, Statuses, Over
<1>5. QED
  BY <1>3, <1>4
-----------------------------------------------------------------------------
(* The transactions of the ledger *)

\* Between d and q no delivery came back and no settlement changed, of the first n.
Follows(d, q, n) ==
  \A i \in (1..n) \cap DOMAIN q.rows :
    /\ i \in DOMAIN d.rows
    /\ d.rows[i].disposition # "sent" => q.rows[i].disposition = d.rows[i].disposition

\* Two transactions in a row.
LEMMA FollowsTransitive ==
  ASSUME NEW d, NEW q, NEW s, NEW n, Follows(d, q, n), Follows(q, s, n)
  PROVE  Follows(d, s, n)
  BY DEF Follows

\* A database with other rows.
LEMMA ChangedRows ==
  ASSUME NEW d \in Databases, NEW rows \in Partial(Rows)
  PROVE  /\ [d EXCEPT !.rows = rows] \in Databases /\ [d EXCEPT !.rows = rows].rows = rows
         /\ [d EXCEPT !.rows = rows].dismissals = d.dismissals
  BY DEF Databases

\* One delivery is settled, or nothing happens because its row is gone.
LEMMA SettledRow ==
  ASSUME NEW d \in Databases, NEW id \in Deliveries, NEW disposition \in Verdicts,
         NEW q, q = settleCollaborationSyncDelivery(d, id, disposition)
  PROVE  /\ q \in Databases /\ DOMAIN q.rows = DOMAIN d.rows /\ q.dismissals = d.dismissals
         /\ id \in DOMAIN d.rows => /\ q.rows[id].disposition = disposition
                                    /\ q.rows[id].candidate = d.rows[id].candidate
                                    /\ q.rows[id].baseline = d.rows[id].baseline
         /\ \A i \in DOMAIN d.rows \ {id} : q.rows[i] = d.rows[i]
<1>1. CASE id \notin DOMAIN d.rows
  BY <1>1 DEF settleCollaborationSyncDelivery
<1>2. CASE id \in DOMAIN d.rows
  <2> DEFINE row == [d.rows[id] EXCEPT !.disposition = disposition]
             rows == [i \in DOMAIN d.rows |-> IF i = id THEN row ELSE d.rows[i]]
  <2>1. /\ d.rows \in Partial(Rows) /\ DOMAIN d.rows \subseteq Nat
        /\ \A i \in DOMAIN d.rows : d.rows[i] \in Rows
    BY DatabaseRows
  <2>2. /\ row \in Rows /\ row.disposition = disposition /\ row.candidate = d.rows[id].candidate
        /\ row.baseline = d.rows[id].baseline
    BY <1>2, <2>1 DEF Rows, Dispositions, Verdicts
  <2> HIDE DEF row
  <2>3. rows \in [DOMAIN d.rows -> Rows]
    BY <2>1, <2>2
  <2>4. rows \in Partial(Rows)
    BY <2>1, <2>3 DEF Partial
  <2>5. q = [d EXCEPT !.rows = rows]
    <3>1. d.rows = [i \in DOMAIN d.rows |-> d.rows[i]]
      BY <2>1, PartialFunctions
    <3>2. [d.rows EXCEPT ![id] = row] = rows
      BY <1>2, <3>1
    <3>3. q = [d EXCEPT !.rows = [d.rows EXCEPT ![id] = row]]
      BY <1>2 DEF settleCollaborationSyncDelivery, row
    <3>4. QED
      BY <3>2, <3>3
  <2>6. q \in Databases /\ q.rows = rows /\ q.dismissals = d.dismissals
    BY <2>4, <2>5, ChangedRows
  <2>7. QED
    BY <1>2, <2>2, <2>6
<1>3. QED
  BY <1>1, <1>2

\* The deliveries whose settlement was retained are settled.
LEMMA RetriedRows ==
  ASSUME NEW d \in Databases, early \in Retained, NEW q, q = retried(d)
  PROVE  /\ q \in Databases /\ DOMAIN q.rows = DOMAIN d.rows /\ q.dismissals = d.dismissals
         /\ \A i \in DOMAIN d.rows :
              /\ q.rows[i].candidate = d.rows[i].candidate /\ q.rows[i].baseline = d.rows[i].baseline
              /\ i \in DOMAIN early => q.rows[i].disposition = early[i]
              /\ i \notin DOMAIN early => q.rows[i].disposition = d.rows[i].disposition
<1> DEFINE row(i) == IF i \in DOMAIN early THEN [d.rows[i] EXCEPT !.disposition = early[i]] ELSE d.rows[i]
           rows == [i \in DOMAIN d.rows |-> row(i)]
<1>1. DOMAIN d.rows \subseteq Nat /\ \A i \in DOMAIN d.rows : d.rows[i] \in Rows
  BY DatabaseRows
<1>2. \A i \in DOMAIN early : early[i] \in Verdicts
  BY PartialFunctions DEF Retained
<1>3. ASSUME NEW i \in DOMAIN d.rows
      PROVE  /\ row(i) \in Rows /\ row(i).candidate = d.rows[i].candidate
             /\ row(i).baseline = d.rows[i].baseline
             /\ i \in DOMAIN early => row(i).disposition = early[i]
             /\ i \notin DOMAIN early => row(i).disposition = d.rows[i].disposition
  <2>1. d.rows[i] \in Rows
    BY <1>1
  <2>2. CASE i \in DOMAIN early
    BY <1>2, <2>1, <2>2 DEF Rows, Dispositions, Verdicts
  <2>3. CASE i \notin DOMAIN early
    BY <2>1, <2>3
  <2>4. QED
    BY <2>2, <2>3
<1>4. q = [d EXCEPT !.rows = rows]
  BY DEF retried
<1> HIDE DEF row
<1>5. rows \in [DOMAIN d.rows -> Rows]
  BY <1>3
<1>6. rows \in Partial(Rows)
  BY <1>1, <1>5 DEF Partial
<1>7. q \in Databases /\ q.rows = rows /\ q.dismissals = d.dismissals
  BY <1>4, <1>6, ChangedRows
<1>8. QED
  BY <1>3, <1>7

\* A delivery is staged.
LEMMA StagedRow ==
  ASSUME NEW d \in Databases, NEW id \in Deliveries, NEW baseline \in Snapshots,
         NEW candidate \in Snapshots,
         NEW q, q = stageCollaborationSyncDelivery(d, id, baseline, candidate)
  PROVE  /\ q \in Databases /\ DOMAIN q.rows = DOMAIN d.rows \cup {id} /\ q.dismissals = d.dismissals
         /\ q.rows[id].disposition = "sent" /\ q.rows[id].candidate = candidate
         /\ q.rows[id].baseline = baseline
         /\ \A i \in DOMAIN d.rows \ {id} : q.rows[i] = d.rows[i]
<1> DEFINE row == [baseline |-> baseline, candidate |-> candidate, disposition |-> "sent"]
           rows == [i \in DOMAIN d.rows \cup {id} |-> IF i = id THEN row ELSE d.rows[i]]
<1>1. DOMAIN d.rows \subseteq Nat /\ \A i \in DOMAIN d.rows : d.rows[i] \in Rows
  BY DatabaseRows
<1>2. row \in Rows /\ row.disposition = "sent" /\ row.candidate = candidate /\ row.baseline = baseline
  BY DEF Rows, Dispositions, Snapshots
<1>3. q = [d EXCEPT !.rows = rows]
  BY DEF stageCollaborationSyncDelivery
<1> HIDE DEF row
<1>4. rows \in [DOMAIN d.rows \cup {id} -> Rows]
  BY <1>1, <1>2
<1>5. rows \in Partial(Rows)
  BY <1>1, <1>4 DEF Partial, Deliveries
<1>6. q \in Databases /\ q.rows = rows /\ q.dismissals = d.dismissals
  BY <1>3, <1>5, ChangedRows
<1>7. QED
  BY <1>2, <1>6

\* A checkpoint deletes the rows.
LEMMA CheckpointRows ==
  ASSUME NEW d, NEW snapshot \in SUBSET Comments
  PROVE  /\ checkpointCollaborationSyncState(d, snapshot) \in Databases
         /\ DOMAIN checkpointCollaborationSyncState(d, snapshot).rows = {}
         /\ checkpointCollaborationSyncState(d, snapshot).dismissals = {}
<1> DEFINE none == <<>>
<1>1. none \in Partial(Rows) /\ DOMAIN none = {}
  BY NoEntry
<1>2. checkpointCollaborationSyncState(d, snapshot) =
        [rows |-> none, kept |-> TRUE, snapshot |-> snapshot, dismissals |-> {}]
  BY DEF checkpointCollaborationSyncState
<1> HIDE DEF none
<1>3. QED
  BY <1>1, <1>2 DEF Databases

\* So does the one that follows a dismissal, or it leaves the database as it is.
LEMMA DismissedRows ==
  ASSUME NEW n \in Nat, NEW d \in Databases, DOMAIN d.rows \subseteq 1..n
  PROVE  /\ checkpointDismissed(d) \in Databases
         /\ checkpointDismissed(d) = d \/ DOMAIN checkpointDismissed(d).rows = {}
<1> DEFINE base == recoverCollaborationSyncState(d).baseline
           q == checkpointCollaborationSyncState(d, base)
<1>1. base \in SUBSET Comments
  BY RecoveryTypes
<1> HIDE DEF base
<1>2. q \in Databases /\ DOMAIN q.rows = {}
  BY <1>1, CheckpointRows
<1> HIDE DEF q
<1>3. checkpointDismissed(d) \in {d, q}
  BY DEF checkpointDismissed, q, base
<1>4. QED
  BY <1>2, <1>3

\* A dismissal leaves the rows alone.
LEMMA DiscardRows ==
  ASSUME NEW d \in Databases, NEW entry \in Own \X Nat
  PROVE  /\ discardRejectedCollaborationComment(d, entry) \in Databases
         /\ discardRejectedCollaborationComment(d, entry).rows = d.rows
         /\ discardRejectedCollaborationComment(d, entry).dismissals = d.dismissals \cup {entry}
<1>1. d.dismissals \cup {entry} \in SUBSET (Own \X Nat)
  BY DEF Databases
<1>2. QED
  BY <1>1 DEF Databases, discardRejectedCollaborationComment

-----------------------------------------------------------------------------
(* The transactions keep session and ledger consistent, and settlements final *)

\* A settlement of a delivery that the session waited for, stored or retained.
LEMMA SettlementConsistent ==
  ASSUME NEW c, NEW d, NEW e, NEW stored, NEW n, Consistent(c, d, e, stored, n),
         NEW id \in DOMAIN c.pending, NEW disposition \in Verdicts,
         disposition = "acknowledged" => c.pending[id].vector \subseteq stored,
         NEW f, NEW q,
         \/ q = settleCollaborationSyncDelivery(d, id, disposition) /\ f = without(e, id)
         \/ q = d /\ f = with(e, id, disposition)
  PROVE  /\ Consistent([c EXCEPT !.pending = without(@, id)], q, f, stored, n)
         /\ Follows(d, q, n)
<1> DEFINE p == without(c.pending, id)
           w == [c EXCEPT !.pending = p]
<1>1. /\ c \in Sessions /\ d \in Databases /\ e \in Retained /\ n \in Nat /\ id \in 1..n
      /\ DOMAIN c.pending \subseteq 1..n /\ DOMAIN d.rows \subseteq 1..n /\ DOMAIN e \subseteq 1..n
      /\ DOMAIN c.pending \cap DOMAIN e = {} /\ c.pending \in Partial(Waiting)
  BY DEF Consistent, Sessions
<1>2. /\ p \in Partial(Waiting) /\ DOMAIN p = DOMAIN c.pending \ {id}
      /\ \A i \in DOMAIN c.pending \ {id} : p[i] = c.pending[i]
  <2>1. c.pending \in Partial(Waiting)
    BY <1>1
  <2>2. QED
    BY <2>1, WithoutEntry
<1>3. Cardinality(DOMAIN p) <= MaxPending
  <2>1. IsFiniteSet(1..n)
    BY <1>1, FS_Interval
  <2>2. IsFiniteSet(DOMAIN c.pending)
    BY <1>1, <2>1, FS_Subset
  <2>3. /\ Cardinality(DOMAIN p) <= Cardinality(DOMAIN c.pending)
        /\ Cardinality(DOMAIN p) \in Nat /\ Cardinality(DOMAIN c.pending) \in Nat
    BY <1>2, <2>2, FS_Subset, FS_CardinalityType
  <2>4. Cardinality(DOMAIN c.pending) <= MaxPending /\ MaxPending \in Nat
    BY DeliveryAssumption DEF Consistent
  <2>5. QED
    BY <2>3, <2>4
<1>4. /\ w \in Sessions /\ w.pending = p /\ w.from = c.from /\ w.status = c.status
      /\ w.joining = c.joining
  <2> HIDE DEF p
  <2>1. QED
    BY <1>1, <1>2 DEF Sessions
<1> HIDE DEF p, w
<1>5. CASE q = settleCollaborationSyncDelivery(d, id, disposition) /\ f = without(e, id)
  <2>1. /\ q \in Databases /\ DOMAIN q.rows = DOMAIN d.rows
        /\ id \in DOMAIN d.rows => /\ q.rows[id].disposition = disposition
                                   /\ q.rows[id].candidate = d.rows[id].candidate
        /\ \A i \in DOMAIN d.rows \ {id} : q.rows[i] = d.rows[i]
    <3>1. d \in Databases /\ id \in Deliveries
      BY <1>1 DEF Deliveries
    <3>2. QED
      BY <1>5, <3>1, SettledRow
  <2>2. /\ f \in Retained /\ DOMAIN f = DOMAIN e \ {id}
        /\ \A i \in DOMAIN e \ {id} : f[i] = e[i]
    <3>1. e \in Partial(Verdicts)
      BY <1>1 DEF Retained
    <3>2. QED
      BY <1>5, <3>1, WithoutEntry DEF Retained
  <2>3. ASSUME NEW i \in DOMAIN q.rows PROVE RowOK(w, q, f, stored, i)
    <3>1. RowOK(c, d, e, stored, i) /\ i \in DOMAIN d.rows
      BY <2>1 DEF Consistent
    <3>2. CASE i = id
      <4>1. i \notin DOMAIN p /\ i \notin DOMAIN f /\ q.rows[i].disposition = disposition
            /\ q.rows[i].candidate = d.rows[i].candidate
        BY <1>2, <2>1, <2>2, <3>1, <3>2
      <4>2. d.rows[i].candidate \subseteq c.pending[i].vector
        BY <3>1, <3>2 DEF RowOK
      <4>3. QED
        BY <1>4, <3>2, <4>1, <4>2 DEF RowOK, Verdicts
    <3>3. CASE i # id
      BY <1>2, <1>4, <2>1, <2>2, <3>1, <3>3 DEF RowOK
    <3>4. QED
      BY <3>2, <3>3
  <2>4. Consistent(w, q, f, stored, n)
    BY <1>1, <1>2, <1>3, <1>4, <2>1, <2>2, <2>3 DEF Consistent
  <2>5. Follows(d, q, n)
    <3>1. ASSUME NEW i \in (1..n) \cap DOMAIN q.rows, d.rows[i].disposition # "sent"
          PROVE  q.rows[i].disposition = d.rows[i].disposition
      <4>1. RowOK(c, d, e, stored, i) /\ i \in DOMAIN d.rows
        BY <2>1 DEF Consistent
      <4>2. i # id
        BY <3>1, <4>1 DEF RowOK
      <4>3. QED
        BY <2>1, <4>1, <4>2
    <3>2. QED
      BY <2>1, <3>1 DEF Follows
  <2>6. QED
    BY <2>4, <2>5 DEF w, p
<1>6. CASE q = d /\ f = with(e, id, disposition)
  <2>1. /\ f \in Retained /\ DOMAIN f = DOMAIN e \cup {id} /\ f[id] = disposition
        /\ \A i \in DOMAIN e \ {id} : f[i] = e[i]
    <3>1. e \in Partial(Verdicts) /\ id \in Deliveries /\ disposition \in Verdicts /\ f = with(e, id, disposition)
      BY <1>1, <1>6 DEF Retained, Deliveries
    <3>2. QED
      <4>1. f \in Partial(Verdicts)
        BY <3>1, WithEntry
      <4>2. DOMAIN f = DOMAIN e \cup {id} /\ f[id] = disposition /\ \A i \in DOMAIN e \ {id} : f[i] = e[i]
        BY <3>1 DEF with
      <4>3. QED
        BY <4>1, <4>2 DEF Retained
  <2>2. ASSUME NEW i \in DOMAIN d.rows PROVE RowOK(w, d, f, stored, i)
    <3>1. RowOK(c, d, e, stored, i)
      BY DEF Consistent
    <3>2. CASE i = id
      <4>1. i \notin DOMAIN p /\ i \in DOMAIN f /\ f[i] = disposition
        BY <1>2, <2>1, <3>2
      <4>2. d.rows[i].disposition = "sent" /\ d.rows[i].candidate \subseteq c.pending[i].vector
        BY <3>1, <3>2 DEF RowOK
      <4>3. QED
        BY <1>4, <3>2, <4>1, <4>2 DEF RowOK, Verdicts
    <3>3. CASE i # id
      BY <1>2, <1>4, <2>1, <3>1, <3>3 DEF RowOK
    <3>4. QED
      BY <3>2, <3>3
  <2>3. Consistent(w, d, f, stored, n)
    BY <1>1, <1>2, <1>3, <1>4, <2>1, <2>2 DEF Consistent
  <2>4. QED
    BY <1>6, <2>3 DEF Follows, w, p
<1>7. QED
  BY <1>5, <1>6

\* The retained settlements are stored, all of them.
LEMMA RetryConsistent ==
  ASSUME NEW c, NEW d, NEW stored, NEW n, Consistent(c, d, early, stored, n)
  PROVE  Consistent(c, retried(d), <<>>, stored, n) /\ Follows(d, retried(d), n)
<1> DEFINE q == retried(d)
           none == <<>>
<1>1. c \in Sessions /\ d \in Databases /\ early \in Retained /\ n \in Nat
  BY DEF Consistent
<1>2. /\ q \in Databases /\ DOMAIN q.rows = DOMAIN d.rows
      /\ \A i \in DOMAIN d.rows :
           /\ q.rows[i].candidate = d.rows[i].candidate
           /\ i \in DOMAIN early => q.rows[i].disposition = early[i]
           /\ i \notin DOMAIN early => q.rows[i].disposition = d.rows[i].disposition
  BY <1>1, RetriedRows
<1>3. none \in Retained /\ DOMAIN none = {}
  BY NoEntry DEF Retained
<1>4. \A i \in DOMAIN early : early[i] \in Verdicts
  BY <1>1, PartialFunctions DEF Retained
<1> HIDE DEF q, none
<1>5. ASSUME NEW i \in DOMAIN q.rows PROVE RowOK(c, q, none, stored, i)
  <2>1. RowOK(c, d, early, stored, i) /\ i \in DOMAIN d.rows /\ DOMAIN c.pending \cap DOMAIN early = {}
    BY <1>2 DEF Consistent
  <2>2. CASE i \in DOMAIN early
    BY <1>2, <1>3, <1>4, <2>1, <2>2 DEF RowOK, Verdicts
  <2>3. CASE i \notin DOMAIN early
    BY <1>2, <1>3, <2>1, <2>3 DEF RowOK
  <2>4. QED
    BY <2>2, <2>3
<1>6. Consistent(c, q, none, stored, n)
  BY <1>2, <1>3, <1>5 DEF Consistent
<1>7. Follows(d, q, n)
  <2>1. ASSUME NEW i \in (1..n) \cap DOMAIN q.rows, d.rows[i].disposition # "sent"
        PROVE  q.rows[i].disposition = d.rows[i].disposition
    <3>1. RowOK(c, d, early, stored, i) /\ i \in DOMAIN d.rows
      BY <1>2 DEF Consistent
    <3>2. i \notin DOMAIN early
      BY <2>1, <3>1 DEF RowOK
    <3>3. QED
      BY <1>2, <3>1, <3>2
  <2>2. QED
    BY <1>2, <2>1 DEF Follows
<1>8. QED
  BY <1>6, <1>7 DEF q, none

\* The number of the next delivery.
After(n, k) == k = n + 1

\* A delivery is staged in the ledger and then waits for its answer in the session.
LEMMA StagingConsistent ==
  ASSUME NEW c, NEW d, NEW e, NEW stored, NEW n, Consistent(c, d, e, stored, n), NEW k, After(n, k),
         NEW baseline \in SUBSET Comments, NEW doc \in SUBSET Comments,
         c.status \notin Over, canReserve(c), ledgerHasRoom(d),
         NEW w, w = [c EXCEPT !.doc = doc,
                              !.pending = with(@, k, [vector |-> doc, timer |-> TRUE])],
         NEW q, q = stageCollaborationSyncDelivery(d, k, baseline, doc)
  PROVE  Consistent(w, q, e, stored, k) /\ Follows(d, q, n)
<1> DEFINE m == [vector |-> doc, timer |-> TRUE]
           p == with(c.pending, k, m)
<1>1. /\ c \in Sessions /\ d \in Databases /\ e \in Retained /\ n \in Nat /\ c.from <= n
      /\ DOMAIN c.pending \subseteq 1..n /\ DOMAIN d.rows \subseteq 1..n /\ DOMAIN e \subseteq 1..n
      /\ DOMAIN c.pending \cap DOMAIN e = {} /\ c.pending \in Partial(Waiting) /\ c.from \in Nat
  BY DEF Consistent, Sessions
<1>2. m \in Waiting /\ m.vector = doc
  BY DEF Waiting
<1> HIDE DEF m
<1>3. /\ p \in Partial(Waiting) /\ DOMAIN p = DOMAIN c.pending \cup {k} /\ p[k] = m
      /\ \A i \in DOMAIN c.pending \ {k} : p[i] = c.pending[i]
  <2>1. k \in Deliveries /\ c.pending \in Partial(Waiting)
    BY <1>1 DEF Deliveries, After
  <2>2. QED
    <3>1. p \in Partial(Waiting)
      BY <1>2, <2>1, WithEntry
    <3>2. DOMAIN p = DOMAIN c.pending \cup {k} /\ p[k] = m
      BY DEF with
    <3>3. \A i \in DOMAIN c.pending \ {k} : p[i] = c.pending[i]
      BY DEF with
    <3>4. QED
      BY <3>1, <3>2, <3>3
<1>4. w = [c EXCEPT !.doc = doc, !.pending = p]
  BY DEF m
<1> HIDE DEF p
<1>5. w \in Sessions /\ w.pending = p /\ w.from = c.from /\ w.status = c.status
  BY <1>1, <1>3, <1>4 DEF Sessions
<1>6. /\ q \in Databases /\ DOMAIN q.rows = DOMAIN d.rows \cup {k}
      /\ q.rows[k].disposition = "sent" /\ q.rows[k].candidate = doc
      /\ \A i \in DOMAIN d.rows \ {k} : q.rows[i] = d.rows[i]
  <2>1. /\ k \in Deliveries /\ d \in Databases /\ baseline \in Snapshots /\ doc \in Snapshots
        /\ q = stageCollaborationSyncDelivery(d, k, baseline, doc)
    BY <1>1 DEF Deliveries, After, Snapshots
  <2>2. QED
    BY <2>1, StagedRow
<1>7. IsFiniteSet(DOMAIN c.pending) /\ IsFiniteSet(DOMAIN d.rows)
  <2>1. IsFiniteSet(1..n)
    <3>1. n \in Int /\ 1 \in Int
      BY <1>1
    <3>2. QED
      BY <3>1, FS_Interval
  <2>2. QED
    BY <1>1, <2>1, FS_Subset
<1>8. /\ k \notin DOMAIN c.pending /\ k \notin DOMAIN d.rows /\ k \notin DOMAIN e
      /\ k \in Nat /\ \A i \in 1..n : i # k
      /\ 1..n \subseteq 1..k /\ k \in 1..k /\ c.from <= k
  BY <1>1 DEF After
<1>9. Cardinality(DOMAIN p) <= MaxPending
  <2>1. Cardinality(DOMAIN p) = Cardinality(DOMAIN c.pending) + 1 /\ Cardinality(DOMAIN c.pending) \in Nat
    BY <1>3, <1>7, <1>8, FS_AddElement, FS_CardinalityType
  <2>2. QED
    BY <2>1, DeliveryAssumption DEF canReserve
<1>10. Cardinality(DOMAIN q.rows) <= MaxRows
  <2>1. Cardinality(DOMAIN q.rows) = Cardinality(DOMAIN d.rows) + 1 /\ Cardinality(DOMAIN d.rows) \in Nat
    <3>1. DOMAIN q.rows = DOMAIN d.rows \cup {k} /\ k \notin DOMAIN d.rows /\ IsFiniteSet(DOMAIN d.rows)
      BY <1>6, <1>7, <1>8
    <3>2. QED
      BY <3>1, FS_AddElement, FS_CardinalityType
  <2>2. QED
    BY <2>1, LedgerAssumption DEF ledgerHasRoom
<1>11. ASSUME NEW i \in DOMAIN q.rows PROVE RowOK(w, q, e, stored, i)
  <2>1. CASE i = k
    BY <1>2, <1>3, <1>5, <1>6, <1>8, <2>1 DEF RowOK
  <2>2. CASE i # k
    <3>1. i \in DOMAIN d.rows /\ RowOK(c, d, e, stored, i)
      BY <1>6, <2>2 DEF Consistent
    <3>2. q.rows[i] = d.rows[i] /\ (i \in DOMAIN p <=> i \in DOMAIN c.pending)
          /\ (i \in DOMAIN c.pending => p[i] = c.pending[i])
      BY <1>3, <1>6, <2>2, <3>1
    <3>3. QED
      BY <1>5, <3>1, <3>2 DEF RowOK
  <2>3. QED
    BY <2>1, <2>2
<1>12. Consistent(w, q, e, stored, k)
  <2>1. /\ DOMAIN p \subseteq 1..k /\ DOMAIN q.rows \subseteq 1..k /\ DOMAIN e \subseteq 1..k
        /\ DOMAIN p \cap DOMAIN e = {}
    BY <1>1, <1>3, <1>6, <1>8
  <2>2. QED
    BY <1>1, <1>5, <1>6, <1>8, <1>9, <1>10, <1>11, <2>1 DEF Consistent
<1>13. Follows(d, q, n)
  <2>1. ASSUME NEW i \in (1..n) \cap DOMAIN q.rows
        PROVE  i \in DOMAIN d.rows /\ q.rows[i] = d.rows[i]
    BY <1>6, <1>8
  <2>2. QED
    BY <2>1 DEF Follows
<1>14. QED
  BY <1>12, <1>13
-----------------------------------------------------------------------------
(* The websocket *)

\* Queues grow by honest messages, at the end or by a whole queue.
LEMMA QueueGrows ==
  ASSUME NEW q, NEW r, NEW stored, NEW m, queue(q, stored)
  PROVE  /\ honest(m, stored) => queue(Append(q, m), stored) /\ queue(<<m>>, stored)
         /\ queue(r, stored) => queue(q \o r, stored)
<1>1. PICK S : q \in Seq(S) /\ \A x \in S : honest(x, stored)
  BY DEF queue
<1>2. ASSUME honest(m, stored) PROVE queue(Append(q, m), stored) /\ queue(<<m>>, stored)
  <2>1. Append(q, m) \in Seq(S \cup {m}) /\ <<m>> \in Seq({m})
    BY <1>1
  <2>2. \A x \in S \cup {m} : honest(x, stored)
    BY <1>1, <1>2
  <2>3. QED
    BY <2>1, <2>2 DEF queue
<1>3. ASSUME queue(r, stored) PROVE queue(q \o r, stored)
  <2>1. PICK T : r \in Seq(T) /\ \A x \in T : honest(x, stored)
    BY <1>3 DEF queue
  <2>2. q \in Seq(S \cup T) /\ r \in Seq(S \cup T)
    BY <1>1, <2>1
  <2>3. q \o r \in Seq(S \cup T)
    BY <2>2
  <2>4. \A x \in S \cup T : honest(x, stored)
    BY <1>1, <2>1
  <2>5. QED
    BY <2>3, <2>4 DEF queue
<1>4. QED
  BY <1>2, <1>3

\* An empty queue.
LEMMA EmptyQueue ==
  ASSUME NEW stored
  PROVE  queue(<<>>, stored)
<1> DEFINE S == {}
<1>1. <<>> \in Seq(S) /\ \A m \in S : honest(m, stored)
  OBVIOUS
<1> HIDE DEF S
<1>2. QED
  BY <1>1 DEF queue

\* The next message is honest, and so are the others.
LEMMA QueueShrinks ==
  ASSUME NEW q, NEW stored, queue(q, stored), q # <<>>
  PROVE  honest(Head(q), stored) /\ queue(Tail(q), stored)
<1>1. PICK S : q \in Seq(S) /\ \A x \in S : honest(x, stored)
  BY DEF queue
<1>2. Head(q) \in S /\ Tail(q) \in Seq(S)
  BY <1>1
<1>3. QED
  BY <1>1, <1>2 DEF queue

\* An acknowledgement stays true when more is stored.
LEMMA QueueStored ==
  ASSUME NEW q, NEW stored, NEW more, queue(q, stored), stored \subseteq more
  PROVE  queue(q, more)
<1>1. PICK S : q \in Seq(S) /\ \A x \in S : honest(x, stored)
  BY DEF queue
<1>2. \A x \in S : honest(x, more)
  BY <1>1 DEF honest
<1>3. QED
  BY <1>1, <1>2 DEF queue

\* The confirmations that are sent again.
LEMMA ResentQueue ==
  ASSUME NEW c, NEW n \in Nat, DOMAIN c.pending \subseteq 1..n
  PROVE  queue(resent(c), {})
<1> DEFINE late == {j \in DOMAIN c.pending : ~c.pending[j].timer}
           size == Cardinality(late)
           which(k) == SetToSortSeq(late, <)[k]
           sent == [k \in 1..size |-> confirm(which(k), c.pending[which(k)].vector)]
<1>1. size \in Nat
  <2>1. n \in Int /\ 1 \in Int
    OBVIOUS
  <2>2. IsFiniteSet(1..n)
    BY <2>1, FS_Interval
  <2>3. IsFiniteSet(late)
    BY <2>2, FS_Subset
  <2>4. QED
    BY <2>3, FS_CardinalityType
<1>2. resent(c) = sent \/ resent(c) = <<>>
  BY DEF resent
<1> HIDE DEF late, size, which
<1>3. queue(sent, {})
  <2> DEFINE S == {sent[k] : k \in 1..size}
  <2>1. sent \in Seq(S)
    BY <1>1
  <2>2. ASSUME NEW k \in 1..size PROVE honest(sent[k], {})
    BY DEF honest, confirm
  <2>3. \A m \in S : honest(m, {})
    BY <2>2
  <2> HIDE DEF S
  <2>4. QED
    BY <2>1, <2>3 DEF queue
<1>4. QED
  BY <1>2, <1>3, EmptyQueue

\* The websocket that is down.
LEMMA DownLinked ==
  ASSUME NEW stored
  PROVE  Linked(DownLink, stored) /\ DownLink.up = FALSE
<1> DEFINE none == <<>>
<1>1. queue(none, stored) /\ queue(none, {})
  BY EmptyQueue
<1>2. DownLink = [up |-> FALSE, toServer |-> none, toClient |-> none]
  BY DEF DownLink
<1> HIDE DEF none
<1>3. QED
  BY <1>1, <1>2 DEF Linked

clientQueue(l, q) == [l EXCEPT !.toClient = q]
serverQueue(l, q) == [l EXCEPT !.toServer = q]

\* One of the two queues changes.
LEMMA LinkChanged ==
  ASSUME NEW l, NEW stored, Linked(l, stored), NEW q
  PROVE  /\ queue(q, stored) => Linked(clientQueue(l, q), stored)
         /\ queue(q, {}) => Linked(serverQueue(l, q), stored)
         /\ clientQueue(l, q).up = l.up /\ serverQueue(l, q).up = l.up
         /\ clientQueue(l, q).toServer = l.toServer /\ clientQueue(l, q).toClient = q
         /\ serverQueue(l, q).toClient = l.toClient /\ serverQueue(l, q).toServer = q
<1>1. PICK u, a, b : /\ u \in BOOLEAN /\ l = [up |-> u, toServer |-> a, toClient |-> b]
                     /\ queue(a, {}) /\ queue(b, stored)
  BY DEF Linked
<1>2. /\ clientQueue(l, q) = [up |-> u, toServer |-> a, toClient |-> q]
      /\ serverQueue(l, q) = [up |-> u, toServer |-> q, toClient |-> b]
  BY <1>1 DEF clientQueue, serverQueue
<1>3. QED
  BY <1>1, <1>2 DEF Linked

\* More is stored.
LEMMA LinkStored ==
  ASSUME NEW l, NEW stored, NEW more, Linked(l, stored), stored \subseteq more
  PROVE  Linked(l, more)
  BY QueueStored DEF Linked

\* A message was taken from the queue to the desktop.
LEMMA ReceivedLinked ==
  ASSUME Linked(link, server.stored), link.toClient # <<>>
  PROVE  /\ Linked(received, server.stored) /\ received.up = link.up
         /\ honest(Head(link.toClient), server.stored)
<1>1. queue(link.toClient, server.stored)
  BY DEF Linked
<1> DEFINE q == Tail(link.toClient)
<1>2. honest(Head(link.toClient), server.stored) /\ queue(q, server.stored)
  BY <1>1, QueueShrinks
<1>3. received = clientQueue(link, q)
  BY DEF received, clientQueue
<1> HIDE DEF q
<1>4. QED
  BY <1>2, <1>3, LinkChanged

\* A message was taken from the queue to the server.
LEMMA HandledLinked ==
  ASSUME Linked(link, server.stored), link.toServer # <<>>
  PROVE  /\ Linked(handled, server.stored) /\ handled.up = link.up
         /\ honest(Head(link.toServer), {})
<1>1. queue(link.toServer, {})
  BY DEF Linked
<1> DEFINE q == Tail(link.toServer)
<1>2. honest(Head(link.toServer), {}) /\ queue(q, {})
  BY <1>1, QueueShrinks
<1>3. handled = serverQueue(link, q)
  BY DEF handled, serverQueue
<1> HIDE DEF q
<1>4. QED
  BY <1>2, <1>3, LinkChanged

-----------------------------------------------------------------------------
(* The actions: each keeps the invariant and every settlement *)

\* What an action must show.
Safe == DeliveryInv' /\ Follows(db, db', ids)

\* When the database is left alone the settlements are.
LEMMA UnchangedFollows ==
  ASSUME db' = db
  PROVE  Follows(db, db', ids)
  BY DEF Follows

\* Steps of the desktop alone.
LEMMA DesktopSafe ==
  ASSUME DeliveryInv, UNCHANGED <<server, peer>>, Linked(link', server.stored),
         Consistent(client', db', early', server.stored, ids'),
         link'.up => client'.status \notin Over, Follows(db, db', ids)
  PROVE  Safe
<1>1. server.stored' = server.stored /\ ServerOK' /\ peer' \subseteq Foreign
  BY DEF DeliveryInv, ServerOK
<1>2. QED
  BY <1>1 DEF DeliveryInv, Safe

\* The session starts.
LEMMA JoinSafe ==
  ASSUME DeliveryInv, Join
  PROVE  Safe
<1>1. /\ client' = [NoSession EXCEPT !.status = "connecting", !.joining = TRUE, !.from = ids]
      /\ link' = DownLink /\ UNCHANGED <<early, db, server, peer, ids>>
  BY DEF Join, history
<1>2. ids \in Nat /\ ids <= ids
  BY DEF DeliveryInv, Consistent
<1>3. /\ client' \in Sessions /\ DOMAIN client'.pending = {} /\ client'.from = ids
      /\ client'.status = "connecting"
  <2>1. Idle(client', "connecting", ids)
    BY <1>1, <1>2, IdleSessions
  <2>2. QED
    BY <2>1 DEF Idle
<1>4. Consistent(client', db, early, server.stored, ids)
  <2>1. client'.status \notin Over /\ Consistent(client, db, early, server.stored, ids)
    BY <1>3 DEF DeliveryInv, Over
  <2>2. QED
    BY <1>2, <1>3, <2>1, FreshConsistent
<1>5. QED
  BY <1>1, <1>4, DownLinked, UnchangedFollows, DesktopSafe

\* The session of NoSession or of #fail.
LEMMA EndedConsistent ==
  ASSUME DeliveryInv, NEW q, q = NoSession \/ q = failed(client)
  PROVE  Consistent(q, db, early, server.stored, ids) /\ q.status \in Over
<1>1. /\ client \in Sessions /\ client.from <= ids /\ ids \in Nat /\ client.from \in Nat
      /\ Consistent(client, db, early, server.stored, ids)
  BY DEF DeliveryInv, Consistent, Sessions
<1>2. CASE q = NoSession
  <2>1. Idle(q, "none", 0) /\ q.joining = FALSE
    BY <1>1, <1>2, IdleSessions
  <2>2. q.from <= ids /\ q.status \in Over
    BY <1>1, <2>1 DEF Idle, Over
  <2>3. QED
    BY <1>1, <2>1, <2>2, FreshConsistent DEF Idle
<1>3. CASE q = failed(client)
  <2>1. q = [NoSession EXCEPT !.status = "error", !.from = client.from]
    BY <1>3 DEF failed
  <2>2. Idle(q, "error", client.from) /\ q.joining = FALSE
    BY <1>1, <2>1, IdleSessions
  <2>3. q.from <= ids /\ q.status \in Over
    BY <1>1, <2>2 DEF Idle, Over
  <2>4. QED
    BY <1>1, <2>2, <2>3, FreshConsistent DEF Idle
<1>4. QED
  BY <1>2, <1>3

\* The transport connects, or a member that was removed is refused.
LEMMA ConnectSafe ==
  ASSUME DeliveryInv, Connect
  PROVE  Safe
<1>1. UNCHANGED <<early, db, server, peer, ids>> /\ ~link.up /\ client.status \notin Over
  BY DEF Connect, counters, Over
<1>2. CASE server.member
  <2> DEFINE m == [type |-> "sync", ops |-> server.doc]
             q == <<m>>
             none == <<>>
  <2>1. client' = client /\ link' = [up |-> TRUE, toServer |-> none, toClient |-> q]
    BY <1>2 DEF Connect
  <2>2. honest(m, server.stored)
    BY DEF honest, DeliveryInv, ServerOK
  <2>3. queue(none, server.stored) /\ queue(none, {})
    BY EmptyQueue
  <2> HIDE DEF m, none
  <2>4. queue(q, server.stored)
    BY <2>2, <2>3, QueueGrows
  <2> HIDE DEF q
  <2>5. Linked(link', server.stored)
    BY <2>1, <2>3, <2>4 DEF Linked
  <2>6. QED
    BY <1>1, <2>1, <2>5, UnchangedFollows, DesktopSafe DEF DeliveryInv
<1>3. CASE ~server.member
  <2>1. client' = failed(client) /\ link' = link
    BY <1>3 DEF Connect
  <2>2. Consistent(client', db, early, server.stored, ids)
    BY <2>1, EndedConsistent
  <2>3. QED
    BY <1>1, <2>1, <2>2, UnchangedFollows, DesktopSafe DEF DeliveryInv
<1>4. QED
  BY <1>2, <1>3

\* The session ends.
LEMMA EndSafe ==
  ASSUME DeliveryInv, JoinTimeout \/ Leave \/ DesktopCrash
  PROVE  Safe
<1>1. /\ client' = NoSession \/ client' = failed(client)
      /\ link' = DownLink /\ UNCHANGED <<db, server, peer, ids>>
      /\ early' = early \/ early' = <<>>
  BY DEF JoinTimeout, Leave, DesktopCrash, history, counters
<1>2. Consistent(client', db, early, server.stored, ids) /\ client'.status \in Over
  BY <1>1, EndedConsistent
<1>3. Consistent(client', db, early', server.stored, ids)
  BY <1>1, <1>2, ForgottenConsistent
<1>4. QED
  BY <1>1, <1>3, DownLinked, UnchangedFollows, DesktopSafe

\* The connection is lost.
LEMMA DroppedConsistent ==
  ASSUME DeliveryInv, link.up, Dropped
  PROVE  Consistent(client', db, early, server.stored, ids) /\ link' = DownLink
<1>1. /\ client \in Sessions /\ client.status \notin Over /\ client' = disconnected(client)
      /\ Consistent(client, db, early, server.stored, ids)
  BY DEF DeliveryInv, Consistent, Dropped
<1>2. Keeps(client, client') \/ client' = failed(client)
  BY <1>1, DisconnectedKeeps
<1>3. Consistent(client', db, early, server.stored, ids)
  BY <1>1, <1>2, KeepsConsistent, EndedConsistent
<1>4. QED
  BY <1>3 DEF Dropped

\* Disconnect.
LEMMA DisconnectSafe ==
  ASSUME DeliveryInv, Disconnect
  PROVE  Safe
<1>1. link.up /\ Dropped /\ UNCHANGED <<early, db, server, peer, ids>>
  BY DEF Disconnect
<1>2. Consistent(client', db, early, server.stored, ids) /\ link' = DownLink
  BY <1>1, DroppedConsistent
<1>3. QED
  BY <1>1, <1>2, DownLinked, UnchangedFollows, DesktopSafe

\* A reconnection may be complete, and confirmations are sent again.
LEMMA ReleasedConsistent ==
  ASSUME NEW c, NEW l, NEW d, NEW e, NEW stored, NEW n,
         Consistent(c, d, e, stored, n), Linked(l, stored),
         client' = completed(c), link' = l \/ link' = [l EXCEPT !.toServer = @ \o resent(c)]
  PROVE  /\ Consistent(client', d, e, stored, n) /\ Linked(link', stored)
         /\ link'.up = l.up /\ (client'.status \in Over <=> c.status \in Over)
<1>1. /\ c \in Sessions /\ (c.status \in Over => ~c.joining)
      /\ n \in Nat /\ DOMAIN c.pending \subseteq 1..n
  BY DEF Consistent
<1>2. Keeps(c, client')
  BY <1>1, CompletedKeeps
<1>3. Consistent(client', d, e, stored, n) /\ (client'.status \in Over <=> c.status \in Over)
  BY <1>2, KeepsConsistent DEF Keeps
<1>4. queue(l.toServer, {}) /\ queue(resent(c), {})
  BY <1>1, ResentQueue DEF Linked
<1> DEFINE q == l.toServer \o resent(c)
<1>5. queue(q, {})
  BY <1>4, QueueGrows
<1>6. link' = l \/ link' = serverQueue(l, q)
  BY DEF serverQueue
<1> HIDE DEF q
<1>7. Linked(serverQueue(l, q), stored) /\ serverQueue(l, q).up = l.up
  BY <1>5, LinkChanged
<1>8. QED
  BY <1>3, <1>6, <1>7

\* A settlement and what it releases.
LEMMA SettlementSafe ==
  ASSUME DeliveryInv, NEW id \in DOMAIN client.pending, NEW disposition \in Verdicts,
         disposition = "acknowledged" => client.pending[id].vector \subseteq server.stored,
         SettleDelivery(id, disposition), NEW l, Linked(l, server.stored), l.up = link.up,
         Released([client EXCEPT !.pending = without(@, id)], l),
         UNCHANGED <<server, peer, ids>>
  PROVE  Safe
<1> DEFINE w == [client EXCEPT !.pending = without(@, id)]
<1>1. Consistent(client, db, early, server.stored, ids)
  BY DEF DeliveryInv
<1>2. \/ db' = settleCollaborationSyncDelivery(db, id, disposition) /\ early' = without(early, id)
      \/ db' = db /\ early' = with(early, id, disposition)
  BY DEF SettleDelivery
<1>3. Consistent(w, db', early', server.stored, ids) /\ Follows(db, db', ids)
  BY <1>1, <1>2, SettlementConsistent
<1>4. w.status = client.status
  BY <1>1 DEF Consistent, Sessions
<1>5. client' = completed(w) /\ link' = [l EXCEPT !.toServer = @ \o resent(w)]
  BY DEF Released
<1> HIDE DEF w
<1>6. /\ Consistent(client', db', early', server.stored, ids) /\ Linked(link', server.stored)
      /\ link'.up = l.up /\ (client'.status \in Over <=> w.status \in Over)
  BY <1>3, <1>5, ReleasedConsistent
<1>7. link'.up => client'.status \notin Over
  BY <1>4, <1>6 DEF DeliveryInv
<1>8. QED
  BY <1>3, <1>6, <1>7, DesktopSafe
\* An answer of the server.
LEMMA HandleStatelessSafe ==
  ASSUME DeliveryInv, HandleStateless
  PROVE  Safe
<1> DEFINE m == Head(link.toClient)
           w == [client EXCEPT !.pending = without(@, m.id)]
<1>1. /\ link.toClient # <<>> /\ m.type \in Verdicts /\ UNCHANGED <<server, peer, ids>>
      /\ \/ /\ m.id \in DOMAIN client.pending /\ client.pending[m.id].vector = m.vector
            /\ SettleDelivery(m.id, m.type) /\ Released(w, received)
         \/ link' = received /\ UNCHANGED <<client, db, early>>
  BY DEF HandleStateless, Verdicts, history
<1>2. /\ Linked(received, server.stored) /\ received.up = link.up /\ honest(m, server.stored)
  BY <1>1, ReceivedLinked DEF DeliveryInv
<1>3. m.type = "acknowledged" => m.vector \subseteq server.stored
  BY <1>2 DEF honest
<1> HIDE DEF m
<1>4. CASE /\ m.id \in DOMAIN client.pending /\ client.pending[m.id].vector = m.vector
           /\ SettleDelivery(m.id, m.type) /\ Released(w, received)
  BY <1>1, <1>2, <1>3, <1>4, SettlementSafe
<1>5. CASE link' = received /\ UNCHANGED <<client, db, early>>
  BY <1>1, <1>2, <1>5, UnchangedFollows, DesktopSafe DEF DeliveryInv
<1>6. QED
  BY <1>1, <1>4, <1>5

\* A delivery expires.
LEMMA ExpireDeliverySafe ==
  ASSUME DeliveryInv, NEW id \in DOMAIN client.pending, ExpireDelivery(id)
  PROVE  Safe
<1> DEFINE w == [client EXCEPT !.pending = without(@, id)]
           q == [client EXCEPT !.pending[id].timer = FALSE]
<1>1. /\ UNCHANGED <<server, peer, ids>>
      /\ \/ SettleDelivery(id, "rejected") /\ Released(w, link)
         \/ client' = q /\ UNCHANGED <<link, db, early>>
  BY DEF ExpireDelivery
<1>2. Linked(link, server.stored) /\ "rejected" \in Verdicts /\ "rejected" # "acknowledged"
  BY DEF DeliveryInv, Verdicts
<1>3. CASE SettleDelivery(id, "rejected") /\ Released(w, link)
  BY <1>1, <1>2, <1>3, SettlementSafe
<1>4. CASE client' = q /\ UNCHANGED <<link, db, early>>
  <2>1. client \in Sessions /\ Consistent(client, db, early, server.stored, ids)
    BY DEF DeliveryInv, Consistent
  <2>2. Keeps(client, q)
    BY <2>1, TimerStopped
  <2> HIDE DEF q
  <2>3. Keeps(client, client')
    BY <1>4, <2>2
  <2>4. Consistent(client', db, early, server.stored, ids) /\ (client'.status \in Over <=> client.status \in Over)
    BY <2>1, <2>3, KeepsConsistent DEF Keeps
  <2>5. link'.up => client'.status \notin Over
    BY <1>4, <2>4 DEF DeliveryInv
  <2>6. QED
    BY <1>1, <1>2, <1>4, <2>4, <2>5, UnchangedFollows, DesktopSafe
<1>5. QED
  BY <1>1, <1>3, <1>4

\* The document of the server arrives.
LEMMA HandleSyncedSafe ==
  ASSUME DeliveryInv, HandleSynced
  PROVE  Safe
<1> DEFINE m == Head(link.toClient)
           c == [client EXCEPT !.synced = TRUE, !.doc = @ \cup m.ops]
           u == [type |-> "update", ops |-> c.doc \ m.ops]
           q == Append(received.toServer, u)
           l == IF c.doc = m.ops THEN received ELSE [received EXCEPT !.toServer = Append(@, u)]
<1>1. /\ link.up /\ link.toClient # <<>> /\ m.type = "sync" /\ UNCHANGED <<early, db, server, peer, ids>>
      /\ client' = completed(c) /\ (link' = l \/ link' = [l EXCEPT !.toServer = @ \o resent(c)])
  BY DEF HandleSynced, Released
<1>2. /\ Linked(received, server.stored) /\ received.up = link.up /\ honest(m, server.stored)
  BY <1>1, ReceivedLinked DEF DeliveryInv
<1>3. m.ops \in SUBSET Comments
  BY <1>1, <1>2 DEF honest
<1>4. client \in Sessions /\ Consistent(client, db, early, server.stored, ids) /\ client.status \notin Over
  BY <1>1 DEF DeliveryInv, Consistent
<1> HIDE DEF m
<1>5. Keeps(client, c)
  BY <1>3, <1>4, DocumentGrows
<1> HIDE DEF c
<1>6. Consistent(c, db, early, server.stored, ids) /\ c.status \notin Over /\ c.doc \subseteq Comments
  BY <1>4, <1>5, KeepsConsistent DEF Keeps, Sessions
<1>7. honest(u, {})
  BY <1>6 DEF honest
<1> HIDE DEF u
<1>8. queue(q, {})
  BY <1>2, <1>7, QueueGrows DEF Linked
<1>9. l = received \/ l = serverQueue(received, q)
  BY DEF serverQueue
<1> HIDE DEF q, l
<1>10. Linked(l, server.stored)
  BY <1>2, <1>8, <1>9, LinkChanged
<1>11. /\ Consistent(client', db, early, server.stored, ids) /\ Linked(link', server.stored)
       /\ (client'.status \in Over <=> c.status \in Over)
  BY <1>1, <1>6, <1>10, ReleasedConsistent
<1>12. QED
  BY <1>1, <1>6, <1>11, UnchangedFollows, DesktopSafe

\* A change of another member arrives.
LEMMA HandleUpdateSafe ==
  ASSUME DeliveryInv, HandleUpdate
  PROVE  Safe
<1> DEFINE m == Head(link.toClient)
           c == [client EXCEPT !.doc = @ \cup m.ops]
<1>1. /\ link.up /\ link.toClient # <<>> /\ m.type = "update" /\ UNCHANGED <<early, db, server, peer, ids>>
      /\ client' = c /\ link' = received
  BY DEF HandleUpdate, counters
<1>2. /\ Linked(received, server.stored) /\ received.up = link.up /\ honest(m, server.stored)
  BY <1>1, ReceivedLinked DEF DeliveryInv
<1>3. m.ops \in SUBSET Comments
  BY <1>1, <1>2 DEF honest
<1>4. client \in Sessions /\ Consistent(client, db, early, server.stored, ids) /\ client.status \notin Over
  BY <1>1 DEF DeliveryInv, Consistent
<1> HIDE DEF m
<1>5. Keeps(client, c)
  BY <1>3, <1>4, DocumentGrows
<1> HIDE DEF c
<1>6. Keeps(client, client')
  BY <1>1, <1>5
<1>7. Consistent(client', db, early, server.stored, ids) /\ client'.status \notin Over
  BY <1>4, <1>6, KeepsConsistent DEF Keeps
<1>8. QED
  BY <1>1, <1>2, <1>7, UnchangedFollows, DesktopSafe

\* Comments are published after their delivery was staged over the ledger d.
LEMMA PublishedSafe ==
  ASSUME DeliveryInv, NEW d, NEW e, Consistent(client, d, e, server.stored, ids), Follows(db, d, ids),
         NEW baseline \in SUBSET Comments, NEW comments \in SUBSET Comments,
         client.status \notin Over, canReserve(client), ledgerHasRoom(d),
         db' = stageCollaborationSyncDelivery(d, ids + 1, baseline, client.doc \cup comments),
         NEW sent \in BOOLEAN, Published(comments, sent), early' = e, UNCHANGED <<server, peer>>
  PROVE  Safe
<1> DEFINE doc == client.doc \cup comments
           u == [type |-> "update", ops |-> comments]
           f == confirm(ids', doc)
           q == link.toServer \o <<u>> \o (IF sent THEN <<f>> ELSE <<>>)
<1>1. doc \in SUBSET Comments
  BY DEF Consistent, Sessions
<1>2. /\ After(ids, ids') /\ link' = serverQueue(link, q)
      /\ client' = [client EXCEPT !.doc = doc,
                                  !.pending = with(@, ids', [vector |-> doc, timer |-> TRUE])]
      /\ db' = stageCollaborationSyncDelivery(d, ids', baseline, doc)
  BY DEF Published, After, serverQueue
<1> HIDE DEF doc
<1>3. Consistent(client', db', e, server.stored, ids') /\ Follows(d, db', ids)
  BY <1>1, <1>2, StagingConsistent
<1>4. Follows(db, db', ids)
  BY <1>3, FollowsTransitive
<1>5. client'.status = client.status
  BY <1>2 DEF Consistent, Sessions
<1>6. queue(q, {})
  <2>1. honest(u, {}) /\ honest(f, {})
    BY DEF honest, confirm
  <2> HIDE DEF u, f
  <2>2. queue(link.toServer, {}) /\ queue(<<>>, {})
    BY EmptyQueue DEF DeliveryInv, Linked
  <2>3. queue(<<u>>, {}) /\ queue(<<f>>, {})
    BY <2>1, <2>2, QueueGrows
  <2>4. queue(link.toServer \o <<u>>, {})
    BY <2>2, <2>3, QueueGrows
  <2> DEFINE a == link.toServer \o <<u>>
             b == IF sent THEN <<f>> ELSE <<>>
  <2>5. queue(b, {})
    BY <2>2, <2>3
  <2> HIDE DEF a, b
  <2>6. queue(a, {})
    BY <2>4 DEF a
  <2>7. queue(a \o b, {})
    BY <2>5, <2>6, QueueGrows
  <2>8. QED
    BY <2>7 DEF a, b
<1> HIDE DEF q
<1>7. Linked(link', server.stored)
  BY <1>2, <1>6, LinkChanged DEF DeliveryInv
<1>8. QED
  BY <1>3, <1>4, <1>5, <1>7, DesktopSafe

\* The reviewer writes a comment.
LEMMA CreateCommentSafe ==
  ASSUME DeliveryInv, NEW c \in Own, CreateComment(c)
  PROVE  Safe
<1> DEFINE recovery == recoverCollaborationSyncState(db)
           fresh == recovery.disposition \in {"none", "synchronized"}
           baseline == IF fresh THEN client.doc ELSE recovery.baseline
           candidate == client.doc \cup {c}
           pending == IF fresh THEN candidate ELSE effectiveCollaborationSyncPending(db) \cup {c}
<1>1. /\ sharingReady(client) /\ canReserve(client) /\ canStageDelivery(db, pending, candidate)
      /\ db' = stageCollaborationSyncDelivery(db, ids + 1, baseline, pending)
      /\ Published({c}, TRUE) \/ Published({c}, FALSE)
      /\ UNCHANGED <<early, server, peer>>
  BY DEF CreateComment
<1>2. pending = candidate /\ ledgerHasRoom(db) /\ client.status \notin Over
  BY <1>1 DEF canStageDelivery, sharingReady, Over
<1> HIDE DEF pending
<1>3. /\ Consistent(client, db, early, server.stored, ids) /\ db \in Databases /\ ids \in Nat
      /\ DOMAIN db.rows \subseteq 1..ids /\ client.doc \subseteq Comments
  BY DEF DeliveryInv, Consistent, Sessions
<1>4. recovery.baseline \subseteq Comments
  BY <1>3, RecoveryTypes
<1> HIDE DEF recovery
<1>5. baseline \in SUBSET Comments /\ {c} \in SUBSET Comments
  BY <1>3, <1>4 DEF Comments
<1> HIDE DEF baseline
<1>6. Follows(db, db, ids)
  BY DEF Follows
<1>7. \E sent \in BOOLEAN : Published({c}, sent)
  BY <1>1
<1>8. PICK sent \in BOOLEAN : Published({c}, sent)
  BY <1>7
<1>9. QED
  BY <1>1, <1>2, <1>3, <1>5, <1>6, <1>8, PublishedSafe

\* The database after a retry, and after a checkpoint of what was dismissed.
LEMMA RetriedSafe ==
  ASSUME DeliveryInv
  PROVE  /\ Consistent(client, retried(db), <<>>, server.stored, ids) /\ Follows(db, retried(db), ids)
         /\ Consistent(client, checkpointDismissed(retried(db)), <<>>, server.stored, ids)
         /\ Follows(db, checkpointDismissed(retried(db)), ids)
<1> DEFINE d == retried(db)
           q == checkpointDismissed(d)
           none == <<>>
<1>1. Consistent(client, d, none, server.stored, ids) /\ Follows(db, d, ids)
  BY RetryConsistent DEF DeliveryInv
<1> HIDE DEF d, none
<1>2. d \in Databases /\ ids \in Nat /\ DOMAIN d.rows \subseteq 1..ids
  BY <1>1 DEF Consistent
<1>3. q \in Databases /\ (q = d \/ DOMAIN q.rows = {})
  BY <1>2, DismissedRows
<1> HIDE DEF q
<1>4. Consistent(client, q, none, server.stored, ids)
  BY <1>1, <1>3, LedgerConsistent
<1>5. Follows(db, q, ids)
  BY <1>1, <1>3 DEF Follows
<1>6. QED
  BY <1>1, <1>4, <1>5 DEF d, q, none

\* Comments are replayed, if the ledger has room.
LEMMA ReplaySafe ==
  ASSUME DeliveryInv, NEW d, NEW e, Consistent(client, d, e, server.stored, ids), Follows(db, d, ids),
         NEW comments \in SUBSET Comments, client.status \notin Over, canReserve(client),
         ReplayComments(d, comments), early' = e, UNCHANGED <<server, peer>>
  PROVE  Safe
<1>1. CASE ledgerHasRoom(d)
  <2>1. /\ db' = stageCollaborationSyncDelivery(d, ids + 1, client.doc, client.doc \cup comments)
        /\ Published(comments, TRUE)
    BY <1>1 DEF ReplayComments
  <2>2. client.doc \in SUBSET Comments /\ TRUE \in BOOLEAN
    BY DEF Consistent, Sessions
  <2>3. QED
    BY <1>1, <2>1, <2>2, PublishedSafe
<1>2. CASE ~ledgerHasRoom(d)
  <2>1. db' = d /\ UNCHANGED <<client, link, ids>>
    BY <1>2 DEF ReplayComments
  <2>2. QED
    BY <2>1, DesktopSafe DEF DeliveryInv
<1>3. QED
  BY <1>1, <1>2

\* The recovery state is compared with the room.
LEMMA RecoverIntentSafe ==
  ASSUME DeliveryInv, NEW d, NEW e, Consistent(client, d, e, server.stored, ids), Follows(db, d, ids),
         NEW s, client.status \notin Over, RecoverIntent(d, s), early' = e, UNCHANGED <<server, peer>>
  PROVE  Safe
<1> DEFINE current == client.doc \ commentsOf(s)
           rejected == (commentsOf(activeRejected(d)) \ current) \ commentsOf(s)
           missing == missingComments(d, current) \ commentsOf(s)
           q == checkpointCollaborationSyncState(d, current)
<1>1. /\ d \in Databases /\ ids \in Nat /\ DOMAIN d.rows \subseteq 1..ids
      /\ client.doc \subseteq Comments
  BY DEF Consistent, Sessions
<1>2. rejected \in SUBSET Comments
  <2>1. commentsOf(activeRejected(d)) \subseteq Own
    BY <1>1, QuarantineTypes
  <2>2. QED
    BY <2>1 DEF Comments
<1>3. missing \in SUBSET Comments
  BY DEF Comments, missingComments
<1>4. \/ ReplayComments(d, rejected) /\ canReserve(client)
      \/ ReplayComments(d, missing) /\ canReserve(client)
      \/ (db' = d \/ db' = q) /\ UNCHANGED <<client, link, ids>>
  BY DEF RecoverIntent, canReplay
<1>5. current \in SUBSET Comments
  BY <1>1
<1> HIDE DEF current, rejected, missing
<1>6. q \in Databases /\ DOMAIN q.rows = {}
  BY <1>5, CheckpointRows
<1> HIDE DEF q
<1>7. CASE ReplayComments(d, rejected) /\ canReserve(client)
  BY <1>2, <1>7, ReplaySafe
<1>8. CASE ReplayComments(d, missing) /\ canReserve(client)
  BY <1>3, <1>8, ReplaySafe
<1>9. CASE (db' = d \/ db' = q) /\ UNCHANGED <<client, link, ids>>
  <2>1. Consistent(client, db', e, server.stored, ids)
    BY <1>6, <1>9, LedgerConsistent
  <2>2. Follows(db, db', ids)
    BY <1>6, <1>9 DEF Follows
  <2>3. QED
    BY <1>9, <2>1, <2>2, DesktopSafe DEF DeliveryInv
<1>10. QED
  BY <1>4, <1>7, <1>8, <1>9

\* #recover.
LEMMA RecoverSafe ==
  ASSUME DeliveryInv, Recover
  PROVE  Safe
<1> DEFINE d == retried(db)
           t == checkpointDismissed(d)
           s == mergeSuppressions(d, suppressed)
<1>1. /\ client.status \notin Over /\ UNCHANGED <<server, peer>>
      /\ \/ early' = <<>> /\ RecoverIntent(t, s)
         \/ early' = <<>> /\ db' = t /\ UNCHANGED <<client, link, ids>>
         \/ UNCHANGED <<client, link, ids, early, db>>
  BY DEF Recover, active, Over
<1>2. Consistent(client, t, <<>>, server.stored, ids) /\ Follows(db, t, ids)
  BY RetriedSafe
<1> HIDE DEF d, t, s
<1>3. CASE early' = <<>> /\ RecoverIntent(t, s)
  BY <1>1, <1>2, <1>3, RecoverIntentSafe
<1>4. CASE early' = <<>> /\ db' = t /\ UNCHANGED <<client, link, ids>>
  <2>1. Consistent(client', db', early', server.stored, ids') /\ Follows(db, db', ids)
    BY <1>2, <1>4
  <2>2. QED
    BY <1>1, <1>4, <2>1, DesktopSafe DEF DeliveryInv
<1>5. CASE UNCHANGED <<client, link, ids, early, db>>
  BY <1>1, <1>5, UnchangedFollows, DesktopSafe DEF DeliveryInv
<1>6. QED
  BY <1>1, <1>3, <1>4, <1>5

\* #checkpoint.
LEMMA CheckpointSafe ==
  ASSUME DeliveryInv, Checkpoint
  PROVE  Safe
<1> DEFINE q == checkpointCollaborationSyncState(db, effectiveSnapshot)
           id == recoverCollaborationSyncState(db).id
<1>1. /\ db' = q /\ (early' = early \/ early' = without(early, id))
      /\ UNCHANGED <<client, server, link, peer, ids>>
  BY DEF Checkpoint, counters
<1>2. /\ Consistent(client, db, early, server.stored, ids) /\ client.doc \subseteq Comments
      /\ early \in Retained
  BY DEF DeliveryInv, Consistent, Sessions
<1>3. effectiveSnapshot \in SUBSET Comments
  BY <1>2 DEF effectiveSnapshot
<1>4. q \in Databases /\ DOMAIN q.rows = {}
  BY <1>3, CheckpointRows
<1> HIDE DEF q, id
<1>5. Consistent(client, q, early, server.stored, ids)
  BY <1>2, <1>4, LedgerConsistent
<1>6. early' \in Retained /\ DOMAIN early' \subseteq DOMAIN early
  <2>1. without(early, id) \in Retained /\ DOMAIN without(early, id) \subseteq DOMAIN early
    <3>1. early \in Partial(Verdicts)
      BY <1>2 DEF Retained
    <3>2. without(early, id) \in Partial(Verdicts) /\ DOMAIN without(early, id) = DOMAIN early \ {id}
      BY <3>1, WithoutEntry
    <3>3. QED
      BY <3>2 DEF Retained
  <2>2. QED
    BY <1>1, <1>2, <2>1
<1>7. Consistent(client, q, early', server.stored, ids)
  BY <1>4, <1>5, <1>6, EmptyLedgerConsistent
<1>8. Follows(db, db', ids)
  BY <1>1, <1>4 DEF Follows
<1>9. QED
  BY <1>1, <1>7, <1>8, DesktopSafe DEF DeliveryInv

\* #discardRejectedComment.
LEMMA DiscardSafe ==
  ASSUME DeliveryInv, DiscardRejectedComment
  PROVE  Safe
<1> DEFINE r == retried(db)
           none == <<>>
<1>1. PICK e \in activeRejected(r) :
        db' = checkpointDismissed(discardRejectedCollaborationComment(r, e))
  BY DEF DiscardRejectedComment
<1> DEFINE d == discardRejectedCollaborationComment(r, e)
<1>2. early' = none /\ UNCHANGED <<client, server, link, peer, ids>>
  BY DEF DiscardRejectedComment, counters
<1>3. Consistent(client, r, none, server.stored, ids) /\ Follows(db, r, ids)
  BY RetriedSafe
<1> HIDE DEF r, none
<1>4. r \in Databases /\ ids \in Nat /\ DOMAIN r.rows \subseteq 1..ids
  BY <1>3 DEF Consistent
<1>5. e \in Own \X Nat
  BY <1>1, <1>4, QuarantineTypes
<1>6. d \in Databases /\ d.rows = r.rows
  BY <1>4, <1>5, DiscardRows
<1> HIDE DEF d
<1>7. db' \in Databases /\ (db' = d \/ DOMAIN db'.rows = {})
  <2>1. db' = checkpointDismissed(d) /\ DOMAIN d.rows \subseteq 1..ids
    BY <1>1, <1>4, <1>6 DEF d
  <2>2. QED
    BY <1>4, <1>6, <2>1, DismissedRows
<1>8. Consistent(client, d, none, server.stored, ids)
  BY <1>3, <1>6, LedgerConsistent
<1>9. Consistent(client, db', none, server.stored, ids)
  BY <1>7, <1>8, LedgerConsistent
<1>10. Follows(db, db', ids)
  BY <1>3, <1>6, <1>7 DEF Follows
<1>11. QED
  BY <1>2, <1>9, <1>10, DesktopSafe DEF DeliveryInv
\* Steps of the server and the other member: what is stored only grows.
LEMMA ServerSafe ==
  ASSUME DeliveryInv, ServerOK', server.stored \subseteq server'.stored,
         UNCHANGED <<early, db, ids>>, peer' \subseteq Foreign,
         Consistent(client', db, early, server.stored, ids), Linked(link', server'.stored),
         link'.up => client'.status \notin Over
  PROVE  Safe
<1>1. Consistent(client', db, early, server'.stored, ids)
  BY StoredConsistent
<1>2. QED
  BY <1>1, UnchangedFollows DEF DeliveryInv, Safe

\* The document grows, or is stored, or a message is answered.
LEMMA ServerHandlesSafe ==
  ASSUME DeliveryInv, ServerHandles
  PROVE  Safe
<1> DEFINE m == Head(link.toServer)
           included == m.vector \subseteq server.doc
           reply == answer(IF included THEN "acknowledged" ELSE "rejected", m)
           q == Append(handled.toClient, reply)
<1>1. /\ link.up /\ link.toServer # <<>> /\ UNCHANGED <<early, db, peer, ids>>
      /\ \/ Dropped /\ UNCHANGED server
         \/ /\ m.type = "update" /\ server' = [server EXCEPT !.doc = @ \cup m.ops]
            /\ link' = handled /\ UNCHANGED client
         \/ /\ server' = IF included THEN [server EXCEPT !.stored = server.doc] ELSE server
            /\ link' = clientQueue(handled, q) /\ UNCHANGED client
  BY DEF ServerHandles, counters, clientQueue
<1>2. Linked(handled, server.stored) /\ handled.up = link.up /\ honest(m, {})
  BY <1>1, HandledLinked DEF DeliveryInv
<1>3. /\ ServerOK /\ peer' \subseteq Foreign /\ Consistent(client, db, early, server.stored, ids)
      /\ client.status \notin Over
  BY <1>1 DEF DeliveryInv
<1>4. CASE Dropped /\ UNCHANGED server
  <2>1. Consistent(client', db, early, server.stored, ids) /\ link' = DownLink
    BY <1>1, <1>4, DroppedConsistent
  <2>2. QED
    BY <1>1, <1>4, <2>1, DownLinked, UnchangedFollows, DesktopSafe
<1>5. CASE /\ m.type = "update" /\ server' = [server EXCEPT !.doc = @ \cup m.ops]
           /\ link' = handled /\ UNCHANGED client
  <2>1. m.ops \subseteq Comments
    BY <1>2, <1>5 DEF honest
  <2> HIDE DEF m
  <2>2. ServerOK' /\ server'.stored = server.stored
    BY <1>3, <1>5, <2>1 DEF ServerOK
  <2>3. QED
    BY <1>1, <1>2, <1>3, <1>5, <2>2, ServerSafe
<1>6. CASE /\ server' = IF included THEN [server EXCEPT !.stored = server.doc] ELSE server
           /\ link' = clientQueue(handled, q) /\ UNCHANGED client
  <2>1. /\ ServerOK' /\ server.stored \subseteq server'.stored
        /\ included => server'.stored = server.doc
    BY <1>3, <1>6 DEF ServerOK
  <2>2. honest(reply, server'.stored)
    BY <2>1 DEF honest, answer
  <2>3. Linked(handled, server'.stored)
    BY <1>2, <2>1, LinkStored
  <2> HIDE DEF reply
  <2>4. queue(q, server'.stored)
    BY <2>2, <2>3, QueueGrows DEF Linked
  <2> HIDE DEF q
  <2>5. Linked(link', server'.stored) /\ link'.up = link.up
    BY <1>2, <1>6, <2>3, <2>4, LinkChanged
  <2>6. QED
    BY <1>1, <1>3, <1>6, <2>1, <2>5, ServerSafe
<1>7. QED
  BY <1>1, <1>4, <1>5, <1>6

\* The debounced write, a removal, and a restart from what is stored.
LEMMA ServerAloneSafe ==
  ASSUME DeliveryInv, ServerStores \/ Revoke \/ ServerCrash
  PROVE  Safe
<1>1. /\ UNCHANGED <<early, db, peer, ids>>
      /\ \/ server' = [server EXCEPT !.stored = server.doc]
         \/ server' = [server EXCEPT !.doc = server.stored]
         \/ server' = [server EXCEPT !.member = FALSE]
      /\ UNCHANGED <<client, link>> \/ (link.up /\ Dropped)
  BY DEF ServerStores, Revoke, ServerCrash, counters
<1>2. /\ ServerOK /\ peer' \subseteq Foreign /\ Consistent(client, db, early, server.stored, ids)
      /\ Linked(link, server.stored)
  BY <1>1 DEF DeliveryInv
<1>3. ServerOK' /\ server.stored \subseteq server'.stored
  BY <1>1, <1>2 DEF ServerOK
<1>4. CASE UNCHANGED <<client, link>>
  <2>1. Linked(link', server'.stored)
    BY <1>2, <1>3, <1>4, LinkStored
  <2>2. QED
    BY <1>1, <1>2, <1>3, <1>4, <2>1, ServerSafe DEF DeliveryInv
<1>5. CASE link.up /\ Dropped
  <2>1. Consistent(client', db, early, server.stored, ids) /\ link' = DownLink
    BY <1>5, DroppedConsistent
  <2>2. QED
    BY <1>1, <1>2, <1>3, <2>1, DownLinked, ServerSafe
<1>6. QED
  BY <1>1, <1>4, <1>5

\* Comments of another member.
LEMMA PeerSendsSafe ==
  ASSUME DeliveryInv, NEW comments \in SUBSET Foreign, PeerSends(comments)
  PROVE  Safe
<1> DEFINE m == [type |-> "update", ops |-> comments]
           q == Append(link.toClient, m)
<1>1. /\ peer' = peer \cup comments /\ server' = [server EXCEPT !.doc = @ \cup comments]
      /\ link' = link \/ link' = clientQueue(link, q)
      /\ UNCHANGED <<client, early, db, ids>>
  BY DEF PeerSends, counters, clientQueue
<1>2. /\ ServerOK /\ peer' \subseteq Foreign /\ Consistent(client, db, early, server.stored, ids)
      /\ Linked(link, server.stored)
  BY <1>1 DEF DeliveryInv
<1>3. ServerOK' /\ server'.stored = server.stored
  BY <1>1, <1>2 DEF ServerOK, Comments
<1>4. honest(m, server.stored)
  BY DEF honest, Comments
<1> HIDE DEF m
<1>5. queue(q, server.stored)
  BY <1>2, <1>4, QueueGrows DEF Linked
<1> HIDE DEF q
<1>6. Linked(link', server.stored) /\ link'.up = link.up
  BY <1>1, <1>2, <1>5, LinkChanged
<1>7. QED
  BY <1>1, <1>2, <1>3, <1>6, ServerSafe DEF DeliveryInv

-----------------------------------------------------------------------------
(* The theorems *)

\* Every step of the desktop, the server and the other member keeps the invariant, and
\* changes no settlement.
LEMMA StepSafe ==
  ASSUME DeliveryInv, DeliveryNext
  PROVE  Safe
<1>1. CASE Join BY <1>1, JoinSafe
<1>2. CASE Connect BY <1>2, ConnectSafe
<1>3. CASE JoinTimeout \/ Leave \/ DesktopCrash BY <1>3, EndSafe
<1>4. CASE Disconnect BY <1>4, DisconnectSafe
<1>5. CASE HandleStateless BY <1>5, HandleStatelessSafe
<1>6. CASE HandleSynced BY <1>6, HandleSyncedSafe
<1>7. CASE HandleUpdate BY <1>7, HandleUpdateSafe
<1>8. CASE \E id \in DOMAIN client.pending : ExpireDelivery(id) BY <1>8, ExpireDeliverySafe
<1>9. CASE \E c \in Own : CreateComment(c) BY <1>9, CreateCommentSafe
<1>10. CASE Recover BY <1>10, RecoverSafe
<1>11. CASE Checkpoint BY <1>11, CheckpointSafe
<1>12. CASE DiscardRejectedComment BY <1>12, DiscardSafe
<1>13. CASE ServerHandles BY <1>13, ServerHandlesSafe
<1>14. CASE ServerStores \/ Revoke \/ ServerCrash BY <1>14, ServerAloneSafe
<1>15. CASE PeerComments \/ PeerResyncs
  <2>1. PICK comments \in SUBSET Foreign : PeerSends(comments)
    BY <1>15 DEF PeerComments, PeerResyncs, DeliveryInv
  <2>2. QED
    BY <2>1, PeerSendsSafe
<1>16. QED
  BY <1>1, <1>2, <1>3, <1>4, <1>5, <1>6, <1>7, <1>8, <1>9, <1>10, <1>11, <1>12, <1>13,
     <1>14, <1>15 DEF DeliveryNext

\* The initial state satisfies the invariant.
LEMMA InitSafe == DeliveryInit => DeliveryInv
<1> SUFFICES ASSUME DeliveryInit PROVE DeliveryInv
  OBVIOUS
<1> DEFINE none == <<>>
<1>1. none \in Partial(Rows) /\ none \in Retained /\ DOMAIN none = {}
  BY NoEntry DEF Retained
<1>2. /\ client = NoSession /\ early = none /\ link = DownLink /\ peer = {} /\ ids = 0
      /\ db = [rows |-> none, kept |-> FALSE, snapshot |-> {}, dismissals |-> {}]
      /\ server = [doc |-> {}, stored |-> {}, member |-> TRUE]
  BY DEF DeliveryInit, EmptyDatabase
<1> HIDE DEF none
<1>3. Idle(client, "none", 0) /\ client.joining = FALSE
  <2>1. 0 \in Nat
    OBVIOUS
  <2>2. QED
    BY <1>2, <2>1, IdleSessions
<1>4. db \in Databases /\ DOMAIN db.rows = {}
  BY <1>1, <1>2 DEF Databases
<1>5. Cardinality({}) = 0 /\ MaxPending \in Nat /\ MaxRows \in Nat
  BY FS_EmptySet, DeliveryAssumption, LedgerAssumption
<1>6. Consistent(client, db, early, server.stored, ids)
  BY <1>1, <1>2, <1>3, <1>4, <1>5 DEF Consistent, Idle, Over
<1>7. ServerOK
  BY <1>2 DEF ServerOK
<1>8. QED
  BY <1>2, <1>6, <1>7, DownLinked DEF DeliveryInv

\* Session, ledger and retained settlements agree in every reachable state: what
\* client.ts, ipc.ts and the server's onStateless keep between them.
THEOREM DeliveryInvariance == DeliverySpec => []DeliveryInv
<1>1. DeliveryInv /\ [DeliveryNext]_deliveryVars => DeliveryInv'
  <2>1. SUFFICES ASSUME DeliveryInv, [DeliveryNext]_deliveryVars PROVE DeliveryInv'
    OBVIOUS
  <2>2. CASE DeliveryNext
    BY <2>1, <2>2, StepSafe DEF Safe
  <2>3. CASE UNCHANGED deliveryVars
    BY <2>1, <2>3 DEF deliveryVars, DeliveryInv, ServerOK
  <2>4. QED
    BY <2>1, <2>2, <2>3
<1>2. QED
  BY <1>1, InitSafe, PTL DEF DeliverySpec

\* Types, the limit of the deliveries a session may wait for (client.ts
\* MAX_PENDING_DELIVERIES) and the limit of the ledger
\* (COLLABORATION_SYNC_MAX_DELIVERIES_PER_SCOPE) hold in every reachable state.
THEOREM DeliveryTypesHold == DeliverySpec => []DeliveryTypeOK
<1>1. DeliveryInv => DeliveryTypeOK
  <2>1. SUFFICES ASSUME DeliveryInv PROVE DeliveryTypeOK
    OBVIOUS
  <2>2. /\ client \in Sessions /\ db \in Databases /\ early \in Retained
        /\ DOMAIN client.pending \subseteq 1..ids
        /\ Cardinality(DOMAIN client.pending) <= MaxPending /\ Cardinality(DOMAIN db.rows) <= MaxRows
    BY <2>1 DEF DeliveryInv, Consistent
  <2>3. \A i \in DOMAIN db.rows : db.rows[i] \in Rows
    BY <2>2, DatabaseRows
  <2>4. \A i \in DOMAIN early : early[i] \in Verdicts
    BY <2>2, PartialFunctions DEF Retained
  <2>5. client.status \in Statuses /\ client.doc \subseteq Comments
    BY <2>2 DEF Sessions
  <2>6. server.doc \subseteq Comments /\ server.stored \subseteq server.doc
    BY <2>1 DEF DeliveryInv, ServerOK
  <2>7. QED
    BY <2>2, <2>3, <2>4, <2>5, <2>6 DEF DeliveryTypeOK, Rows, Verdicts, Statuses, Over
<1>2. QED
  BY <1>1, DeliveryInvariance, PTL

\* What the desktop calls acknowledged, in the ledger or in a settlement it could not
\* store yet, is in the server's database: through reconnections, late answers, restarts
\* of either side and checkpoints of the ledger.
THEOREM AcknowledgedStaysDurable == DeliverySpec => []AcknowledgedIsDurable
<1>1. DeliveryInv => AcknowledgedIsDurable
  BY DEF DeliveryInv, Consistent, RowOK, AcknowledgedIsDurable, Settled
<1>2. QED
  BY <1>1, DeliveryInvariance, PTL

\* A running session forgets no delivery of its own.
THEOREM DeliveriesRemembered == DeliverySpec => []NoDeliveryForgotten
<1>1. DeliveryInv => NoDeliveryForgotten
  BY DEF DeliveryInv, Consistent, RowOK, NoDeliveryForgotten, Settled, Over
<1>2. QED
  BY <1>1, DeliveryInvariance, PTL

\* No answer, timer, retry, checkpoint or replay changes a settlement in the ledger.
THEOREM SettlementsStay == DeliverySpec => SettlementsAreFinal
<1> DEFINE A == \A i \in DOMAIN db.rows \cap DOMAIN db'.rows :
                  db.rows[i].disposition # "sent" => db'.rows[i].disposition = db.rows[i].disposition
<1>1. ASSUME DeliveryInv, [DeliveryNext]_deliveryVars PROVE [A]_deliveryVars
  <2>1. CASE DeliveryNext
    <3>1. Follows(db, db', ids) /\ DOMAIN db.rows \subseteq 1..ids
      BY <1>1, <2>1, StepSafe DEF Safe, DeliveryInv, Consistent
    <3>2. A
      BY <3>1 DEF Follows
    <3>3. QED
      BY <3>2
  <2>2. CASE UNCHANGED deliveryVars
    BY <2>2
  <2>3. QED
    BY <1>1, <2>1, <2>2
<1>2. QED
  BY <1>1, DeliveryInvariance, PTL DEF DeliverySpec, SettlementsAreFinal

-----------------------------------------------------------------------------
(* No comment is lost                                                      *)
(*                                                                         *)
(* A comment that is neither stored, discarded nor overtaken is in the     *)
(* newest delivery of the ledger, and never in the baseline of the oldest. *)

\* The own comments of a set are among those of M.
Written(S, M) == S \cap Own \subseteq M

\* The ledger of d: dismissed comments are among G, comments among M, and those of K are
\* carried by the newest delivery and not taken for shared by the oldest one.
LedgerKeeps(d, K, M, G) ==
  /\ commentsOf(d.dismissals) \subseteq G
  /\ \A i \in DOMAIN d.rows : Written(d.rows[i].baseline, M) /\ Written(d.rows[i].candidate, M)
  /\ \A c \in K : /\ DOMAIN d.rows # {} /\ c \in d.rows[Max(DOMAIN d.rows)].candidate
                  /\ c \notin d.rows[Min(DOMAIN d.rows)].baseline

\* The comments that are nowhere but on the desktop.
unstored == (created \ (discarded \cup overtaken)) \ server.stored

writes(m, M) == m.type \in {"sync", "update"} => Written(m.ops, M)
writtenQueue(q, M) == \E S : q \in Seq(S) /\ \A m \in S : writes(m, M)
RoomWritten(c, s, l, M) ==
  /\ Written(c.doc, M) /\ Written(s.doc, M)
  /\ writtenQueue(l.toServer, M) /\ writtenQueue(l.toClient, M)

IntentInv ==
  /\ created \subseteq Own /\ LedgerKeeps(db, unstored, created, discarded)
  /\ RoomWritten(client, server, link, created)

\* Fewer comments to carry, more of them written and discarded.
LEMMA LedgerWeaker ==
  ASSUME NEW d, NEW K, NEW M, NEW G, LedgerKeeps(d, K, M, G),
         NEW L \in SUBSET K, NEW N, M \subseteq N, NEW H, G \subseteq H
  PROVE  LedgerKeeps(d, L, N, H)
  BY DEF LedgerKeeps, Written

\* The newest and the oldest delivery of a ledger.
LEMMA NewestOldest ==
  ASSUME NEW n \in Nat, NEW S \in SUBSET (1..n), S # {}
  PROVE  /\ Max(S) \in S /\ \A y \in S : y <= Max(S)
         /\ Min(S) \in S /\ \A y \in S : Min(S) <= y
<1>1. S \in SUBSET (0..n) /\ S \in SUBSET Nat
  OBVIOUS
<1>2. Max(S) \in S /\ \A y \in S : Max(S) >= y
  BY <1>1, GreatestNatural
<1>3. Min(S) \in S /\ \A y \in S : Min(S) <= y
  BY <1>1, LeastNatural
<1>4. \A x \in S, y \in S : x >= y => y <= x
  OBVIOUS
<1>5. QED
  BY <1>2, <1>3, <1>4

\* A database with the same deliveries, settled or not.
LEMMA SameDeliveries ==
  ASSUME NEW n \in Nat, NEW d, DOMAIN d.rows \subseteq 1..n,
         NEW K, NEW M, NEW G, LedgerKeeps(d, K, M, G),
         NEW q, DOMAIN q.rows = DOMAIN d.rows, commentsOf(q.dismissals) \subseteq G,
         \A i \in DOMAIN d.rows : /\ q.rows[i].baseline = d.rows[i].baseline
                                  /\ q.rows[i].candidate = d.rows[i].candidate
  PROVE  LedgerKeeps(q, K, M, G)
<1>1. \A i \in DOMAIN q.rows : Written(q.rows[i].baseline, M) /\ Written(q.rows[i].candidate, M)
  BY DEF LedgerKeeps
<1>2. ASSUME NEW c \in K
      PROVE  /\ DOMAIN q.rows # {} /\ c \in q.rows[Max(DOMAIN q.rows)].candidate
             /\ c \notin q.rows[Min(DOMAIN q.rows)].baseline
  <2> DEFINE D == DOMAIN d.rows
  <2>1. D # {} /\ c \in d.rows[Max(D)].candidate /\ c \notin d.rows[Min(D)].baseline
    BY DEF LedgerKeeps
  <2>2. Max(D) \in DOMAIN d.rows /\ Min(D) \in DOMAIN d.rows
    BY <2>1, NewestOldest
  <2>3. DOMAIN q.rows = D
    OBVIOUS
  <2> HIDE DEF D
  <2>4. QED
    BY <2>1, <2>2, <2>3
<1>3. QED
  BY <1>1, <1>2 DEF LedgerKeeps

\* Settlements change no delivery.
LEMMA SettlementKeeps ==
  ASSUME NEW n \in Nat, NEW d \in Databases, DOMAIN d.rows \subseteq 1..n,
         NEW K, NEW M, NEW G, LedgerKeeps(d, K, M, G)
  PROVE  /\ \A id \in Deliveries, disposition \in Verdicts :
              LedgerKeeps(settleCollaborationSyncDelivery(d, id, disposition), K, M, G)
         /\ early \in Retained => LedgerKeeps(retried(d), K, M, G)
<1>1. commentsOf(d.dismissals) \subseteq G
  BY DEF LedgerKeeps
<1>2. ASSUME NEW id \in Deliveries, NEW disposition \in Verdicts
      PROVE  LedgerKeeps(settleCollaborationSyncDelivery(d, id, disposition), K, M, G)
  <2> DEFINE q == settleCollaborationSyncDelivery(d, id, disposition)
  <2>1. /\ DOMAIN q.rows = DOMAIN d.rows /\ q.dismissals = d.dismissals
        /\ id \in DOMAIN d.rows => /\ q.rows[id].candidate = d.rows[id].candidate
                                   /\ q.rows[id].baseline = d.rows[id].baseline
        /\ \A i \in DOMAIN d.rows \ {id} : q.rows[i] = d.rows[i]
    BY SettledRow
  <2> HIDE DEF q
  <2>2. \A i \in DOMAIN d.rows : /\ q.rows[i].baseline = d.rows[i].baseline
                                 /\ q.rows[i].candidate = d.rows[i].candidate
    BY <2>1
  <2>3. LedgerKeeps(q, K, M, G)
    BY <1>1, <2>1, <2>2, SameDeliveries
  <2>4. QED
    BY <2>3 DEF q
<1>3. ASSUME early \in Retained PROVE LedgerKeeps(retried(d), K, M, G)
  <2> DEFINE q == retried(d)
  <2>1. /\ DOMAIN q.rows = DOMAIN d.rows /\ q.dismissals = d.dismissals
        /\ \A i \in DOMAIN d.rows : /\ q.rows[i].candidate = d.rows[i].candidate
                                    /\ q.rows[i].baseline = d.rows[i].baseline
    BY <1>3, RetriedRows
  <2> HIDE DEF q
  <2>2. LedgerKeeps(q, K, M, G)
    BY <1>1, <2>1, SameDeliveries
  <2>3. QED
    BY <2>2 DEF q
<1>4. QED
  BY <1>2, <1>3

\* The recovery state carries what the ledger keeps, and a checkpointed ledger nothing.
LEMMA RecoveryKeeps ==
  ASSUME NEW n \in Nat, NEW d \in Databases, DOMAIN d.rows \subseteq 1..n,
         NEW K, NEW M, NEW G, LedgerKeeps(d, K, M, G), K \cap G = {}
  PROVE  LET recovery == recoverCollaborationSyncState(d) IN
         /\ DOMAIN d.rows = {} => K = {}
         /\ K \subseteq recovery.pending /\ K \subseteq effectiveCollaborationSyncPending(d)
         /\ recovery.disposition \in {"none", "synchronized"} <=> DOMAIN d.rows = {}
         /\ DOMAIN d.rows # {} =>
              /\ Written(recovery.baseline, M) /\ Written(recovery.pending, M)
              /\ recovery.id \in DOMAIN d.rows
              /\ recovery.pending = d.rows[recovery.id].candidate
              /\ recovery.disposition = d.rows[recovery.id].disposition
              /\ \/ recovery.baseline = d.rows[Min(DOMAIN d.rows)].baseline
                 \/ \E i \in Settled(d, "acknowledged") : recovery.baseline = d.rows[i].candidate
<1> DEFINE recovery == recoverCollaborationSyncState(d)
           D == DOMAIN d.rows
           acked == Settled(d, "acknowledged")
<1>1. D = {} => K = {}
  BY DEF LedgerKeeps
<1>2. K \cap commentsOf(dismissedRejected(d)) = {}
  BY DEF LedgerKeeps, commentsOf, dismissedRejected, isDismissed
<1>3. CASE D = {}
  <2>1. recovery.disposition \in {"none", "synchronized"}
    BY <1>3 DEF recoverCollaborationSyncState
  <2>2. QED
    BY <1>1, <1>3, <2>1
<1>4. CASE D # {}
  <2>1. recovery = projectDeliveryLedger(d)
    BY <1>4 DEF recoverCollaborationSyncState
  <2>2. Max(D) \in D /\ Min(D) \in D
    BY <1>4, NewestOldest
  <2>3. acked # {} => Max(acked) \in acked
    <3>1. acked \in SUBSET (1..n)
      BY DEF Settled
    <3>2. QED
      BY <3>1, NewestOldest
  <2>4. /\ recovery.id = Max(D) /\ recovery.pending = d.rows[Max(D)].candidate
        /\ recovery.disposition = d.rows[Max(D)].disposition
        /\ recovery.baseline = IF acked = {} THEN d.rows[Min(D)].baseline ELSE d.rows[Max(acked)].candidate
    BY <2>1 DEF projectDeliveryLedger
  <2>5. d.rows[Max(D)].disposition \in Dispositions
    BY <2>2, DatabaseRows
  <2>6. acked \subseteq D
    BY DEF Settled
  <2>7. K \subseteq recovery.pending
    BY <2>4 DEF LedgerKeeps
  <2>8. K \subseteq effectiveCollaborationSyncPending(d)
    BY <1>2, <2>7 DEF effectiveCollaborationSyncPending
  <2> HIDE DEF recovery, acked, D
  <2>9. /\ Written(recovery.baseline, M) /\ Written(recovery.pending, M)
    BY <2>2, <2>3, <2>4, <2>6 DEF LedgerKeeps, D
  <2>10. \/ recovery.baseline = d.rows[Min(D)].baseline
         \/ \E i \in acked : recovery.baseline = d.rows[i].candidate
    BY <2>3, <2>4
  <2>11. recovery.disposition \notin {"none", "synchronized"}
    BY <2>4, <2>5 DEF Dispositions
  <2>12. QED
    BY <1>4, <2>2, <2>4, <2>7, <2>8, <2>9, <2>10, <2>11 DEF recovery, D, acked
<1>5. QED
  BY <1>3, <1>4

\* A ledger that was checkpointed.
LEMMA CheckpointKeeps ==
  ASSUME NEW d, NEW snapshot \in SUBSET Comments, NEW M, NEW G
  PROVE  LedgerKeeps(checkpointCollaborationSyncState(d, snapshot), {}, M, G)
<1> DEFINE q == checkpointCollaborationSyncState(d, snapshot)
<1>1. DOMAIN q.rows = {} /\ q.dismissals = {}
  BY CheckpointRows
<1> HIDE DEF q
<1>2. LedgerKeeps(q, {}, M, G)
  BY <1>1 DEF LedgerKeeps, commentsOf
<1>3. QED
  BY <1>2 DEF q

\* When the newest delivery was acknowledged nothing is left to carry.
LEMMA NothingLeft ==
  ASSUME NEW n \in Nat, NEW d \in Databases, DOMAIN d.rows \subseteq 1..n,
         NEW K, NEW M, NEW G, LedgerKeeps(d, K, M, G), K \cap G = {},
         NEW stored, K \cap stored = {},
         \/ recoverCollaborationSyncState(d).disposition \in {"none", "synchronized"}
         \/ recoverCollaborationSyncState(d).id \in DOMAIN d.rows =>
              d.rows[recoverCollaborationSyncState(d).id].candidate \subseteq stored
  PROVE  K = {}
<1> DEFINE recovery == recoverCollaborationSyncState(d)
<1>1. /\ DOMAIN d.rows = {} => K = {}
      /\ K \subseteq recovery.pending
      /\ recovery.disposition \in {"none", "synchronized"} => DOMAIN d.rows = {}
      /\ DOMAIN d.rows # {} => /\ recovery.id \in DOMAIN d.rows
                               /\ recovery.pending = d.rows[recovery.id].candidate
  BY RecoveryKeeps
<1> HIDE DEF recovery
<1>2. CASE DOMAIN d.rows = {}
  BY <1>1, <1>2
<1>3. CASE DOMAIN d.rows # {}
  <2>1. recovery.pending \subseteq stored
    BY <1>1, <1>3 DEF recovery
  <2>2. QED
    BY <1>1, <2>1
<1>4. QED
  BY <1>2, <1>3

\* Nothing is left either where the dismissed comments were all there was.
LEMMA DismissedKeeps ==
  ASSUME NEW n \in Nat, NEW d \in Databases, DOMAIN d.rows \subseteq 1..n,
         NEW K, NEW M, NEW G, LedgerKeeps(d, K, M, G), K \cap G = {},
         NEW stored, K \cap stored = {},
         \A i \in Settled(d, "acknowledged") : d.rows[i].candidate \subseteq stored
  PROVE  LedgerKeeps(checkpointDismissed(d), K, M, G)
<1> DEFINE recovery == recoverCollaborationSyncState(d)
           base == recovery.baseline
           q == checkpointCollaborationSyncState(d, base)
<1>1. CASE checkpointDismissed(d) = d
  BY <1>1
<1>2. CASE checkpointDismissed(d) = q /\ collaborationRecoveryHasNoLocalIntent(d)
  <2>1. base \in SUBSET Comments
    BY RecoveryTypes
  <2>2. K \subseteq base
    BY <1>2, RecoveryKeeps DEF collaborationRecoveryHasNoLocalIntent
  <2>3. DOMAIN d.rows # {} => K \cap base = {}
    <3>1. SUFFICES ASSUME DOMAIN d.rows # {} PROVE K \cap base = {}
      OBVIOUS
    <3>2. \/ base = d.rows[Min(DOMAIN d.rows)].baseline
          \/ \E i \in Settled(d, "acknowledged") : base = d.rows[i].candidate
      BY <3>1, RecoveryKeeps
    <3> HIDE DEF base
    <3>3. CASE base = d.rows[Min(DOMAIN d.rows)].baseline
      BY <3>3 DEF LedgerKeeps
    <3>4. CASE \E i \in Settled(d, "acknowledged") : base = d.rows[i].candidate
      BY <3>4
    <3>5. QED
      BY <3>2, <3>3, <3>4
  <2>4. DOMAIN d.rows = {} => K = {}
    BY DEF LedgerKeeps
  <2>5. K = {}
    BY <2>2, <2>3, <2>4
  <2> HIDE DEF base
  <2>6. LedgerKeeps(q, {}, M, G)
    BY <2>1, CheckpointKeeps
  <2> HIDE DEF q
  <2>7. QED
    BY <1>2, <2>5, <2>6
<1>3. QED
  BY <1>1, <1>2 DEF checkpointDismissed

\* A comment is dismissed.
LEMMA DiscardKeeps ==
  ASSUME NEW n \in Nat, NEW d \in Databases, DOMAIN d.rows \subseteq 1..n,
         NEW K, NEW M, NEW G, LedgerKeeps(d, K, M, G), NEW e \in Own \X Nat
  PROVE  LedgerKeeps(discardRejectedCollaborationComment(d, e), K, M, G \cup {e[1]})
<1> DEFINE q == discardRejectedCollaborationComment(d, e)
           H == G \cup {e[1]}
<1>1. q.rows = d.rows /\ q.dismissals = d.dismissals \cup {e}
  BY DiscardRows
<1>2. commentsOf(q.dismissals) \subseteq H
  BY <1>1 DEF LedgerKeeps, commentsOf
<1>3. LedgerKeeps(d, K, M, H)
  BY LedgerWeaker
<1> HIDE DEF q, H
<1>4. LedgerKeeps(q, K, M, H)
  BY <1>1, <1>2, <1>3, SameDeliveries
<1>5. QED
  BY <1>4 DEF q, H

\* A delivery is staged over what is to be carried.
LEMMA StagingKeeps ==
  ASSUME NEW n \in Nat, NEW d \in Databases, DOMAIN d.rows \subseteq 1..n, NEW k, After(n, k),
         NEW baseline \in SUBSET Comments, NEW candidate \in SUBSET Comments,
         NEW K, NEW M, NEW G, LedgerKeeps(d, {}, M, G),
         Written(baseline, M), Written(candidate, M), K \subseteq candidate,
         DOMAIN d.rows = {} => K \cap baseline = {},
         DOMAIN d.rows # {} => K \cap d.rows[Min(DOMAIN d.rows)].baseline = {}
  PROVE  LedgerKeeps(stageCollaborationSyncDelivery(d, k, baseline, candidate), K, M, G)
<1> DEFINE q == stageCollaborationSyncDelivery(d, k, baseline, candidate)
           D == DOMAIN d.rows
           E == DOMAIN q.rows
<1>1. k \in Deliveries /\ baseline \in Snapshots /\ candidate \in Snapshots
  BY DEF Deliveries, After, Snapshots
<1>2. /\ E = D \cup {k} /\ q.dismissals = d.dismissals
      /\ q.rows[k].candidate = candidate /\ q.rows[k].baseline = baseline
      /\ \A i \in D \ {k} : q.rows[i] = d.rows[i]
  BY <1>1, StagedRow
<1>3. k \in Nat /\ k \notin D /\ \A i \in D : i < k
  BY DEF After
<1>4. E \in SUBSET (1..k) /\ E # {}
  BY <1>2, <1>3 DEF After
<1>5. /\ Max(E) \in E /\ \A y \in E : y <= Max(E)
      /\ Min(E) \in E /\ \A y \in E : Min(E) <= y
  BY <1>3, <1>4, NewestOldest
<1>6. Max(E) = k
  BY <1>2, <1>3, <1>4, <1>5
<1>7. D # {} => Min(E) = Min(D) /\ Min(D) \in D
  <2>1. SUFFICES ASSUME D # {} PROVE Min(E) = Min(D) /\ Min(D) \in D
    OBVIOUS
  <2>2. Min(D) \in D /\ \A y \in D : Min(D) <= y
    BY <2>1, NewestOldest
  <2>3. Min(E) \in 1..k /\ Min(D) \in 1..n /\ Min(D) < k /\ Min(E) <= Min(D)
    BY <1>2, <1>3, <1>4, <1>5, <2>2
  <2>4. Min(E) # k
    BY <1>3, <2>3
  <2>5. Min(D) <= Min(E)
    BY <1>2, <1>5, <2>2, <2>4
  <2>6. QED
    BY <2>2, <2>3, <2>5
<1>8. ASSUME NEW i \in E PROVE Written(q.rows[i].baseline, M) /\ Written(q.rows[i].candidate, M)
  BY <1>2 DEF LedgerKeeps
<1>9. ASSUME NEW c \in K PROVE c \in q.rows[Max(E)].candidate /\ c \notin q.rows[Min(E)].baseline
  <2>1. c \in q.rows[Max(E)].candidate
    BY <1>2, <1>6
  <2>2. CASE D = {}
    <3>1. Min(E) = k
      BY <1>2, <1>5, <2>2
    <3>2. QED
      BY <1>2, <2>1, <2>2, <3>1
  <2>3. CASE D # {}
    <3>1. q.rows[Min(E)] = d.rows[Min(D)]
      BY <1>2, <1>3, <1>7, <2>3
    <3>2. QED
      BY <2>1, <2>3, <3>1
  <2>4. QED
    BY <2>2, <2>3
<1>10. commentsOf(q.dismissals) \subseteq G
  BY <1>2 DEF LedgerKeeps
<1> HIDE DEF q
<1>11. QED
  <2>1. LedgerKeeps(q, K, M, G)
    BY <1>4, <1>8, <1>9, <1>10 DEF LedgerKeeps
  <2>2. QED
    BY <2>1 DEF q

-----------------------------------------------------------------------------
(* What travels holds no comment that was not written *)

\* Queues grow and shrink by messages that hold written comments, and stay so when more
\* is written.
LEMMA WrittenQueues ==
  ASSUME NEW q, NEW M, writtenQueue(q, M)
  PROVE  /\ \A m : writes(m, M) => writtenQueue(Append(q, m), M) /\ writtenQueue(<<m>>, M)
         /\ \A r : writtenQueue(r, M) => writtenQueue(q \o r, M)
         /\ q # <<>> => writes(Head(q), M) /\ writtenQueue(Tail(q), M)
         /\ \A N : M \subseteq N => writtenQueue(q, N)
<1>1. PICK S : q \in Seq(S) /\ \A x \in S : writes(x, M)
  BY DEF writtenQueue
<1>2. ASSUME NEW m, writes(m, M) PROVE writtenQueue(Append(q, m), M) /\ writtenQueue(<<m>>, M)
  <2>1. Append(q, m) \in Seq(S \cup {m}) /\ <<m>> \in Seq({m})
    BY <1>1
  <2>2. \A x \in S \cup {m} : writes(x, M)
    BY <1>1, <1>2
  <2>3. QED
    BY <2>1, <2>2 DEF writtenQueue
<1>3. ASSUME NEW r, writtenQueue(r, M) PROVE writtenQueue(q \o r, M)
  <2>1. PICK T : r \in Seq(T) /\ \A x \in T : writes(x, M)
    BY <1>3 DEF writtenQueue
  <2>2. q \in Seq(S \cup T) /\ r \in Seq(S \cup T)
    BY <1>1, <2>1
  <2>3. q \o r \in Seq(S \cup T)
    BY <2>2
  <2>4. \A x \in S \cup T : writes(x, M)
    BY <1>1, <2>1
  <2>5. QED
    BY <2>3, <2>4 DEF writtenQueue
<1>4. ASSUME q # <<>> PROVE writes(Head(q), M) /\ writtenQueue(Tail(q), M)
  <2>1. Head(q) \in S /\ Tail(q) \in Seq(S)
    BY <1>1, <1>4
  <2>2. QED
    BY <1>1, <2>1 DEF writtenQueue
<1>5. ASSUME NEW N, M \subseteq N PROVE writtenQueue(q, N)
  <2>1. \A x \in S : writes(x, N)
    BY <1>1, <1>5 DEF writes, Written
  <2>2. QED
    BY <1>1, <2>1 DEF writtenQueue
<1>6. QED
  BY <1>2, <1>3, <1>4, <1>5

\* An empty queue, and the confirmations that are sent again.
LEMMA SilentQueues ==
  ASSUME NEW M, NEW c, NEW n \in Nat, DOMAIN c.pending \subseteq 1..n
  PROVE  writtenQueue(<<>>, M) /\ writtenQueue(resent(c), M)
<1> DEFINE late == {j \in DOMAIN c.pending : ~c.pending[j].timer}
           size == Cardinality(late)
           which(k) == SetToSortSeq(late, <)[k]
           sent == [k \in 1..size |-> confirm(which(k), c.pending[which(k)].vector)]
           S == {sent[k] : k \in 1..size}
           none == {}
<1>1. size \in Nat
  <2>1. n \in Int /\ 1 \in Int
    OBVIOUS
  <2>2. IsFiniteSet(late)
    BY <2>1, FS_Interval, FS_Subset
  <2>3. QED
    BY <2>2, FS_CardinalityType
<1>2. resent(c) = sent \/ resent(c) = <<>>
  BY DEF resent
<1> HIDE DEF late, size, which
<1>3. sent \in Seq(S)
  BY <1>1
<1>4. ASSUME NEW k \in 1..size PROVE writes(sent[k], M)
  BY DEF writes, confirm
<1>5. \A m \in S : writes(m, M)
  BY <1>4
<1>6. <<>> \in Seq(none) /\ \A m \in none : writes(m, M)
  OBVIOUS
<1> HIDE DEF S, sent, none
<1>7. writtenQueue(sent, M) /\ writtenQueue(<<>>, M)
  BY <1>3, <1>5, <1>6 DEF writtenQueue
<1>8. QED
  BY <1>2, <1>7

\* The room when the connection is down.
LEMMA DownWritten ==
  ASSUME NEW c, NEW s, NEW M, Written(c.doc, M), Written(s.doc, M)
  PROVE  RoomWritten(c, s, DownLink, M)
<1> DEFINE none == <<>>
<1>1. writtenQueue(none, M)
  <2> DEFINE S == {}
  <2>1. none \in Seq(S) /\ \A m \in S : writes(m, M)
    OBVIOUS
  <2> HIDE DEF S, none
  <2>2. QED
    BY <2>1 DEF writtenQueue
<1>2. DownLink.toServer = none /\ DownLink.toClient = none
  BY DEF DownLink
<1> HIDE DEF none
<1>3. QED
  BY <1>1, <1>2 DEF RoomWritten

\* The session that ends, or goes on with its document.
LEMMA DocumentKept ==
  ASSUME NEW c \in Sessions
  PROVE  /\ completed(c).doc = c.doc /\ NoSession.doc = {} /\ failed(c).doc = {}
         /\ disconnected(c).doc \in {c.doc, {}}
<1>1. completed(c).doc = c.doc
  BY DEF completed, Sessions
<1>2. NoSession.doc = {} /\ failed(c).doc = {}
  BY DEF NoSession, failed
<1>3. disconnected(c).doc \in {c.doc, {}}
  BY <1>2 DEF disconnected, Sessions
<1>4. QED
  BY <1>1, <1>2, <1>3

-----------------------------------------------------------------------------
(* The actions lose no comment *)

\* What most steps leave alone; what is stored grows.
LEMMA RoomStep ==
  ASSUME IntentInv, UNCHANGED <<db, history>>, server.stored \subseteq server'.stored,
         RoomWritten(client', server', link', created)
  PROVE  IntentInv'
<1>1. /\ created' = created /\ discarded' = discarded /\ db' = db
      /\ unstored' \subseteq unstored
  BY DEF history, unstored
<1>2. LedgerKeeps(db, unstored', created, discarded)
  BY <1>1, LedgerWeaker DEF IntentInv
<1>3. QED
  BY <1>1, <1>2 DEF IntentInv

\* A connection is lost, or a session starts or ends.
LEMMA DownIntent ==
  ASSUME IntentInv, UNCHANGED <<db, history>>, server.stored \subseteq server'.stored,
         server'.doc \subseteq server.doc, client'.doc \in {client.doc, {}}, link' = DownLink
  PROVE  IntentInv'
<1>1. Written(client'.doc, created) /\ Written(server'.doc, created)
  BY DEF IntentInv, RoomWritten, Written
<1>2. RoomWritten(client', server', link', created)
  BY <1>1, DownWritten
<1>3. QED
  BY <1>2, RoomStep

\* The session starts, ends, or loses its connection.
LEMMA SessionIntent ==
  ASSUME DeliveryInv, IntentInv, Join \/ JoinTimeout \/ Leave \/ Disconnect \/ DesktopCrash
  PROVE  IntentInv'
<1>1. client \in Sessions
  BY DEF DeliveryInv, Consistent
<1>2. /\ UNCHANGED <<db, history, server>> /\ link' = DownLink
      /\ \/ client' = [NoSession EXCEPT !.status = "connecting", !.joining = TRUE, !.from = ids]
         \/ client' = NoSession \/ client' = failed(client) \/ client' = disconnected(client)
  BY DEF Join, JoinTimeout, Leave, Disconnect, DesktopCrash, Dropped, counters
<1>3. [NoSession EXCEPT !.status = "connecting", !.joining = TRUE, !.from = ids].doc = {}
  BY DEF NoSession
<1>4. client'.doc \in {client.doc, {}}
  BY <1>1, <1>2, <1>3, DocumentKept
<1>5. QED
  BY <1>2, <1>4, DownIntent

\* The transport connects.
LEMMA ConnectIntent ==
  ASSUME DeliveryInv, IntentInv, Connect
  PROVE  IntentInv'
<1>1. client \in Sessions /\ UNCHANGED <<db, history, server>>
  BY DEF DeliveryInv, Consistent, Connect
<1>2. RoomWritten(client, server, link, created)
  BY DEF IntentInv
<1>3. CASE server.member
  <2> DEFINE m == [type |-> "sync", ops |-> server.doc]
             q == <<m>>
             none == <<>>
  <2>1. client' = client /\ link' = [up |-> TRUE, toServer |-> none, toClient |-> q]
    BY <1>3 DEF Connect
  <2>2. writes(m, created)
    BY <1>2 DEF writes, RoomWritten
  <2>3. DownLink.toServer = none /\ RoomWritten(client, server, DownLink, created)
    BY <1>2, DownWritten DEF RoomWritten, DownLink
  <2> HIDE DEF m, none
  <2>4. writtenQueue(none, created)
    BY <2>3 DEF RoomWritten
  <2>5. writtenQueue(q, created)
    BY <2>2, <2>4, WrittenQueues
  <2> HIDE DEF q
  <2>6. RoomWritten(client', server', link', created)
    BY <1>1, <1>2, <2>1, <2>4, <2>5 DEF RoomWritten
  <2>7. QED
    BY <1>1, <2>6, RoomStep
<1>4. CASE ~server.member
  <2>1. client'.doc = {} /\ link' = link
    BY <1>1, <1>4, DocumentKept DEF Connect
  <2>2. RoomWritten(client', server', link', created)
    BY <1>1, <1>2, <2>1 DEF RoomWritten, Written
  <2>3. QED
    BY <1>1, <2>2, RoomStep
<1>5. QED
  BY <1>3, <1>4

\* A message was taken from one of the queues.
LEMMA TakenWritten ==
  ASSUME DeliveryInv, IntentInv
  PROVE  /\ link.toClient # <<>> =>
              /\ writes(Head(link.toClient), created) /\ Linked(received, server.stored)
              /\ RoomWritten(client, server, received, created)
         /\ link.toServer # <<>> =>
              /\ writes(Head(link.toServer), created) /\ Linked(handled, server.stored)
              /\ RoomWritten(client, server, handled, created)
<1>1. RoomWritten(client, server, link, created) /\ Linked(link, server.stored)
  BY DEF IntentInv, DeliveryInv
<1>2. ASSUME link.toClient # <<>>
      PROVE  /\ writes(Head(link.toClient), created) /\ Linked(received, server.stored)
             /\ RoomWritten(client, server, received, created)
  <2> DEFINE q == Tail(link.toClient)
  <2>1. writtenQueue(q, created) /\ writes(Head(link.toClient), created)
    BY <1>1, <1>2, WrittenQueues DEF RoomWritten
  <2>2. received = clientQueue(link, q)
    BY DEF received, clientQueue
  <2> HIDE DEF q
  <2>3. received.toServer = link.toServer /\ received.toClient = q
    BY <1>1, <2>2, LinkChanged
  <2>4. QED
    BY <1>1, <1>2, <2>1, <2>3, ReceivedLinked DEF RoomWritten
<1>3. ASSUME link.toServer # <<>>
      PROVE  /\ writes(Head(link.toServer), created) /\ Linked(handled, server.stored)
             /\ RoomWritten(client, server, handled, created)
  <2> DEFINE q == Tail(link.toServer)
  <2>1. writtenQueue(q, created) /\ writes(Head(link.toServer), created)
    BY <1>1, <1>3, WrittenQueues DEF RoomWritten
  <2>2. handled = serverQueue(link, q)
    BY DEF handled, serverQueue
  <2> HIDE DEF q
  <2>3. handled.toServer = q /\ handled.toClient = link.toClient
    BY <1>1, <2>2, LinkChanged
  <2>4. QED
    BY <1>1, <1>3, <2>1, <2>3, HandledLinked DEF RoomWritten
<1>4. QED
  BY <1>2, <1>3

\* A reconnection may be complete, and confirmations are sent again.
LEMMA ReleasedWritten ==
  ASSUME NEW c \in Sessions, NEW l, NEW stored, Linked(l, stored), NEW n \in Nat,
         DOMAIN c.pending \subseteq 1..n, NEW M, NEW s, RoomWritten(c, s, l, M),
         client' = completed(c), link' = l \/ link' = [l EXCEPT !.toServer = @ \o resent(c)]
  PROVE  RoomWritten(client', s, link', M)
<1> DEFINE q == l.toServer \o resent(c)
<1>1. writtenQueue(q, M)
  BY SilentQueues, WrittenQueues DEF RoomWritten
<1>2. link' = l \/ link' = serverQueue(l, q)
  BY DEF serverQueue
<1> HIDE DEF q
<1>3. serverQueue(l, q).toServer = q /\ serverQueue(l, q).toClient = l.toClient
  BY LinkChanged
<1>4. client'.doc = c.doc
  BY DocumentKept
<1>5. QED
  BY <1>1, <1>2, <1>3, <1>4 DEF RoomWritten

\* The document of the server arrives, or a change of another member.
LEMMA HandleDocumentIntent ==
  ASSUME DeliveryInv, IntentInv, HandleSynced \/ HandleUpdate
  PROVE  IntentInv'
<1> DEFINE m == Head(link.toClient)
           c == [client EXCEPT !.synced = TRUE, !.doc = @ \cup m.ops]
           w == [client EXCEPT !.doc = @ \cup m.ops]
           u == [type |-> "update", ops |-> c.doc \ m.ops]
           q == Append(received.toServer, u)
           l == IF c.doc = m.ops THEN received ELSE [received EXCEPT !.toServer = Append(@, u)]
<1>1. /\ link.toClient # <<>> /\ m.type \in {"sync", "update"} /\ UNCHANGED <<db, history, server>>
      /\ \/ client' = completed(c) /\ (link' = l \/ link' = [l EXCEPT !.toServer = @ \o resent(c)])
         \/ client' = w /\ link' = received
  BY DEF HandleSynced, HandleUpdate, Released
<1>2. /\ client \in Sessions /\ client.doc \subseteq Comments /\ ids \in Nat
      /\ DOMAIN client.pending \subseteq 1..ids
  BY DEF DeliveryInv, Consistent, Sessions
<1>3. /\ Linked(received, server.stored) /\ honest(m, server.stored)
      /\ RoomWritten(client, server, received, created) /\ writes(m, created)
  BY <1>1, TakenWritten, ReceivedLinked DEF DeliveryInv
<1>4. m.ops \in SUBSET Comments /\ Written(m.ops, created)
  BY <1>1, <1>3 DEF honest, writes
<1> HIDE DEF m
<1>5. c \in Sessions /\ c.pending = client.pending /\ c.doc = client.doc \cup m.ops /\ w.doc = c.doc
  BY <1>2, <1>4 DEF Sessions
<1> HIDE DEF c, w
<1>6. Written(c.doc, created)
  BY <1>3, <1>4, <1>5 DEF RoomWritten, Written
<1>7. writes(u, created)
  BY <1>6 DEF writes, Written
<1> HIDE DEF u
<1>8. writtenQueue(q, created)
  BY <1>3, <1>7, WrittenQueues DEF RoomWritten
<1>9. queue(q, {})
  <2>1. c.doc \subseteq Comments
    BY <1>5 DEF Sessions
  <2>2. honest(u, {})
    BY <2>1 DEF honest, u
  <2>3. QED
    BY <1>3, <2>2, QueueGrows DEF Linked
<1>10. l = received \/ l = serverQueue(received, q)
  BY DEF serverQueue
<1> HIDE DEF q, l
<1>11. Linked(l, server.stored) /\ RoomWritten(c, server, l, created)
  <2>1. /\ Linked(serverQueue(received, q), server.stored)
        /\ serverQueue(received, q).toServer = q
        /\ serverQueue(received, q).toClient = received.toClient
    BY <1>3, <1>9, LinkChanged
  <2>2. QED
    BY <1>3, <1>6, <1>8, <1>10, <2>1 DEF RoomWritten
<1>12. RoomWritten(client', server, link', created)
  <2>1. CASE client' = w /\ link' = received
    BY <1>3, <1>5, <1>6, <2>1 DEF RoomWritten
  <2>2. CASE client' = completed(c) /\ (link' = l \/ link' = [l EXCEPT !.toServer = @ \o resent(c)])
    BY <1>2, <1>5, <1>11, <2>2, ReleasedWritten
  <2>3. QED
    BY <1>1, <2>1, <2>2
<1>13. QED
  BY <1>1, <1>12, RoomStep

\* The server handles a message.
LEMMA ServerHandlesIntent ==
  ASSUME DeliveryInv, IntentInv, ServerHandles
  PROVE  IntentInv'
<1> DEFINE m == Head(link.toServer)
           included == m.vector \subseteq server.doc
           reply == answer(IF included THEN "acknowledged" ELSE "rejected", m)
           q == Append(handled.toClient, reply)
<1>1. /\ link.toServer # <<>> /\ UNCHANGED <<db, history>>
      /\ \/ Dropped /\ UNCHANGED server
         \/ /\ m.type = "update" /\ server' = [server EXCEPT !.doc = @ \cup m.ops]
            /\ link' = handled /\ UNCHANGED client
         \/ /\ server' = IF included THEN [server EXCEPT !.stored = server.doc] ELSE server
            /\ link' = clientQueue(handled, q) /\ UNCHANGED client
  BY DEF ServerHandles, counters, clientQueue
<1>2. /\ writes(m, created) /\ Linked(handled, server.stored)
      /\ RoomWritten(client, server, handled, created)
  BY <1>1, TakenWritten
<1>3. ServerOK /\ client \in Sessions
  BY DEF DeliveryInv, Consistent
<1>4. CASE Dropped /\ UNCHANGED server
  <2>1. client'.doc \in {client.doc, {}} /\ link' = DownLink
    BY <1>3, <1>4, DocumentKept DEF Dropped
  <2>2. QED
    BY <1>1, <1>4, <2>1, DownIntent
<1>5. CASE /\ m.type = "update" /\ server' = [server EXCEPT !.doc = @ \cup m.ops]
           /\ link' = handled /\ UNCHANGED client
  <2>1. Written(m.ops, created)
    BY <1>2, <1>5 DEF writes
  <2>2. server'.stored = server.stored /\ server'.doc = server.doc \cup m.ops
    BY <1>3, <1>5 DEF ServerOK
  <2> HIDE DEF m
  <2>3. RoomWritten(client', server', link', created)
    BY <1>2, <1>5, <2>1, <2>2 DEF RoomWritten, Written
  <2>4. QED
    BY <1>1, <2>2, <2>3, RoomStep
<1>6. CASE /\ server' = IF included THEN [server EXCEPT !.stored = server.doc] ELSE server
           /\ link' = clientQueue(handled, q) /\ UNCHANGED client
  <2>1. server.stored \subseteq server'.stored /\ server'.doc = server.doc
    BY <1>3, <1>6 DEF ServerOK
  <2>2. writes(reply, created)
    BY DEF writes, answer
  <2> HIDE DEF reply
  <2>3. writtenQueue(q, created)
    BY <1>2, <2>2, WrittenQueues DEF RoomWritten
  <2> HIDE DEF q
  <2>4. link'.toServer = handled.toServer /\ link'.toClient = q
    BY <1>2, <1>6, LinkChanged
  <2>5. RoomWritten(client', server', link', created)
    BY <1>2, <1>6, <2>1, <2>3, <2>4 DEF RoomWritten
  <2>6. QED
    BY <1>1, <2>1, <2>5, RoomStep
<1>7. QED
  BY <1>1, <1>4, <1>5, <1>6

\* The debounced write, a removal, and a restart from what is stored.
LEMMA ServerAloneIntent ==
  ASSUME DeliveryInv, IntentInv, ServerStores \/ Revoke \/ ServerCrash
  PROVE  IntentInv'
<1>1. /\ UNCHANGED <<db, history>>
      /\ \/ server' = [server EXCEPT !.stored = server.doc]
         \/ server' = [server EXCEPT !.doc = server.stored]
         \/ server' = [server EXCEPT !.member = FALSE]
      /\ UNCHANGED <<client, link>> \/ Dropped
  BY DEF ServerStores, Revoke, ServerCrash, counters
<1>2. ServerOK /\ client \in Sessions
  BY DEF DeliveryInv, Consistent
<1>3. server.stored \subseteq server'.stored /\ server'.doc \subseteq server.doc
  BY <1>1, <1>2 DEF ServerOK
<1>4. CASE UNCHANGED <<client, link>>
  <2>1. RoomWritten(client', server', link', created)
    BY <1>3, <1>4 DEF IntentInv, RoomWritten, Written
  <2>2. QED
    BY <1>1, <1>3, <2>1, RoomStep
<1>5. CASE Dropped
  <2>1. client'.doc \in {client.doc, {}} /\ link' = DownLink
    BY <1>2, <1>5, DocumentKept DEF Dropped
  <2>2. QED
    BY <1>1, <1>3, <2>1, DownIntent
<1>6. QED
  BY <1>1, <1>4, <1>5

\* Comments of another member are nobody's own.
LEMMA PeerSendsIntent ==
  ASSUME DeliveryInv, IntentInv, NEW comments \in SUBSET Foreign, PeerSends(comments)
  PROVE  IntentInv'
<1> DEFINE m == [type |-> "update", ops |-> comments]
           q == Append(link.toClient, m)
<1>1. /\ server' = [server EXCEPT !.doc = @ \cup comments]
      /\ link' = link \/ link' = clientQueue(link, q)
      /\ UNCHANGED <<client, db, history>>
  BY DEF PeerSends, clientQueue
<1>2. ServerOK /\ Linked(link, server.stored) /\ RoomWritten(client, server, link, created)
  BY DEF DeliveryInv, IntentInv
<1>3. server'.stored = server.stored /\ server'.doc = server.doc \cup comments
  BY <1>1, <1>2 DEF ServerOK
<1>4. comments \cap Own = {}
  BY LedgerAssumption
<1>5. writes(m, created)
  BY <1>4 DEF writes, Written
<1> HIDE DEF m
<1>6. writtenQueue(q, created)
  BY <1>2, <1>5, WrittenQueues DEF RoomWritten
<1> HIDE DEF q
<1>7. clientQueue(link, q).toServer = link.toServer /\ clientQueue(link, q).toClient = q
  BY <1>2, LinkChanged
<1>8. RoomWritten(client', server', link', created)
  BY <1>1, <1>2, <1>3, <1>4, <1>6, <1>7 DEF RoomWritten, Written
<1>9. QED
  BY <1>1, <1>3, <1>8, RoomStep

\* A settlement and what it releases.
LEMMA SettlementIntent ==
  ASSUME DeliveryInv, IntentInv, NEW id \in DOMAIN client.pending, NEW disposition \in Verdicts,
         SettleDelivery(id, disposition), NEW l, Linked(l, server.stored),
         RoomWritten(client, server, l, created),
         Released([client EXCEPT !.pending = without(@, id)], l), UNCHANGED <<server, history>>
  PROVE  IntentInv'
<1> DEFINE p == without(client.pending, id)
           w == [client EXCEPT !.pending = p]
           q == settleCollaborationSyncDelivery(db, id, disposition)
<1>1. /\ client \in Sessions /\ db \in Databases /\ ids \in Nat /\ DOMAIN db.rows \subseteq 1..ids
      /\ DOMAIN client.pending \subseteq 1..ids /\ client.pending \in Partial(Waiting)
  BY DEF DeliveryInv, Consistent, Sessions
<1>2. db' = q \/ db' = db
  BY DEF SettleDelivery
<1>3. LedgerKeeps(db, unstored, created, discarded)
  BY DEF IntentInv
<1>4. LedgerKeeps(q, unstored, created, discarded)
  BY <1>1, <1>3, SettlementKeeps DEF Deliveries
<1>5. p \in Partial(Waiting) /\ DOMAIN p \subseteq 1..ids
  <2>1. p \in Partial(Waiting) /\ DOMAIN p = DOMAIN client.pending \ {id}
    BY <1>1, WithoutEntry
  <2> HIDE DEF p
  <2>2. QED
    BY <1>1, <2>1
<1>6. client' = completed(w) /\ link' = [l EXCEPT !.toServer = @ \o resent(w)]
  BY DEF Released
<1> HIDE DEF p, q
<1>7. w \in Sessions /\ w.pending = p /\ w.doc = client.doc
  BY <1>1, <1>5 DEF Sessions
<1> HIDE DEF w
<1>8. RoomWritten(w, server, l, created)
  BY <1>7 DEF RoomWritten
<1>9. RoomWritten(client', server, link', created)
  BY <1>1, <1>5, <1>6, <1>7, <1>8, ReleasedWritten
<1>10. unstored' = unstored /\ created' = created /\ discarded' = discarded /\ server' = server
  BY DEF history, unstored
<1>11. QED
  BY <1>2, <1>3, <1>4, <1>9, <1>10 DEF IntentInv

\* An answer of the server.
LEMMA HandleStatelessIntent ==
  ASSUME DeliveryInv, IntentInv, HandleStateless
  PROVE  IntentInv'
<1> DEFINE m == Head(link.toClient)
           w == [client EXCEPT !.pending = without(@, m.id)]
<1>1. /\ link.toClient # <<>> /\ m.type \in Verdicts /\ UNCHANGED <<server, history>>
      /\ \/ /\ m.id \in DOMAIN client.pending
            /\ SettleDelivery(m.id, m.type) /\ Released(w, received)
         \/ link' = received /\ UNCHANGED <<client, db>>
  BY DEF HandleStateless, Verdicts
<1>2. Linked(received, server.stored) /\ RoomWritten(client, server, received, created)
  BY <1>1, TakenWritten
<1> HIDE DEF m
<1>3. CASE m.id \in DOMAIN client.pending /\ SettleDelivery(m.id, m.type) /\ Released(w, received)
  BY <1>1, <1>2, <1>3, SettlementIntent
<1>4. CASE link' = received /\ UNCHANGED <<client, db>>
  BY <1>1, <1>2, <1>4, RoomStep
<1>5. QED
  BY <1>1, <1>3, <1>4

\* A delivery expires.
LEMMA ExpireDeliveryIntent ==
  ASSUME DeliveryInv, IntentInv, NEW id \in DOMAIN client.pending, ExpireDelivery(id)
  PROVE  IntentInv'
<1> DEFINE w == [client EXCEPT !.pending = without(@, id)]
           q == [client EXCEPT !.pending[id].timer = FALSE]
<1>1. /\ UNCHANGED <<server, history>>
      /\ \/ SettleDelivery(id, "rejected") /\ Released(w, link)
         \/ client' = q /\ UNCHANGED <<link, db>>
  BY DEF ExpireDelivery
<1>2. /\ Linked(link, server.stored) /\ "rejected" \in Verdicts
      /\ RoomWritten(client, server, link, created) /\ client \in Sessions
  BY DEF DeliveryInv, IntentInv, Verdicts, Consistent
<1>3. CASE SettleDelivery(id, "rejected") /\ Released(w, link)
  BY <1>1, <1>2, <1>3, SettlementIntent
<1>4. CASE client' = q /\ UNCHANGED <<link, db>>
  <2>1. client'.doc = client.doc
    BY <1>2, <1>4 DEF Sessions
  <2>2. RoomWritten(client', server', link', created)
    BY <1>1, <1>2, <1>4, <2>1 DEF RoomWritten
  <2>3. QED
    BY <1>1, <1>4, <2>2, RoomStep
<1>5. QED
  BY <1>1, <1>3, <1>4

\* Comments are published: they are in the document and travel to the server.
LEMMA PublishedIntent ==
  ASSUME DeliveryInv, IntentInv, NEW comments, NEW sent \in BOOLEAN, Published(comments, sent),
         UNCHANGED server, NEW M, created \subseteq M, Written(comments, M)
  PROVE  RoomWritten(client', server', link', M)
<1> DEFINE doc == client.doc \cup comments
           u == [type |-> "update", ops |-> comments]
           f == confirm(ids', doc)
           a == link.toServer \o <<u>>
           b == IF sent THEN <<f>> ELSE <<>>
           q == a \o b
<1>1. /\ client \in Sessions /\ Linked(link, server.stored) /\ ids \in Nat
      /\ DOMAIN client.pending \subseteq 1..ids
  BY DEF DeliveryInv, Consistent
<1>2. /\ Written(client.doc, M) /\ Written(server.doc, M)
      /\ writtenQueue(link.toServer, M) /\ writtenQueue(link.toClient, M)
  BY WrittenQueues DEF IntentInv, RoomWritten, Written
<1>3. /\ link' = serverQueue(link, q)
      /\ client' = [client EXCEPT !.doc = doc,
                                  !.pending = with(@, ids', [vector |-> doc, timer |-> TRUE])]
  BY DEF Published, serverQueue
<1>4. writes(u, M) /\ writes(f, M)
  BY DEF writes, confirm
<1>5. writtenQueue(<<>>, M)
  BY <1>1, SilentQueues
<1> HIDE DEF u, f
<1>6. writtenQueue(<<u>>, M) /\ writtenQueue(b, M)
  BY <1>4, <1>5, WrittenQueues
<1>7. writtenQueue(a, M)
  BY <1>2, <1>6, WrittenQueues
<1> HIDE DEF a, b
<1>8. writtenQueue(q, M)
  BY <1>6, <1>7, WrittenQueues
<1> HIDE DEF q
<1>9. link'.toServer = q /\ link'.toClient = link.toClient
  BY <1>1, <1>3, LinkChanged
<1>10. client'.doc = doc
  BY <1>1, <1>3 DEF Sessions
<1>11. Written(doc, M)
  BY <1>2 DEF Written
<1> HIDE DEF doc
<1>12. QED
  BY <1>2, <1>8, <1>9, <1>10, <1>11 DEF RoomWritten

\* The reviewer writes a comment: the new delivery carries it with all others.
LEMMA CreateCommentIntent ==
  ASSUME DeliveryInv, IntentInv, NEW c \in Own, CreateComment(c)
  PROVE  IntentInv'
<1> DEFINE recovery == recoverCollaborationSyncState(db)
           fresh == recovery.disposition \in {"none", "synchronized"}
           baseline == IF fresh THEN client.doc ELSE recovery.baseline
           candidate == client.doc \cup {c}
           pending == IF fresh THEN candidate ELSE effectiveCollaborationSyncPending(db) \cup {c}
           M == created \cup {c}
           q == stageCollaborationSyncDelivery(db, ids + 1, baseline, candidate)
<1>1. /\ c \notin created /\ canStageDelivery(db, pending, candidate)
      /\ db' = stageCollaborationSyncDelivery(db, ids + 1, baseline, pending)
      /\ Published({c}, TRUE) \/ Published({c}, FALSE)
      /\ created' = M /\ UNCHANGED <<server, discarded, overtaken>>
  BY DEF CreateComment
<1>2. pending = candidate /\ db' = q
  BY <1>1 DEF canStageDelivery
<1>3. /\ db \in Databases /\ ids \in Nat /\ DOMAIN db.rows \subseteq 1..ids
      /\ client.doc \in SUBSET Comments /\ c \in Comments
  BY DEF DeliveryInv, Consistent, Sessions, Comments
<1>4. /\ LedgerKeeps(db, unstored, created, discarded) /\ created \subseteq Own
      /\ Written(client.doc, created)
  BY DEF IntentInv, RoomWritten
<1>5. unstored \cap discarded = {} /\ unstored' \subseteq unstored \cup {c}
  BY <1>1 DEF unstored
<1>6. /\ DOMAIN db.rows = {} => unstored = {}
      /\ fresh <=> DOMAIN db.rows = {}
      /\ unstored \subseteq effectiveCollaborationSyncPending(db)
      /\ DOMAIN db.rows # {} => Written(recovery.baseline, created)
  BY <1>3, <1>4, <1>5, RecoveryKeeps
<1>7. recovery.baseline \subseteq Comments
  BY <1>3, RecoveryTypes
<1> HIDE DEF recovery
<1>8. unstored' \subseteq candidate
  <2>1. CASE fresh
    BY <1>5, <1>6, <2>1
  <2>2. CASE ~fresh
    <3>1. unstored \subseteq pending
      BY <1>6, <2>2
    <3>2. QED
      BY <1>2, <1>5, <3>1
  <2>3. QED
    BY <2>1, <2>2
<1> HIDE DEF pending
<1>9. Written(baseline, created) /\ Written(candidate, M) /\ Written(baseline, M)
  BY <1>4, <1>6 DEF Written
<1>10. baseline \in SUBSET Comments /\ candidate \in SUBSET Comments
  BY <1>3, <1>7
<1>11. c \notin baseline
  BY <1>1, <1>9 DEF Written
<1>12. DOMAIN db.rows = {} => unstored' \cap baseline = {}
  BY <1>5, <1>6, <1>11
<1>13. DOMAIN db.rows # {} => unstored' \cap db.rows[Min(DOMAIN db.rows)].baseline = {}
  <2>1. SUFFICES ASSUME DOMAIN db.rows # {}
                 PROVE  unstored' \cap db.rows[Min(DOMAIN db.rows)].baseline = {}
    OBVIOUS
  <2> DEFINE first == Min(DOMAIN db.rows)
  <2>2. first \in DOMAIN db.rows
    BY <1>3, <2>1, NewestOldest
  <2>3. unstored \cap db.rows[first].baseline = {}
    BY <1>4 DEF LedgerKeeps
  <2> HIDE DEF first
  <2>4. c \notin db.rows[first].baseline
    BY <1>1, <1>4, <2>2 DEF LedgerKeeps, Written
  <2>5. unstored' \cap db.rows[first].baseline = {}
    BY <1>5, <2>3, <2>4
  <2>6. QED
    BY <2>5 DEF first
<1> HIDE DEF baseline, candidate, fresh
<1>14. LedgerKeeps(db, {}, M, discarded)
  BY <1>4, LedgerWeaker
<1>15. LedgerKeeps(q, unstored', M, discarded)
  <2>1. After(ids, ids + 1)
    BY DEF After
  <2>2. QED
    BY <1>3, <1>8, <1>9, <1>10, <1>12, <1>13, <1>14, <2>1, StagingKeeps
<1>16. RoomWritten(client', server', link', M)
  <2>1. created \subseteq M /\ Written({c}, M)
    BY DEF Written
  <2>2. PICK sent \in BOOLEAN : Published({c}, sent)
    BY <1>1
  <2> HIDE DEF M
  <2>3. QED
    BY <1>1, <2>1, <2>2, PublishedIntent
<1>17. created' \subseteq Own /\ created' = M /\ discarded' = discarded
  BY <1>1, <1>4
<1> HIDE DEF M, q
<1>18. QED
  BY <1>2, <1>15, <1>16, <1>17 DEF IntentInv

\* A step that only changes the ledger, and gives up or dismisses comments.
LEMMA LedgerIntent ==
  ASSUME IntentInv, UNCHANGED <<client, server, link, created>>,
         LedgerKeeps(db', unstored', created, discarded')
  PROVE  IntentInv'
  BY DEF IntentInv

\* Comments are replayed: what the new delivery does not carry is overtaken.
LEMMA ReplayIntent ==
  ASSUME DeliveryInv, IntentInv, NEW d \in Databases, DOMAIN d.rows \subseteq 1..ids,
         LedgerKeeps(d, unstored, created, discarded), UNCHANGED <<server, created, discarded>>,
         NEW comments \in SUBSET Comments, Written(comments, created), ReplayComments(d, comments)
  PROVE  IntentInv'
<1> DEFINE candidate == client.doc \cup comments
           base == client.doc
           q == stageCollaborationSyncDelivery(d, ids + 1, base, candidate)
           lost == (recoverCollaborationSyncState(d).pending \cap Own) \ candidate
<1>1. CASE ledgerHasRoom(d)
  <2>1. db' = q /\ Published(comments, TRUE) /\ overtaken' = overtaken \cup lost
    BY <1>1 DEF ReplayComments
  <2>2. ids \in Nat /\ base \in SUBSET Comments /\ candidate \in SUBSET Comments
    BY DEF DeliveryInv, Consistent, Sessions
  <2>3. /\ Written(base, created) /\ Written(candidate, created) /\ created \subseteq Own
    BY DEF IntentInv, RoomWritten, Written
  <2>4. unstored' = unstored \ lost /\ unstored \subseteq Own /\ unstored \cap discarded = {}
    BY <2>1, <2>3 DEF unstored
  <2>5. /\ unstored \subseteq recoverCollaborationSyncState(d).pending
        /\ DOMAIN d.rows = {} => unstored = {}
    BY <2>2, <2>4, RecoveryKeeps
  <2>6. unstored' \subseteq candidate
    BY <2>4, <2>5
  <2>7. /\ DOMAIN d.rows = {} => unstored' \cap base = {}
        /\ DOMAIN d.rows # {} => unstored' \cap d.rows[Min(DOMAIN d.rows)].baseline = {}
    BY <2>4, <2>5 DEF LedgerKeeps
  <2>8. LedgerKeeps(d, {}, created, discarded) /\ After(ids, ids + 1)
    BY LedgerWeaker DEF After
  <2>9. RoomWritten(client', server', link', created)
    <3>1. TRUE \in BOOLEAN /\ created \subseteq created
      OBVIOUS
    <3>2. QED
      BY <2>1, <3>1, PublishedIntent
  <2> HIDE DEF candidate, base, lost
  <2>10. LedgerKeeps(q, unstored', created, discarded)
    BY <2>2, <2>3, <2>6, <2>7, <2>8, StagingKeeps
  <2> HIDE DEF q
  <2>11. QED
    BY <2>1, <2>3, <2>9, <2>10 DEF IntentInv
<1>2. CASE ~ledgerHasRoom(d)
  <2>1. db' = d /\ UNCHANGED <<client, link, overtaken>>
    BY <1>2 DEF ReplayComments
  <2>2. unstored' = unstored
    BY <2>1 DEF unstored
  <2>3. QED
    BY <2>1, <2>2, LedgerIntent
<1>3. QED
  BY <1>1, <1>2

\* The recovery state is compared with the room.
LEMMA RecoverIntentKeeps ==
  ASSUME DeliveryInv, IntentInv, NEW d \in Databases, DOMAIN d.rows \subseteq 1..ids,
         LedgerKeeps(d, unstored, created, discarded), UNCHANGED <<server, created, discarded>>,
         \A i \in Settled(d, "acknowledged") : d.rows[i].candidate \subseteq server.stored,
         NEW s, RecoverIntent(d, s)
  PROVE  IntentInv'
<1> DEFINE current == client.doc \ commentsOf(s)
           rejected == (commentsOf(activeRejected(d)) \ current) \ commentsOf(s)
           missing == missingComments(d, current) \ commentsOf(s)
           recovery == recoverCollaborationSyncState(d)
           q == checkpointCollaborationSyncState(d, current)
<1>1. ids \in Nat /\ client.doc \subseteq Comments
  BY DEF DeliveryInv, Consistent, Sessions
<1>2. unstored \cap discarded = {} /\ unstored \cap server.stored = {}
  BY DEF unstored
<1>3. rejected \in SUBSET Comments /\ Written(rejected, created)
  <2>1. commentsOf(activeRejected(d)) \subseteq Own
    BY <1>1, QuarantineTypes
  <2>2. ASSUME NEW e \in activeRejected(d) PROVE e[1] \in created
    <3> DEFINE acked == Settled(d, "acknowledged")
               before(i) == {j \in acked : j < i}
               ackedBefore(i) == IF before(i) = {} THEN {} ELSE d.rows[Max(before(i))].candidate
               ackedAfter(i) == UNION {d.rows[j].candidate : j \in {k \in acked : k > i}}
               unshared(i) == (d.rows[i].candidate \cap Own)
                                \ (d.rows[i].baseline \cup ackedBefore(i) \cup ackedAfter(i))
               refused(c) == {i \in Settled(d, "rejected") : c \in unshared(i)}
    <3>1. e \in {<<c, Max(refused(c))>> : c \in {x \in Own : refused(x) # {}}}
      BY DEF activeRejected, recoverRejectedCommentEntries
    <3>2. PICK x \in Own : refused(x) # {} /\ e = <<x, Max(refused(x))>>
      BY <3>1
    <3>3. PICK i \in refused(x) : TRUE
      BY <3>2
    <3>4. i \in Settled(d, "rejected") /\ e[1] = x /\ x \in d.rows[i].candidate
      BY <3>2, <3>3
    <3>5. i \in DOMAIN d.rows
      BY DEF Settled
    <3>6. Written(d.rows[i].candidate, created)
      BY <3>5 DEF LedgerKeeps
    <3>7. QED
      BY <3>4, <3>6 DEF Written
  <2>3. commentsOf(activeRejected(d)) \subseteq created
    BY <2>2 DEF commentsOf
  <2>4. QED
    BY <2>1, <2>3 DEF Comments, Written
<1>4. missing \in SUBSET Comments /\ Written(missing, created)
  <2>1. DOMAIN d.rows # {} => Written(recovery.pending, created)
    BY <1>1, <1>2, RecoveryKeeps
  <2>2. DOMAIN d.rows = {} => recovery.pending = recovery.baseline
    BY DEF recoverCollaborationSyncState
  <2>3. missing \subseteq (recovery.pending \ recovery.baseline) \cap Own
    BY DEF missingComments, effectiveCollaborationSyncPending
  <2> HIDE DEF recovery, missing
  <2>4. QED
    BY <2>1, <2>2, <2>3 DEF Comments, Written
<1>5. \/ ReplayComments(d, rejected) \/ ReplayComments(d, missing)
      \/ /\ db' = d \/ (db' = q /\ recovery.disposition = "acknowledged")
         /\ UNCHANGED <<client, link, overtaken>>
  BY DEF RecoverIntent
<1>6. current \in SUBSET Comments
  BY <1>1
<1> HIDE DEF rejected, missing, current
<1>7. CASE ReplayComments(d, rejected)
  BY <1>3, <1>7, ReplayIntent
<1>8. CASE ReplayComments(d, missing)
  BY <1>4, <1>8, ReplayIntent
<1>9. CASE /\ db' = d \/ (db' = q /\ recovery.disposition = "acknowledged")
           /\ UNCHANGED <<client, link, overtaken>>
  <2>1. unstored' = unstored
    BY <1>9 DEF unstored
  <2>2. ASSUME recovery.disposition = "acknowledged" PROVE unstored = {}
    <3>1. DOMAIN d.rows # {} => /\ recovery.id \in DOMAIN d.rows
                                /\ d.rows[recovery.id].disposition = "acknowledged"
      BY <1>1, <1>2, <2>2, RecoveryKeeps
    <3>2. recovery.id \in DOMAIN d.rows => d.rows[recovery.id].candidate \subseteq server.stored
      BY <3>1 DEF Settled
    <3>3. QED
      BY <1>1, <1>2, <3>2, NothingLeft
  <2>3. LedgerKeeps(q, {}, created, discarded)
    BY <1>6, CheckpointKeeps
  <2> HIDE DEF q, recovery
  <2>4. LedgerKeeps(db', unstored', created, discarded)
    BY <1>9, <2>1, <2>2, <2>3
  <2>5. QED
    BY <1>9, <2>4, LedgerIntent
<1>10. QED
  BY <1>5, <1>7, <1>8, <1>9

\* The ledger after a retry, and after a checkpoint of what was dismissed.
LEMMA RetriedIntent ==
  ASSUME DeliveryInv, IntentInv
  PROVE  /\ retried(db) \in Databases /\ DOMAIN retried(db).rows \subseteq 1..ids /\ ids \in Nat
         /\ \A i \in Settled(retried(db), "acknowledged") :
              retried(db).rows[i].candidate \subseteq server.stored
         /\ LedgerKeeps(retried(db), unstored, created, discarded)
         /\ checkpointDismissed(retried(db)) \in Databases
         /\ DOMAIN checkpointDismissed(retried(db)).rows \subseteq 1..ids
         /\ \A i \in Settled(checkpointDismissed(retried(db)), "acknowledged") :
              checkpointDismissed(retried(db)).rows[i].candidate \subseteq server.stored
         /\ LedgerKeeps(checkpointDismissed(retried(db)), unstored, created, discarded)
<1> DEFINE d == retried(db)
           t == checkpointDismissed(d)
           none == <<>>
<1>1. Consistent(client, d, none, server.stored, ids) /\ Consistent(client, t, none, server.stored, ids)
  BY RetriedSafe
<1>2. /\ db \in Databases /\ ids \in Nat /\ DOMAIN db.rows \subseteq 1..ids /\ early \in Retained
      /\ LedgerKeeps(db, unstored, created, discarded)
  BY DEF DeliveryInv, Consistent, IntentInv
<1>3. LedgerKeeps(d, unstored, created, discarded)
  BY <1>2, SettlementKeeps
<1>4. unstored \cap discarded = {} /\ unstored \cap server.stored = {}
  BY DEF unstored
<1> HIDE DEF d, none
<1>5. /\ d \in Databases /\ DOMAIN d.rows \subseteq 1..ids
      /\ \A i \in Settled(d, "acknowledged") : d.rows[i].candidate \subseteq server.stored
  BY <1>1 DEF Consistent, RowOK, Settled
<1>6. LedgerKeeps(t, unstored, created, discarded)
  BY <1>2, <1>3, <1>4, <1>5, DismissedKeeps
<1> HIDE DEF t
<1>7. /\ t \in Databases /\ DOMAIN t.rows \subseteq 1..ids
      /\ \A i \in Settled(t, "acknowledged") : t.rows[i].candidate \subseteq server.stored
  BY <1>1 DEF Consistent, RowOK, Settled
<1>8. QED
  BY <1>2, <1>3, <1>5, <1>6, <1>7 DEF d, t

\* #recover.
LEMMA RecoverKeeps ==
  ASSUME DeliveryInv, IntentInv, Recover
  PROVE  IntentInv'
<1> DEFINE t == checkpointDismissed(retried(db))
           s == mergeSuppressions(retried(db), suppressed)
<1>1. /\ UNCHANGED <<server, created, discarded>>
      /\ \/ RecoverIntent(t, s)
         \/ (db' = t \/ db' = db) /\ UNCHANGED <<client, link, overtaken>>
  BY DEF Recover
<1>2. /\ t \in Databases /\ DOMAIN t.rows \subseteq 1..ids
      /\ \A i \in Settled(t, "acknowledged") : t.rows[i].candidate \subseteq server.stored
      /\ LedgerKeeps(t, unstored, created, discarded)
  BY RetriedIntent
<1> HIDE DEF t, s
<1>3. CASE RecoverIntent(t, s)
  BY <1>1, <1>2, <1>3, RecoverIntentKeeps
<1>4. CASE (db' = t \/ db' = db) /\ UNCHANGED <<client, link, overtaken>>
  <2>1. unstored' = unstored /\ LedgerKeeps(db', unstored, created, discarded)
    BY <1>1, <1>2, <1>4 DEF unstored, IntentInv
  <2>2. QED
    BY <1>1, <1>4, <2>1, LedgerIntent
<1>5. QED
  BY <1>1, <1>3, <1>4

\* #checkpoint: it is allowed only when nothing is left to carry.
LEMMA CheckpointIntent ==
  ASSUME DeliveryInv, IntentInv, Checkpoint
  PROVE  IntentInv'
<1> DEFINE recovery == recoverCollaborationSyncState(db)
           q == checkpointCollaborationSyncState(db, effectiveSnapshot)
<1>1. /\ db' = q /\ UNCHANGED <<client, server, link, history>>
      /\ \/ recovery.disposition \in {"none", "acknowledged", "synchronized"}
         \/ recovery.id \in DOMAIN early /\ early[recovery.id] = "acknowledged"
  BY DEF Checkpoint
<1>2. /\ db \in Databases /\ ids \in Nat /\ DOMAIN db.rows \subseteq 1..ids
      /\ client.doc \subseteq Comments
      /\ \A i \in DOMAIN db.rows : RowOK(client, db, early, server.stored, i)
  BY DEF DeliveryInv, Consistent, Sessions
<1>3. LedgerKeeps(db, unstored, created, discarded)
  BY DEF IntentInv
<1>4. unstored \cap discarded = {} /\ unstored \cap server.stored = {}
  BY DEF unstored
<1>5. unstored = {}
  <2>1. recovery.id \in DOMAIN db.rows => recovery.disposition = db.rows[recovery.id].disposition
    BY <1>2, <1>3, <1>4, RecoveryKeeps
  <2>2. CASE recovery.disposition \in {"none", "synchronized"}
    BY <1>2, <1>3, <1>4, <2>2, NothingLeft
  <2>3. CASE recovery.disposition \notin {"none", "synchronized"}
    <3>1. recovery.id \in DOMAIN db.rows => db.rows[recovery.id].candidate \subseteq server.stored
      BY <1>1, <1>2, <2>1, <2>3 DEF RowOK
    <3>2. QED
      BY <1>2, <1>3, <1>4, <3>1, NothingLeft
  <2>4. QED
    BY <2>2, <2>3
<1>6. effectiveSnapshot \in SUBSET Comments
  BY <1>2 DEF effectiveSnapshot
<1>7. LedgerKeeps(q, {}, created, discarded)
  BY <1>6, CheckpointKeeps
<1> HIDE DEF q, recovery
<1>8. created' = created /\ discarded' = discarded /\ unstored' = unstored
  BY <1>1 DEF history, unstored
<1>9. QED
  BY <1>1, <1>5, <1>7, <1>8, LedgerIntent

\* #discardRejectedComment: the comment is given up by the user.
LEMMA DiscardIntent ==
  ASSUME DeliveryInv, IntentInv, DiscardRejectedComment
  PROVE  IntentInv'
<1> DEFINE r == retried(db)
<1>1. PICK e \in activeRejected(r) :
        /\ db' = checkpointDismissed(discardRejectedCollaborationComment(r, e))
        /\ discarded' = discarded \cup {e[1]}
  BY DEF DiscardRejectedComment
<1> DEFINE d == discardRejectedCollaborationComment(r, e)
<1>2. UNCHANGED <<client, server, link, created, overtaken>>
  BY DEF DiscardRejectedComment
<1>3. /\ r \in Databases /\ DOMAIN r.rows \subseteq 1..ids /\ ids \in Nat
      /\ \A i \in Settled(r, "acknowledged") : r.rows[i].candidate \subseteq server.stored
      /\ LedgerKeeps(r, unstored, created, discarded)
  BY RetriedIntent
<1> HIDE DEF r
<1>4. e \in Own \X Nat
  BY <1>1, <1>3, QuarantineTypes
<1>5. d \in Databases /\ d.rows = r.rows
  BY <1>3, <1>4, DiscardRows
<1>6. LedgerKeeps(d, unstored, created, discarded')
  BY <1>1, <1>3, <1>4, DiscardKeeps
<1>7. /\ unstored' \subseteq unstored /\ unstored' \cap discarded' = {}
      /\ unstored' \cap server.stored = {}
  BY <1>1, <1>2 DEF unstored
<1> HIDE DEF d
<1>8. LedgerKeeps(d, unstored', created, discarded')
  BY <1>6, <1>7, LedgerWeaker
<1>9. \A i \in Settled(d, "acknowledged") : d.rows[i].candidate \subseteq server.stored
  BY <1>3, <1>5 DEF Settled
<1>10. LedgerKeeps(checkpointDismissed(d), unstored', created, discarded')
  BY <1>3, <1>5, <1>7, <1>8, <1>9, DismissedKeeps
<1>11. db' = checkpointDismissed(d)
  BY <1>1 DEF d
<1>12. QED
  BY <1>2, <1>10, <1>11, LedgerIntent

\* Every step of the desktop, the server and the other member.
LEMMA StepIntent ==
  ASSUME DeliveryInv, IntentInv, DeliveryNext
  PROVE  IntentInv'
<1>1. CASE Join \/ JoinTimeout \/ Leave \/ Disconnect \/ DesktopCrash BY <1>1, SessionIntent
<1>2. CASE Connect BY <1>2, ConnectIntent
<1>3. CASE HandleStateless BY <1>3, HandleStatelessIntent
<1>4. CASE HandleSynced \/ HandleUpdate BY <1>4, HandleDocumentIntent
<1>5. CASE \E id \in DOMAIN client.pending : ExpireDelivery(id) BY <1>5, ExpireDeliveryIntent
<1>6. CASE \E c \in Own : CreateComment(c) BY <1>6, CreateCommentIntent
<1>7. CASE Recover BY <1>7, RecoverKeeps
<1>8. CASE Checkpoint BY <1>8, CheckpointIntent
<1>9. CASE DiscardRejectedComment BY <1>9, DiscardIntent
<1>10. CASE ServerHandles BY <1>10, ServerHandlesIntent
<1>11. CASE ServerStores \/ Revoke \/ ServerCrash BY <1>11, ServerAloneIntent
<1>12. CASE PeerComments \/ PeerResyncs
  <2>1. PICK comments \in SUBSET Foreign : PeerSends(comments)
    BY <1>12 DEF PeerComments, PeerResyncs, DeliveryInv
  <2>2. QED
    BY <2>1, PeerSendsIntent
<1>13. QED
  BY <1>1, <1>2, <1>3, <1>4, <1>5, <1>6, <1>7, <1>8, <1>9, <1>10, <1>11, <1>12 DEF DeliveryNext

\* In the beginning nothing was written.
LEMMA InitIntent == DeliveryInit => IntentInv
<1> SUFFICES ASSUME DeliveryInit PROVE IntentInv
  OBVIOUS
<1> DEFINE none == <<>>
<1>1. DOMAIN none = {}
  OBVIOUS
<1>2. /\ client = NoSession /\ link = DownLink /\ created = {} /\ unstored = {}
      /\ db.rows = none /\ db.dismissals = {} /\ server.doc = {}
  BY DEF DeliveryInit, EmptyDatabase, unstored
<1> HIDE DEF none
<1>3. LedgerKeeps(db, unstored, created, discarded)
  BY <1>1, <1>2 DEF LedgerKeeps, commentsOf
<1>4. Written(client.doc, created) /\ Written(server.doc, created)
  BY <1>2 DEF NoSession, Written
<1>5. RoomWritten(client, server, link, created)
  BY <1>2, <1>4, DownWritten
<1>6. QED
  BY <1>2, <1>3, <1>5 DEF IntentInv

\* In every reachable state the newest delivery of the ledger carries every comment that
\* is nowhere else: what ipc.ts stages before it publishes, replays and checkpoints.
THEOREM IntentInvariance == DeliverySpec => [](DeliveryInv /\ IntentInv)
<1>1. DeliveryInv /\ IntentInv /\ [DeliveryNext]_deliveryVars => IntentInv'
  <2>1. SUFFICES ASSUME DeliveryInv, IntentInv, [DeliveryNext]_deliveryVars PROVE IntentInv'
    OBVIOUS
  <2>2. CASE DeliveryNext
    BY <2>1, <2>2, StepIntent
  <2>3. CASE UNCHANGED deliveryVars
    BY <2>1, <2>3 DEF deliveryVars, history, IntentInv, RoomWritten, unstored
  <2>4. QED
    BY <2>1, <2>2, <2>3
<1>2. QED
  BY <1>1, InitIntent, DeliveryInvariance, PTL DEF DeliverySpec

\* A comment that was accepted is stored on the server, pending on disk or quarantined,
\* unless the user discarded it or a replay of older comments overtook it (sync-state.ts
\* 161-190, ipc.ts 912-1018): whatever is lost, late, refused, restarted or dismissed.
THEOREM AcceptedIntentSurvives == DeliverySpec => []IntentSurvives
<1>1. DeliveryInv /\ IntentInv => IntentSurvives
  <2>1. SUFFICES ASSUME DeliveryInv, IntentInv PROVE IntentSurvives
    OBVIOUS
  <2>2. /\ db \in Databases /\ ids \in Nat /\ DOMAIN db.rows \subseteq 1..ids
        /\ LedgerKeeps(db, unstored, created, discarded) /\ unstored \cap discarded = {}
    BY <2>1 DEF DeliveryInv, Consistent, IntentInv, unstored
  <2>3. /\ unstored \subseteq recoverCollaborationSyncState(db).pending
        /\ DOMAIN db.rows = {} => unstored = {}
        /\ recoverCollaborationSyncState(db).disposition = "none" => DOMAIN db.rows = {}
    BY <2>2, RecoveryKeeps
  <2>4. unstored \subseteq retained
    BY <2>3 DEF retained
  <2>5. QED
    BY <2>4 DEF IntentSurvives, unstored, retained
<1>2. QED
  BY <1>1, IntentInvariance, PTL
=============================================================================
