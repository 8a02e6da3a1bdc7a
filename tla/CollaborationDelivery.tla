----------------------- MODULE CollaborationDelivery -----------------------
(***************************************************************************)
(* Comments of a reviewer on a shared canvas, from the window through the  *)
(* local ledger and an unreliable connection into the server's store, and  *)
(* the acknowledgement back.                                               *)
(*                                                                         *)
(*   client     CollaborationClient       main/collaboration/client.ts     *)
(*   db, early  CollaborationIpcService   main/collaboration/ipc.ts        *)
(*   server     CollaborationService      collab-server/src/server.ts      *)
(*                                                                         *)
(* A Y.Doc is the set of comments it holds and its state vector is that    *)
(* set: nothing deletes a comment.  The websocket is a pair of queues that *)
(* a disconnection empties.  The calls of the window, the callbacks of the *)
(* provider and the timers each run to their end: an action is one of them *)
(* with everything it calls.                                               *)
(***************************************************************************)
EXTENDS CollaborationLedger, Sequences, SequencesExt

CONSTANTS Reconnect,      \* the user's choice on joining
          MaxPending,     \* MAX_PENDING_DELIVERIES
          MaxDeliveries,  \* bound: deliveries in a behaviour
          MaxSessions,    \* bound: calls of join
          MaxFaults       \* bound: disconnections, crashes, failed audits and writes

ASSUME DeliveryAssumption ==
  /\ Reconnect \in BOOLEAN
  /\ {MaxPending, MaxDeliveries, MaxSessions, MaxFaults} \subseteq Nat

VARIABLES
  client,      \* the session of the desktop; synced: #authenticated and #synced
  early,       \* #earlyDeliverySettlements: delivery -> disposition still to be stored
  suppressed,  \* #sessionRejectedCommentSuppressions: <<comment, delivery>>
  db,          \* the local database, see CollaborationLedger
  server,      \* the room on the server: loaded document, stored document, membership
  link,        \* the websocket: up and the two queues
  peer,        \* the comments another member has written
  created, discarded, overtaken,  \* history of the reviewer's comments, see IntentSurvives
  ids, sessions, faults

deliveryVars == <<client, early, suppressed, db, server, link, peer, created, discarded,
                  overtaken, ids, sessions, faults>>
history == <<created, discarded, overtaken>>
counters == <<ids, sessions, faults>>

NoSession == [status |-> "none", synced |-> FALSE, joining |-> FALSE,
              hasConnected |-> FALSE, doc |-> {}, pending |-> <<>>,
              from |-> 0]
DownLink == [up |-> FALSE, toServer |-> <<>>, toClient |-> <<>>]

DeliveryInit ==
  /\ client = NoSession /\ early = <<>> /\ suppressed = {} /\ db = EmptyDatabase
  /\ server = [doc |-> {}, stored |-> {}, member |-> TRUE]
  /\ link = DownLink /\ peer = {}
  /\ created = {} /\ discarded = {} /\ overtaken = {}
  /\ ids = 0 /\ sessions = 0 /\ faults = 0

Fault == faults < MaxFaults /\ faults' = faults + 1

sharingReady(c) == c.synced /\ c.status = "connected"
active(c) == c.status \in {"connected", "reconnecting"}

\* The room as the window sees it, less what the user has dismissed in this session.
effectiveSnapshot == client.doc \ commentsOf(suppressed)
polluted == client.doc # effectiveSnapshot

without(f, id) == [i \in DOMAIN f \ {id} |-> f[i]]
with(f, id, v) == [i \in DOMAIN f \cup {id} |-> IF i = id THEN v ELSE f[i]]

\* #mergeSessionRejectedCommentSuppressions over the recovery of the database d.
mergeSuppressions(d, s) ==
  LET recovery == recoverCollaborationSyncState(d)
      shared == recovery.baseline \cup
                (IF recovery.disposition \in {"acknowledged", "synchronized"}
                 THEN recovery.pending ELSE {})
      renewed(e) == \E a \in activeRejected(d) : a[1] = e[1] /\ a[2] # e[2]
      kept == {e \in s : e[1] \notin shared /\ ~renewed(e)}
  IN IF recovery.disposition = "none" THEN s
     ELSE {e \in kept : e[1] \notin commentsOf(dismissedRejected(d))} \cup dismissedRejected(d)

----------------------------------------------------------------------------
(***************************************************************************)
(* The session: join, leave, the callbacks of the provider                 *)
(***************************************************************************)
confirm(id, vector) == [type |-> "confirm", id |-> id, vector |-> vector]

armed(pending) == [i \in DOMAIN pending |-> [pending[i] EXCEPT !.timer = TRUE]]
suspended(pending) == [i \in DOMAIN pending |-> [pending[i] EXCEPT !.timer = FALSE]]

\* Mutant of completed: a session that reconnects never becomes connected again.
completedOnce(c) ==
  CASE ~c.synced -> c
    [] c.joining -> [c EXCEPT !.status = "connected", !.joining = FALSE, !.hasConnected = TRUE]
    [] OTHER -> [c EXCEPT !.pending = armed(@)]

\* #completeJoinIfReady.  A session that reconnects stays "reconnecting" until every
\* delivery is settled; one that joins has none.
completed(c) ==
  CASE ~c.synced -> c
    [] c.joining -> [c EXCEPT !.status = "connected", !.joining = FALSE, !.hasConnected = TRUE]
    [] c.hasConnected /\ c.status = "reconnecting" ->
         IF DOMAIN c.pending = {} THEN [c EXCEPT !.status = "connected"]
         ELSE [c EXCEPT !.pending = armed(@)]
    [] OTHER -> c

\* #sendPendingDeliveryConfirmations: those that are not waiting for an answer already.
resent(c) ==
  IF c.synced /\ ~c.joining /\ c.status = "reconnecting"
  THEN [k \in 1..Cardinality({j \in DOMAIN c.pending : ~c.pending[j].timer}) |->
          LET i == SetToSortSeq({j \in DOMAIN c.pending : ~c.pending[j].timer}, <)[k]
          IN confirm(i, c.pending[i].vector)]
  ELSE <<>>

\* #fail: the transport and the document are gone, the connection shows an error.
failed(c) == [NoSession EXCEPT !.status = "error", !.from = c.from]

\* #handleDisconnect.
disconnected(c) ==
  LET quiet == [c EXCEPT !.synced = FALSE, !.pending = suspended(@)]
  IN CASE Reconnect -> [quiet EXCEPT !.status = "reconnecting"]
       [] ~Reconnect /\ ~c.hasConnected -> failed(c)
       [] OTHER -> [quiet EXCEPT !.status = "offline"]

\* client.join; it leaves a previous room first, so it is taken from no session only.
Join ==
  /\ sessions < MaxSessions /\ client.status \in {"none", "error"}
  /\ sessions' = sessions + 1
  /\ client' = [NoSession EXCEPT !.status = "connecting", !.joining = TRUE, !.from = ids]
  /\ link' = DownLink /\ suppressed' = {}
  /\ UNCHANGED <<early, db, server, peer, history, ids, faults>>

\* The first connection and the provider's reconnections.  The server checks the
\* membership (onAuthenticate) and sends the document it has loaded.
Connect ==
  /\ client.status \in {"connecting", "reconnecting"} /\ ~link.up
  /\ IF server.member
     THEN /\ link' = [up |-> TRUE, toServer |-> <<>>,
                      toClient |-> <<[type |-> "sync", ops |-> server.doc]>>]
          /\ UNCHANGED client
     ELSE client' = failed(client) /\ UNCHANGED link
  /\ UNCHANGED <<early, suppressed, db, server, peer, history, counters>>

\* The timer of a join that is not answered.
JoinTimeout ==
  /\ client.joining
  /\ client' = failed(client) /\ link' = DownLink
  /\ UNCHANGED <<early, suppressed, db, server, peer, history, counters>>

\* client.leave and #discardOwner.
Leave ==
  /\ client.status # "none"
  /\ client' = NoSession /\ link' = DownLink /\ suppressed' = {}
  /\ UNCHANGED <<early, db, server, peer, history, counters>>

Dropped == link' = DownLink /\ client' = disconnected(client)

Disconnect ==
  /\ link.up /\ Fault /\ Dropped
  /\ UNCHANGED <<early, suppressed, db, server, peer, history, ids, sessions>>

\* The desktop process dies: the session and the settlements in memory are lost.
DesktopCrash ==
  /\ client.status # "none" /\ Fault
  /\ client' = NoSession /\ link' = DownLink /\ suppressed' = {} /\ early' = <<>>
  /\ UNCHANGED <<db, server, peer, history, ids, sessions>>

----------------------------------------------------------------------------
(***************************************************************************)
(* Settlement of a delivery: #handleStateless, #expireDelivery and the     *)
(* listener #settleDelivery that both of them call                         *)
(***************************************************************************)
\* Mutant of SettleDelivery: a settlement that cannot be stored is dropped.
SettleOrDrop(id, disposition) ==
  \/ /\ db' = settleCollaborationSyncDelivery(db, id, disposition)
     /\ suppressed' = mergeSuppressions(db', suppressed)
     /\ UNCHANGED <<early, faults>>
  \/ Fault /\ UNCHANGED <<db, early, suppressed>>

\* The settlement is stored, or retained in memory when its audit or its write fails.
SettleDelivery(id, disposition) ==
  \/ /\ db' = settleCollaborationSyncDelivery(db, id, disposition)
     /\ early' = without(early, id)
     /\ suppressed' = mergeSuppressions(db', suppressed)
     /\ UNCHANGED faults
  \/ /\ Fault
     /\ early' = with(early, id, disposition)
     /\ UNCHANGED <<db, suppressed>>

\* The delivery leaves #pendingDeliveries, and a reconnection may now be complete.
Released(c, l) == client' = completed(c) /\ link' = [l EXCEPT !.toServer = @ \o resent(c)]

received == [link EXCEPT !.toClient = Tail(@)]

\* Mutant of HandleStateless: the answered delivery stays pending.
HandleStatelessKeeps ==
  /\ link.up /\ link.toClient # <<>> /\ Head(link.toClient).type \in {"acknowledged", "rejected"}
  /\ LET m == Head(link.toClient) IN
       IF m.id \in DOMAIN client.pending
       THEN SettleDelivery(m.id, m.type) /\ Released(client, received)
       ELSE link' = received /\ UNCHANGED <<client, db, early, suppressed, faults>>
  /\ UNCHANGED <<server, peer, history, ids, sessions>>

\* #handleStateless.  An answer to another delivery or another state is ignored; a
\* failed audit keeps the delivery pending.
HandleStateless ==
  /\ link.up /\ link.toClient # <<>> /\ Head(link.toClient).type \in {"acknowledged", "rejected"}
  /\ LET m == Head(link.toClient) IN
       IF m.id \in DOMAIN client.pending /\ client.pending[m.id].vector = m.vector
       THEN \/ /\ SettleDelivery(m.id, m.type)
               /\ Released([client EXCEPT !.pending = without(@, m.id)], received)
            \/ Fault /\ link' = received /\ UNCHANGED <<client, db, early, suppressed>>
       ELSE link' = received /\ UNCHANGED <<client, db, early, suppressed, faults>>
  /\ UNCHANGED <<server, peer, history, ids, sessions>>

\* #expireDelivery: a delivery that nobody answered counts as rejected.  When its audit
\* fails it stays pending, without a timer.
ExpireDelivery(id) ==
  /\ client.pending[id].timer
  /\ \/ /\ SettleDelivery(id, "rejected")
        /\ Released([client EXCEPT !.pending = without(@, id)], link)
     \/ /\ Fault
        /\ client' = [client EXCEPT !.pending[id].timer = FALSE]
        /\ UNCHANGED <<link, db, early, suppressed>>
  /\ UNCHANGED <<server, peer, history, ids, sessions>>

\* #handleAuthenticated, after which nothing is possible that was not before, and then
\* #handleSynced on the answer to the first sync step.  The provider sends what the server
\* lacks, then the pending deliveries are confirmed again; a failed audit withholds the
\* confirmations and still arms their timers.
HandleSynced ==
  /\ link.up /\ link.toClient # <<>> /\ Head(link.toClient).type = "sync"
  /\ LET m == Head(link.toClient)
         c == [client EXCEPT !.synced = TRUE, !.doc = @ \cup m.ops]
         l == IF c.doc = m.ops THEN received
              ELSE [received EXCEPT !.toServer = Append(@, [type |-> "update", ops |-> c.doc \ m.ops])]
     IN \/ Released(c, l) /\ UNCHANGED faults
        \/ resent(c) # <<>> /\ Fault /\ client' = completed(c) /\ link' = l
  /\ UNCHANGED <<early, suppressed, db, server, peer, history, ids, sessions>>

\* A change of another member reaches the document of the session.
HandleUpdate ==
  /\ link.up /\ link.toClient # <<>> /\ Head(link.toClient).type = "update"
  /\ client' = [client EXCEPT !.doc = @ \cup Head(link.toClient).ops]
  /\ link' = received
  /\ UNCHANGED <<early, suppressed, db, server, peer, history, counters>>

HandleMessage == HandleStateless \/ HandleSynced \/ HandleUpdate

----------------------------------------------------------------------------
(***************************************************************************)
(* The calls of the window                                                 *)
(***************************************************************************)
\* #reserveDelivery
canReserve(c) == Cardinality(DOMAIN c.pending) < MaxPending

\* #commitReservedDeliveryReceipt, after the comments were put into the document: the
\* provider sends the update, the client the confirmation of the state it now has.
Published(comments, sent) ==
  LET doc == client.doc \cup comments IN
  /\ ids' = ids + 1
  /\ client' = [client EXCEPT !.doc = doc,
                              !.pending = with(@, ids', [vector |-> doc, timer |-> TRUE])]
  /\ link' = [link EXCEPT !.toServer = @ \o <<[type |-> "update", ops |-> comments]>>
                                         \o (IF sent THEN <<confirm(ids', doc)>> ELSE <<>>)]

\* createComment: the ledger row is stored before the document changes, and a comment
\* that does not extend the recovery state exactly is refused.
CreateComment(c) ==
  LET recovery == recoverCollaborationSyncState(db)
      fresh == recovery.disposition \in {"none", "synchronized"}
      candidate == client.doc \cup {c}
      pending == IF fresh THEN candidate ELSE effectiveCollaborationSyncPending(db) \cup {c}
  IN /\ c \notin created /\ \A d \in Own : d < c => d \in created
     /\ sharingReady(client) /\ ~polluted /\ canReserve(client) /\ ids < MaxDeliveries
     /\ canStageDelivery(db, pending, candidate)
     /\ db' = stageCollaborationSyncDelivery(db, ids + 1,
                 IF fresh THEN client.doc ELSE recovery.baseline, pending)
     /\ \/ Published({c}, TRUE) /\ UNCHANGED faults
        \/ Published({c}, FALSE) /\ Fault
     /\ created' = created \cup {c}
     /\ UNCHANGED <<early, suppressed, server, peer, discarded, overtaken, sessions>>

\* #tryReplayComments stages them over the current room.
canReplay(comments, s) ==
  comments \ commentsOf(s) # {} /\ client.doc \cap commentsOf(s) = {} /\ canReserve(client)

ReplayComments(d, comments) ==
  /\ ids < MaxDeliveries
  /\ IF ledgerHasRoom(d)
     THEN /\ db' = stageCollaborationSyncDelivery(d, ids + 1, client.doc, client.doc \cup comments)
          /\ Published(comments, TRUE)
          /\ overtaken' = overtaken \cup
               ((recoverCollaborationSyncState(d).pending \cap Own) \ (client.doc \cup comments))
     ELSE db' = d /\ UNCHANGED <<client, link, ids, overtaken>>

\* The part of #recover that compares the recovery state with the room.
RecoverIntent(d, s) ==
  LET current == client.doc \ commentsOf(s)
      recovery == recoverCollaborationSyncState(d)
      rejected == commentsOf(activeRejected(d)) \ current
      missing == missingComments(d, current)
      replayable == missing # {} /\ recovery.disposition # "rejected" /\ commentOnly(d)
  IN IF canReplay(rejected, s) THEN ReplayComments(d, rejected \ commentsOf(s))
     ELSE IF replayable /\ canReplay(missing, s) THEN ReplayComments(d, missing \ commentsOf(s))
     ELSE /\ db' = IF /\ ~replayable /\ recovery.disposition = "acknowledged"
                      /\ canCheckpoint(d, current)
                   THEN checkpointCollaborationSyncState(d, current) ELSE d
          /\ UNCHANGED <<client, link, ids, overtaken>>

\* #retryRetainedSettlements: all of them, none when the database still refuses.
retried(d) ==
  [d EXCEPT !.rows = [i \in DOMAIN @ |->
                        IF i \in DOMAIN early THEN [@[i] EXCEPT !.disposition = early[i]] ELSE @[i]]]

\* Mutant of checkpointDismissed: one dismissed comment is enough.
checkpointAnyDismissed(d) ==
  IF dismissedRejected(d) # {}
  THEN checkpointCollaborationSyncState(d, recoverCollaborationSyncState(d).baseline) ELSE d

\* The dismissed comments were all the local intent there was: nothing is left to keep.
checkpointDismissed(d) ==
  IF /\ activeRejected(d) = {} /\ dismissedRejected(d) # {}
     /\ collaborationRecoveryHasNoLocalIntent(d)
  THEN checkpointCollaborationSyncState(d, recoverCollaborationSyncState(d).baseline) ELSE d

\* #recover.  It stops while a rejection is known that could not be stored.
Recover ==
  /\ active(client)
  /\ \/ LET d == retried(db)
            s == mergeSuppressions(d, suppressed)
        IN /\ early' = <<>>
           /\ IF sharingReady(client) /\ recoverCollaborationSyncState(d).disposition # "none"
              THEN RecoverIntent(checkpointDismissed(d), s)
              ELSE db' = checkpointDismissed(d) /\ UNCHANGED <<client, link, ids, overtaken>>
           /\ suppressed' = mergeSuppressions(db', s)
           /\ UNCHANGED faults
     \/ /\ \E i \in DOMAIN early : early[i] = "rejected"
        /\ Fault
        /\ UNCHANGED <<client, link, ids, overtaken, early, db, suppressed>>
  /\ UNCHANGED <<server, peer, created, discarded, sessions>>

\* #checkpoint with the snapshot the window has just read.
Checkpoint ==
  LET recovery == recoverCollaborationSyncState(db)
      inMemory == recovery.id \in DOMAIN early /\ early[recovery.id] = "acknowledged"
  IN /\ sharingReady(client)
     /\ recovery.disposition \in {"none", "acknowledged", "synchronized"} \/ inMemory
     /\ canCheckpoint(db, effectiveSnapshot)
     /\ db' = checkpointCollaborationSyncState(db, effectiveSnapshot)
     /\ early' = IF inMemory THEN without(early, recovery.id) ELSE early
     /\ UNCHANGED <<client, suppressed, server, link, peer, history, counters>>

\* #discardRejectedComment, once the user has confirmed it.
DiscardRejectedComment ==
  /\ active(client)
  /\ \E e \in activeRejected(retried(db)) :
       LET d == discardRejectedCollaborationComment(retried(db), e) IN
       /\ db' = checkpointDismissed(d)
       /\ suppressed' = mergeSuppressions(d, suppressed)
       /\ discarded' = discarded \cup {e[1]}
  /\ early' = <<>>
  /\ UNCHANGED <<client, server, link, peer, created, overtaken, counters>>

----------------------------------------------------------------------------
(***************************************************************************)
(* The server                                                              *)
(***************************************************************************)
handled == [link EXCEPT !.toServer = Tail(@)]
answer(type, m) == [type |-> type, id |-> m.id, vector |-> m.vector]

\* beforeHandleMessage: a member that was revoked, and a reviewer whose update holds the
\* comment of somebody else (assertReviewerOnlyChangedReviewData).
allowed(m) ==
  server.member /\ (m.type = "update" => m.ops \ server.doc \subseteq Own)

\* Mutant of ServerHandles: the acknowledgement precedes the write.
ServerAcknowledgesFirst ==
  /\ link.up /\ link.toServer # <<>>
  /\ LET m == Head(link.toServer) IN
       IF m.type = "update"
       THEN server' = [server EXCEPT !.doc = @ \cup m.ops] /\ link' = handled
       ELSE /\ link' = [handled EXCEPT !.toClient = Append(@, answer("acknowledged", m))]
            /\ UNCHANGED server
  /\ UNCHANGED <<client, early, suppressed, db, peer, history, counters>>

\* An update is applied; a confirmation is answered after the document that includes
\* the confirmed state was stored (onStateless).
ServerHandles ==
  /\ link.up /\ link.toServer # <<>>
  /\ LET m == Head(link.toServer) IN
       CASE ~allowed(m) -> Dropped /\ UNCHANGED server
         [] allowed(m) /\ m.type = "update" ->
              /\ server' = [server EXCEPT !.doc = @ \cup m.ops]
              /\ link' = handled /\ UNCHANGED client
         [] OTHER ->
              LET included == m.vector \subseteq server.doc IN
              /\ server' = IF included THEN [server EXCEPT !.stored = server.doc] ELSE server
              /\ link' = [handled EXCEPT !.toClient =
                            Append(@, answer(IF included THEN "acknowledged" ELSE "rejected", m))]
              /\ UNCHANGED client
  /\ UNCHANGED <<early, suppressed, db, peer, history, counters>>

\* onStoreDocument, debounced.
ServerStores ==
  /\ server.stored # server.doc
  /\ server' = [server EXCEPT !.stored = server.doc]
  /\ UNCHANGED <<client, early, suppressed, db, link, peer, history, counters>>

\* A restart loads the stored document.
ServerCrash ==
  /\ Fault
  /\ server' = [server EXCEPT !.doc = server.stored]
  /\ IF link.up THEN Dropped ELSE UNCHANGED <<client, link>>
  /\ UNCHANGED <<early, suppressed, db, peer, history, ids, sessions>>

\* The owner of the room removes the reviewer.
Revoke ==
  /\ server.member /\ Fault
  /\ server' = [server EXCEPT !.member = FALSE]
  /\ UNCHANGED <<client, early, suppressed, db, link, peer, history, ids, sessions>>

\* Another member's comments arrive, or return after a restart of the server.
PeerSends(comments) ==
  /\ peer' = peer \cup comments
  /\ server' = [server EXCEPT !.doc = @ \cup comments]
  /\ link' = IF link.up
             THEN [link EXCEPT !.toClient = Append(@, [type |-> "update", ops |-> comments])]
             ELSE link
  /\ UNCHANGED <<client, early, suppressed, db, history, counters>>

PeerComments == \E c \in Foreign \ peer : PeerSends({c})
PeerResyncs == peer \ server.doc # {} /\ PeerSends(peer \ server.doc)

----------------------------------------------------------------------------
DeliveryNext ==
  \/ Join \/ Connect \/ JoinTimeout \/ Leave \/ Disconnect \/ DesktopCrash
  \/ HandleStateless \/ HandleSynced \/ HandleUpdate
  \/ \E id \in DOMAIN client.pending : ExpireDelivery(id)
  \/ \E c \in Own : CreateComment(c)
  \/ Recover \/ Checkpoint \/ DiscardRejectedComment
  \/ ServerHandles \/ ServerStores \/ ServerCrash \/ Revoke \/ PeerComments \/ PeerResyncs

DeliverySpec == DeliveryInit /\ [][DeliveryNext]_deliveryVars

\* The provider reconnects, messages are handled on both sides, timers fire, and another
\* member's desktop brings its comments back as this one does.
Transport == Connect \/ HandleMessage \/ ServerHandles
Expire == \E id \in DOMAIN client.pending : ExpireDelivery(id)

DeliveryFairSpec ==
  DeliverySpec /\ WF_deliveryVars(Transport) /\ WF_deliveryVars(Expire) /\ WF_deliveryVars(PeerResyncs)

----------------------------------------------------------------------------
(***************************************************************************)
(* Properties                                                              *)
(***************************************************************************)
\* Type invariant of the session, the ledger and the server.
DeliveryTypeOK ==
  /\ client.status \in {"none", "connecting", "connected", "reconnecting", "offline", "error"}
  /\ client.doc \subseteq Comments /\ DOMAIN client.pending \subseteq 1..ids
  /\ Cardinality(DOMAIN client.pending) <= MaxPending
  /\ \A i \in DOMAIN db.rows : db.rows[i] \in [baseline : SUBSET Comments,
                                              candidate : SUBSET Comments,
                                              disposition : Dispositions]
  /\ Cardinality(DOMAIN db.rows) <= MaxRows
  /\ server.doc \subseteq Comments /\ server.stored \subseteq server.doc
  /\ \A i \in DOMAIN early : early[i] \in {"acknowledged", "rejected"}

\* What the desktop calls acknowledged is in the server's database and survives a
\* restart of the server (server.ts onStateless stores before it answers; client.ts
\* confirms the state that includes the comment), through reconnections, answers that
\* arrive late and settlements that were retained in memory.
AcknowledgedIsDurable ==
  /\ \A i \in Settled(db, "acknowledged") : db.rows[i].candidate \subseteq server.stored
  /\ \A i \in DOMAIN early \cap DOMAIN db.rows :
       early[i] = "acknowledged" => db.rows[i].candidate \subseteq server.stored

\* A running session forgets no delivery of its own: what the ledger still shows as sent
\* waits for an answer or its settlement waits for the database (client.ts
\* #pendingDeliveries, ipc.ts #earlyDeliverySettlements).
NoDeliveryForgotten ==
  client.status \notin {"none", "error"} =>
    \A i \in Settled(db, "sent") :
      i > client.from => i \in DOMAIN client.pending \cup DOMAIN early

\* Where a comment of the reviewer can be found again.
retained == server.stored \cup (IF recoverCollaborationSyncState(db).disposition = "none" THEN {}
                                ELSE recoverCollaborationSyncState(db).pending)
                          \cup commentsOf(activeRejected(db))

\* A comment that was accepted is never lost (sync-state.ts 161-190, ipc.ts 912-1018): it is stored on the
\* server, pending on disk or quarantined as rejected, unless the user discarded it or a
\* replay of older rejected comments replaced the delivery that carried it.
IntentSurvives == created \ (discarded \cup overtaken) \subseteq retained

\* sync-state.ts 176, 'Unresolved collaboration intent cannot be checkpointed away': an
\* accepted comment that is not on the server stays at least in a row of the ledger.
UnresolvedIntentSurvives ==
  created \ discarded \subseteq retained \cup UNION {db.rows[i].candidate : i \in DOMAIN db.rows}

\* A settlement is final: a late answer, a timer or a retry never turns an
\* acknowledgement into a rejection or back (client.ts 851-972).
SettlementsAreFinal ==
  [][\A i \in DOMAIN db.rows \cap DOMAIN db'.rows :
       db.rows[i].disposition # "sent" => db'.rows[i].disposition = db.rows[i].disposition
    ]_deliveryVars

\* A delivery whose expiry could not be audited: it waits for the next reconnection.
waitsForReconnect(i) == ~client.pending[i].timer /\ client.synced

\* A session that reconnects gets through: its deliveries are answered or expire, and it
\* is connected again, has ended, or holds a delivery whose expiry could not be audited
\* (client.ts 651-700, 909-972).
ReconnectCompletes ==
  (client.status = "reconnecting") ~>
    (client.status # "reconnecting" \/ \E i \in DOMAIN client.pending : waitsForReconnect(i))

\* client.ts 878-879, "Its bounded timer will reject it honestly if required audit storage
\* remains unavailable": in a session that stays up no delivery waits for ever.
BoundedTimerSettles ==
  \A id \in 1..MaxDeliveries :
    (id \in DOMAIN client.pending /\ client.status = "connected") ~>
      (id \notin DOMAIN client.pending \/ client.status # "connected")
=============================================================================
