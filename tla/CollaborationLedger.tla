------------------------ MODULE CollaborationLedger ------------------------
(***************************************************************************)
(* What the desktop keeps on disk of a shared canvas: the ledger of its    *)
(* deliveries, the recovery state projected from it, the quarantine of     *)
(* rejected comments and the dismissals of the user.                       *)
(*                                                                         *)
(*   storage/collaboration/sync-state.ts                                   *)
(*   storage/collaboration/rejected-comment-dismissals.ts                  *)
(*   shared/collaboration/sync/dismissals.ts, comment-intent.ts            *)
(*                                                                         *)
(* One scope (project, canvas, server, room, subject).  A snapshot of the  *)
(* canvas is the set of its comments: this is the data of a reviewer, who  *)
(* may add comments and nothing else.  A comment never changes its value,  *)
(* so its identity stands for it.  Every operator that changes the         *)
(* database is one transaction of the code.                                *)
(***************************************************************************)
EXTENDS Naturals, FiniteSets, FiniteSetsExt

CONSTANTS Own,        \* the comments the subject of this scope may write
          Foreign,    \* the comments of other members
          MaxRows     \* COLLABORATION_SYNC_MAX_DELIVERIES_PER_SCOPE

ASSUME LedgerAssumption == Own \cap Foreign = {} /\ MaxRows \in Nat \ {0}

Comments == Own \cup Foreign
Dispositions == {"sent", "acknowledged", "rejected"}

\* rows: delivery sequence -> row; kept/snapshot: a state row without deliveries
\* (disposition 'synchronized'); dismissals: <<comment, rejectedThroughSequence>>.
EmptyDatabase == [rows |-> <<>>, kept |-> FALSE, snapshot |-> {}, dismissals |-> {}]

Settled(db, disposition) == {i \in DOMAIN db.rows : db.rows[i].disposition = disposition}

\* recoverRejectedCommentEntries: <<comment, sequence of its latest rejection>>.
recoverRejectedCommentEntries(db) ==
  LET acked == Settled(db, "acknowledged")
      before(i) == {j \in acked : j < i}
      ackedBefore(i) == IF before(i) = {} THEN {} ELSE db.rows[Max(before(i))].candidate
      ackedAfter(i) == UNION {db.rows[j].candidate : j \in {k \in acked : k > i}}
      unshared(i) == (db.rows[i].candidate \cap Own)
                       \ (db.rows[i].baseline \cup ackedBefore(i) \cup ackedAfter(i))
      refused(c) == {i \in Settled(db, "rejected") : c \in unshared(i)}
  IN {<<c, Max(refused(c))>> : c \in {d \in Own : refused(d) # {}}}

\* A later rejection of the same comment is not covered by an earlier dismissal.
isDismissed(db, e) == \E d \in db.dismissals : d[1] = e[1] /\ e[2] <= d[2]

activeRejected(db) == {e \in recoverRejectedCommentEntries(db) : ~isDismissed(db, e)}
dismissedRejected(db) == {e \in recoverRejectedCommentEntries(db) : isDismissed(db, e)}

commentsOf(entries) == {e[1] : e \in entries}

\* projectDeliveryLedger: the state row shows the newest delivery over the newest
\* acknowledged candidate.
projectDeliveryLedger(db) ==
  LET latest == Max(DOMAIN db.rows)
      acked == Settled(db, "acknowledged")
  IN [id |-> latest,
      baseline |-> IF acked = {} THEN db.rows[Min(DOMAIN db.rows)].baseline
                                 ELSE db.rows[Max(acked)].candidate,
      pending |-> db.rows[latest].candidate,
      disposition |-> db.rows[latest].disposition]

\* recoverCollaborationSyncState; disposition "none" stands for null.
recoverCollaborationSyncState(db) ==
  CASE DOMAIN db.rows # {} -> projectDeliveryLedger(db)
    [] OTHER -> [id |-> 0, baseline |-> db.snapshot, pending |-> db.snapshot,
                 disposition |-> IF db.kept THEN "synchronized" ELSE "none"]

effectiveCollaborationSyncPending(db) ==
  recoverCollaborationSyncState(db).pending \ commentsOf(dismissedRejected(db))

collaborationRecoveryHasNoLocalIntent(db) ==
  effectiveCollaborationSyncPending(db) = recoverCollaborationSyncState(db).baseline

\* Mutant of ledgerHasRoom: off by one.
ledgerHasRoomForOneMore(db) == Cardinality(DOMAIN db.rows) <= MaxRows

\* assertCollaborationLedgerQuota for one more delivery.
ledgerHasRoom(db) == Cardinality(DOMAIN db.rows) < MaxRows

\* stageCollaborationSyncDelivery throws on a digest that is not the candidate's and
\* on a full ledger; the transaction is then rolled back.
canStageDelivery(db, pending, digest) == pending = digest /\ ledgerHasRoom(db)

stageCollaborationSyncDelivery(db, id, baseline, pending) ==
  [db EXCEPT !.rows = [i \in DOMAIN @ \cup {id} |->
                         IF i = id THEN [baseline |-> baseline, candidate |-> pending,
                                         disposition |-> "sent"]
                                   ELSE @[i]]]

\* A delivery whose row a checkpoint has deleted is settled without effect.
settleCollaborationSyncDelivery(db, id, disposition) ==
  IF id \in DOMAIN db.rows THEN [db EXCEPT !.rows[id].disposition = disposition] ELSE db

\* checkpointCollaborationSyncState: refused over a quarantined comment, and unless the
\* pending value, less the dismissed comments, is the snapshot itself.
canCheckpoint(db, snapshot) ==
  /\ activeRejected(db) = {}
  /\ recoverCollaborationSyncState(db).disposition # "none" =>
       effectiveCollaborationSyncPending(db) = snapshot

checkpointCollaborationSyncState(db, snapshot) ==
  [rows |-> <<>>, kept |-> TRUE, snapshot |-> snapshot, dismissals |-> {}]

discardRejectedCollaborationComment(db, entry) ==
  [db EXCEPT !.dismissals = @ \cup {entry}]

\* analyzeCollaborationCommentRecovery: the comments to publish again, if the pending
\* value differs from its baseline by own comments only.
missingComments(db, current) ==
  LET recovery == recoverCollaborationSyncState(db)
  IN ((effectiveCollaborationSyncPending(db) \ recovery.baseline) \cap Own) \ current

commentOnly(db) ==
  LET recovery == recoverCollaborationSyncState(db)
  IN /\ recovery.baseline \subseteq effectiveCollaborationSyncPending(db)
     /\ effectiveCollaborationSyncPending(db) \ recovery.baseline \subseteq Own
=============================================================================
