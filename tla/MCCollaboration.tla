-------------------------- MODULE MCCollaboration --------------------------
(* A reviewer who writes two comments, and one comment of another member;  *)
(* alone with one comment for SilentDelivery.                              *)
EXTENDS CollaborationDelivery
MCOwn == {1, 2}
MCForeign == {10}
MCOne == {1}
MCNobody == {}
=============================================================================
