------------------------ MODULE MCFeedbackLifecycle ------------------------
(***************************************************************************)
(* Small instances of FeedbackLifecycle for TLC.                           *)
(***************************************************************************)
EXTENDS FeedbackLifecycle
=============================================================================
