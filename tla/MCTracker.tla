----------------------------- MODULE MCTracker ------------------------------
(* Small instances of ConfirmationTracker; all its constants are numbers. *)
EXTENDS ConfirmationTracker
=============================================================================
