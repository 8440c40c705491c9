----------------------------- MODULE MCGraduation -----------------------------
(* Small instances of Graduation. *)
EXTENDS Graduation

CONSTANTS stray, none
=============================================================================
