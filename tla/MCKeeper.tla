----------------------------- MODULE MCKeeper -------------------------------
(* Small instances of GraduationKeeper. *)
EXTENDS GraduationKeeper

CONSTANTS c1
=============================================================================
