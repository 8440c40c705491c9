------------------------------ MODULE MCListing ------------------------------
(* Small instances of Listing. *)
EXTENDS Listing

CONSTANTS p1, p2
=============================================================================
