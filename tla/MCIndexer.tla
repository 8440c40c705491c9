------------------------------- MODULE MCIndexer -------------------------------
(* Small instances of Indexer. *)
EXTENDS Rebuild, TLC

CONSTANTS alice, bob

Symmetry == Permutations({alice, bob})
=============================================================================
