---------------------------- MODULE MCLaunchpad -----------------------------
(* Small instances of Launchpad.  The fee denominator is scaled from       *)
(* 10_000 to 4 so that a few wei already carry two fee legs and round      *)
(* apart; the other constants keep the proportions of the deployed ones    *)
(* (threshold about three times the virtual ETH, three quarters of the     *)
(* virtual tokens for sale).                                               *)
EXTENDS Launchpad, TLC

CONSTANTS c1, c2, k1, k2, safe, hostile

Symmetry == Permutations({c1, c2})
=============================================================================
