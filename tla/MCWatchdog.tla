----------------------------- MODULE MCWatchdog -----------------------------
(* Two ranks; every deadline is a few turns of the loop.                   *)
EXTENDS Watchdog, TLC

CONSTANTS r0, r1

RankSymmetry == Permutations({r0, r1})
=============================================================================
