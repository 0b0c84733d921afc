----------------------------- MODULE MCResident -----------------------------
(* Instances of Resident for TLC: two requests, two ranks. *)
EXTENDS Resident

CONSTANTS a, b, r0, r1
=============================================================================
