---------------------------- MODULE MCJobRecords ----------------------------
(* Instances of JobRecords for TLC: the proofs show the same for any number *)
(* of jobs, finalizers and processes.                                       *)
EXTENDS JobRecords

CONSTANTS a, b
=============================================================================
