---------------------------- MODULE MCVideoOutput ----------------------------
(* Instances of VideoOutput for TLC. *)
EXTENDS VideoOutput
=============================================================================
