------------------------------ MODULE MCFleet -------------------------------
(* Two terminals; an eight-GPU configuration, one of two four-GPU workers  *)
(* and "updated", the same two workers with newer code.                    *)
EXTENDS Fleet

CONSTANTS t1, t2

AllInstances == <<"single", "worker-0", "worker-1">>

TwoPlans ==
  [c \in {"eight", "four", "updated"} |->
     IF c = "eight" THEN <<"single">> ELSE <<"worker-0", "worker-1">>]
=============================================================================
