---------------------------- MODULE MCWarmStart -----------------------------
(* One variant of another duration, prompts in buckets of their own, and   *)
(* one of them that is sent with two attention options.                    *)
EXTENDS WarmStart
CONSTANTS r0, r1

Req(prompt, plan) == [prompt |-> prompt, plan |-> plan, options |-> "flex"]
FourWanted ==
  {Req("x", 1), Req("y", 1), Req("z", 1), [Req("y", 1) EXCEPT !.options = "isolated"]}
WarmBase == Req("warm", 1)
OneDuration == <<Req("warm", 2)>>
Buckets == [warm |-> 1, x |-> 2, y |-> 3, z |-> 4]
=============================================================================
