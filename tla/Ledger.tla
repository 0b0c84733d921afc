------------------------------- MODULE Ledger -------------------------------
(***************************************************************************)
(* What the service promises its callers: a request gets at most one       *)
(* verdict, the verdict is never changed, and a caller is told of success  *)
(* only if the request has succeeded.  A caller may be told of failure     *)
(* when it gives up, whatever becomes of the request.                      *)
(***************************************************************************)
CONSTANTS Requests

VARIABLES
  verdicts,     \* what became of each request
  answers       \* what its caller was told

ledgerVars == <<verdicts, answers>>

Verdict == {"ok", "failed"}

Init ==
  /\ verdicts = [t \in Requests |-> "none"]
  /\ answers = [t \in Requests |-> "none"]

(* Several requests may be settled at once, when a worker group is lost.   *)
Settle ==
  /\ verdicts' \in [Requests -> {"none"} \union Verdict]
  /\ \A t \in Requests : verdicts[t] # "none" => verdicts'[t] = verdicts[t]
  /\ UNCHANGED answers

Answer(t) ==
  /\ answers[t] = "none"
  /\ \E v \in Verdict :
       /\ v = "ok" => verdicts[t] = "ok"
       /\ answers' = [answers EXCEPT ![t] = v]
  /\ UNCHANGED verdicts

Next == Settle \/ \E t \in Requests : Answer(t)

Spec == Init /\ [][Next]_ledgerVars
=============================================================================
