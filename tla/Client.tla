------------------------------- MODULE Client -------------------------------
(***************************************************************************)
(* One call of runner.generate per request, as far as the worker is        *)
(* concerned: gpu.lock, backend.call_worker and backend.wait_output.       *)
(* Every read of another file is a step of its own, because what was read  *)
(* may be stale when the next one is made.  The clock is abstract: a       *)
(* deadline may pass whenever the code looks at it.                        *)
(***************************************************************************)
EXTENDS Mailbox

VARIABLES
  cpc,          \* where the call stands
  cinst,        \* state["instance"] as read before publishing
  reason,       \* cancel_reason of a call that is about to cancel
  gpu_lock,     \* the holder of gpu.lock
  outcome       \* what the call returned or raised

clientVars == <<cpc, cinst, reason, gpu_lock, outcome>>

Holding == {"health", "publish", "result", "receipt", "check", "cancel", "write_cancel"}
ClientPCs == {"idle", "lock", "wait_result", "wait_health", "done"} \union Holding

ClientTypeOK ==
  /\ cpc \in [Requests -> ClientPCs]
  /\ cinst \in [Requests -> MaybeInstance]
  /\ reason \in [Requests -> Reasons]
  /\ gpu_lock \in Requests \union {NoToken}
  /\ outcome \in [Requests -> {"none"} \union Verdicts]

ClientInit ==
  /\ cpc = [c \in Requests |-> "idle"]
  /\ cinst = [c \in Requests |-> 0]
  /\ reason = [c \in Requests |-> "cancelled"]
  /\ gpu_lock = NoToken
  /\ outcome = [c \in Requests |-> "none"]

Goto(c, from, to) ==
  /\ cpc[c] = from
  /\ cpc' = [cpc EXCEPT ![c] = to]

(* Mutant of End: the lock stays with a call that is over.                 *)
EndKeepingLock(c, verdict) ==
  /\ cpc' = [cpc EXCEPT ![c] = "done"]
  /\ outcome' = [outcome EXCEPT ![c] = verdict]
  /\ UNCHANGED <<gpu_lock, cinst, reason, mailVars>>

(* The call ends: the lock, if held, is released by the "with" statement.  *)
End(c, verdict) ==
  /\ cpc' = [cpc EXCEPT ![c] = "done"]
  /\ outcome' = [outcome EXCEPT ![c] = verdict]
  /\ gpu_lock' = IF gpu_lock = c THEN NoToken ELSE gpu_lock
  /\ UNCHANGED <<cinst, reason, mailVars>>

Submit(c) ==
  /\ Goto(c, "idle", "lock")
  /\ UNCHANGED <<cinst, reason, gpu_lock, outcome, mailVars>>

AcquireLock(c) ==
  /\ Goto(c, "lock", "health")
  /\ gpu_lock = NoToken
  /\ gpu_lock' = c
  /\ UNCHANGED <<cinst, reason, outcome, mailVars>>

InterruptWhileQueued(c) == cpc[c] = "lock" /\ End(c, "failed")

(* state = health(); validate_profile raises unless it is ready.           *)
ReadHealth(c) ==
  \/ /\ Ready
     /\ Goto(c, "health", "publish")
     /\ cinst' = [cinst EXCEPT ![c] = state.inst]
     /\ UNCHANGED <<reason, gpu_lock, outcome, mailVars>>
  \/ /\ ~Ready
     /\ cpc[c] = "health"
     /\ End(c, "failed")

(* The command is addressed to the instance read above, alive or not.      *)
Publish(c) ==
  /\ Goto(c, "publish", "result")
  /\ command' = [token |-> c, inst |-> cinst[c]]
  /\ UNCHANGED <<cinst, reason, gpu_lock, outcome, state, launch, owner, results, gpu_results,
                 cancel, supervisor, failures, errors, live, controller>>

ReadResult(c) ==
  /\ cpc[c] = "result"
  /\ \/ results[c] # "none" /\ End(c, results[c])
     \/ /\ results[c] = "none"
        /\ Goto(c, "result", IF c \in Deferred THEN "receipt" ELSE "check")
        /\ UNCHANGED <<cinst, reason, gpu_lock, outcome, mailVars>>

(* Mutant of ReadReceipt: the receipt is taken for the result.             *)
ReceiptAsResult(c) ==
  /\ cpc[c] = "receipt"
  /\ \/ gpu_results[c] = cinst[c] /\ End(c, "ok")
     \/ /\ gpu_results[c] # cinst[c]
        /\ Goto(c, "receipt", "check")
        /\ UNCHANGED <<cinst, reason, gpu_lock, outcome, mailVars>>

(* A receipt of this instance ends the GPU phase: the lock is released and *)
(* the caller goes on to wait_output with the ticket.                      *)
ReadReceipt(c) ==
  /\ \/ /\ gpu_results[c] # 0 /\ gpu_results[c] = cinst[c]
        /\ Goto(c, "receipt", "wait_result")
        /\ gpu_lock' = NoToken
     \/ /\ ~(gpu_results[c] # 0 /\ gpu_results[c] = cinst[c])
        /\ Goto(c, "receipt", "check")
        /\ UNCHANGED gpu_lock
  /\ UNCHANGED <<cinst, reason, outcome, mailVars>>

InstanceGone(c) == ~Ready \/ state.inst # cinst[c]

CheckHealth(c) ==
  /\ cpc[c] = "check"
  /\ \/ InstanceGone(c) /\ End(c, "failed")
     \/ /\ ~InstanceGone(c)
        /\ Goto(c, "check", "result")
        /\ UNCHANGED <<cinst, reason, gpu_lock, outcome, mailVars>>

(* interrupt() raised, or the request deadline passed: cancel_needed.      *)
WantCancel(c, why) ==
  /\ Goto(c, "result", "cancel")
  /\ reason' = [reason EXCEPT ![c] = why]
  /\ UNCHANGED <<cinst, gpu_lock, outcome, mailVars>>

(* cancel.json is written only if there is no result and state.json is     *)
(* still about this instance; the receipt is not looked at.                *)
CancelNeeded(c) == results[c] = "none" /\ state.inst = cinst[c]

DecideCancel(c) ==
  /\ cpc[c] = "cancel"
  /\ \/ /\ CancelNeeded(c)
        /\ Goto(c, "cancel", "write_cancel")
        /\ UNCHANGED <<cinst, reason, gpu_lock, outcome, mailVars>>
     \/ ~CancelNeeded(c) /\ End(c, "failed")

WriteCancel(c) ==
  /\ Goto(c, "write_cancel", "done")
  /\ cancel' = [inst |-> cinst[c], token |-> c, reason |-> reason[c]]
  /\ outcome' = [outcome EXCEPT ![c] = "failed"]
  /\ gpu_lock' = NoToken
  /\ UNCHANGED <<cinst, reason, state, launch, owner, command, results, gpu_results,
                 supervisor, failures, errors, live, controller>>

(* The call leaves without cancelling: progress() raised, or its process   *)
(* died and the kernel released the lock.                                  *)
Abandon(c) == cpc[c] \in Holding /\ End(c, "failed")

WaitResult(c) ==
  /\ cpc[c] = "wait_result"
  /\ \/ results[c] # "none" /\ End(c, results[c])
     \/ /\ results[c] = "none"
        /\ Goto(c, "wait_result", "wait_health")
        /\ UNCHANGED <<cinst, reason, gpu_lock, outcome, mailVars>>

WaitHealth(c) ==
  /\ cpc[c] = "wait_health"
  /\ \/ InstanceGone(c) /\ End(c, "failed")
     \/ /\ ~InstanceGone(c)
        /\ Goto(c, "wait_health", "wait_result")
        /\ UNCHANGED <<cinst, reason, gpu_lock, outcome, mailVars>>

(* interrupt(), or 300 seconds have passed: the wait ends, nothing is      *)
(* cancelled.                                                              *)
WaitExpires(c) == cpc[c] = "wait_result" /\ End(c, "failed")

ClientNext(c) ==
  \/ Submit(c) \/ AcquireLock(c) \/ InterruptWhileQueued(c) \/ ReadHealth(c)
  \/ Publish(c) \/ ReadResult(c) \/ ReadReceipt(c) \/ CheckHealth(c)
  \/ \E why \in Reasons : WantCancel(c, why)
  \/ DecideCancel(c) \/ WriteCancel(c)
  \/ WaitResult(c) \/ WaitHealth(c) \/ WaitExpires(c)
=============================================================================
