------------------------------ MODULE Resident ------------------------------
(***************************************************************************)
(* The resident service: clients, worker group and controller composed     *)
(* over the mailbox.  The controller's launch, stop and clean-up steps are *)
(* joint with the start and the death of the rank processes; every other   *)
(* step is of one component.                                               *)
(*                                                                         *)
(* Faults names the kinds of fault that may happen, faults bounds how many *)
(* of them happen in one behaviour.                                        *)
(***************************************************************************)
EXTENDS Client, Worker, Supervisor

CONSTANTS
  Faults,       \* subset of FaultKinds
  MaxFaults     \* bound: faults in one behaviour

FaultKinds == {"raise", "die", "disk", "abandon", "launch", "controller", "shutdown"}

ASSUME ResidentAssumption ==
  /\ Faults \subseteq FaultKinds
  /\ MaxFaults \in Nat

VARIABLE faults

vars == <<mailVars, clientVars, workerVars, supervisorVars, faults>>

TypeOK ==
  /\ MailboxTypeOK
  /\ ClientTypeOK
  /\ WorkerTypeOK
  /\ SupervisorTypeOK
  /\ faults \in 0 .. MaxFaults

Init ==
  /\ MailboxInit
  /\ ClientInit
  /\ WorkerInit
  /\ SupervisorInit
  /\ faults = MaxFaults

-----------------------------------------------------------------------------
(* No rank renews a heartbeat under this instance and rank number, since   *)
(* only the main loop of a rank does.                                      *)
Silent ==
  \E r \in Ranks : \A g \in Instances : ~(rpc[g][r] = "poll" /\ ident[g][r] = instance)

SupervisorLocal ==
  \/ StartController \/ TryLaunch(Holders) \/ LaunchRefused(Holders)
  \/ WriteLoading \/ WriteOwner \/ ReportLoading
  \/ RecoverCancelled \/ RecoverFailed(Silent) \/ ReportReady
  \/ FailCommand \/ FailReceipts \/ RecordFailure \/ WriteStopped

LaunchGroup == Popen /\ StartRanks(launched)

ReapGroup == (StopGroup \/ ReapWorker) /\ KillRanks({worker})

ClearGroups == ClearGPUs(Holders) /\ KillRanks(Holders)

ClientStep(c) == ClientNext(c) /\ UNCHANGED <<workerVars, supervisorVars, faults>>
WorkerStep(g) == WorkerNext(g) /\ UNCHANGED <<clientVars, supervisorVars, faults>>
SupervisorStep == SupervisorLocal /\ UNCHANGED <<clientVars, workerVars, faults>>
JointStep == (LaunchGroup \/ ReapGroup \/ ClearGroups) /\ UNCHANGED <<clientVars, faults>>

Fault(kind) == kind \in Faults /\ faults > 0 /\ faults' = faults - 1

ClientFault(c) ==
  Fault("abandon") /\ Abandon(c) /\ UNCHANGED <<workerVars, supervisorVars>>

WorkerFault(g) ==
  /\ \/ Fault("raise") /\ \E r \in Ranks : RankRaises(g, r)
     \/ Fault("die") /\ \E r \in Ranks : RankDies(g, r)
     \/ Fault("disk") /\ ReceiptWriteFails(g)
  /\ UNCHANGED <<clientVars, supervisorVars>>

SupervisorFault ==
  /\ \/ Fault("launch") /\ LaunchFails
     \/ Fault("controller") /\ ControllerDies
     \/ Fault("shutdown") /\ Shutdown
  /\ UNCHANGED <<clientVars, workerVars>>

Next ==
  \/ \E c \in Requests : ClientStep(c) \/ ClientFault(c)
  \/ \E g \in Instances : WorkerStep(g) \/ WorkerFault(g)
  \/ SupervisorStep \/ JointStep \/ SupervisorFault

Spec == Init /\ [][Next]_vars

(* The GPU check before a launch sees a group only once it has loaded its  *)
(* model.  Attended excludes what it cannot see: a group still starting    *)
(* that no controller supervises.                                          *)
Starting(g) == \E r \in Ranks : rpc[g][r] \in {"starting", "joining"}
Attending(g) ==
  \/ spc = "owner" /\ g = launched
  \/ spc \notin {"down", "clear"} /\ g = worker
Attended == \A g \in Instances : Starting(g) => Attending(g)

AttendedSpec == Init /\ [][Next /\ Attended']_vars

-----------------------------------------------------------------------------
(* Fairness.  A client thread goes on while its process lives; flock is    *)
(* retried every 0.2 s, so a lock that is free again and again is taken;   *)
(* monotonic time passes, so a call that polls for ever meets its          *)
(* deadline.  The controller's loop runs every 0.3 s.  Nothing is assumed  *)
(* of the worker group, of interrupts or of who starts a controller.       *)
ClientProgress(c) ==
  /\ \/ ReadHealth(c) \/ Publish(c) \/ ReadResult(c) \/ ReadReceipt(c)
     \/ CheckHealth(c) \/ DecideCancel(c) \/ WriteCancel(c)
     \/ WaitResult(c) \/ WaitHealth(c)
  /\ UNCHANGED <<workerVars, supervisorVars, faults>>

ClientDeadline(c) ==
  /\ WantCancel(c, "timeout") \/ WaitExpires(c)
  /\ UNCHANGED <<workerVars, supervisorVars, faults>>

ClientLocks(c) == AcquireLock(c) /\ UNCHANGED <<workerVars, supervisorVars, faults>>

ClientFairness ==
  \A c \in Requests :
    WF_vars(ClientProgress(c)) /\ SF_vars(ClientDeadline(c)) /\ SF_vars(ClientLocks(c))

ControllerProgress ==
  \/ SupervisorStep /\ spc # "down"
  \/ JointStep

FairSpec == Spec /\ ClientFairness /\ WF_vars(ControllerProgress)
AttendedFairSpec == AttendedSpec /\ ClientFairness /\ WF_vars(ControllerProgress)

-----------------------------------------------------------------------------
(* A group loads its model only onto GPUs no other group holds: "Check the *)
(* selected cards before loading another full model on them" (gpu_check).  *)
LoadsOnFreeGPUs ==
  [][\A g \in Instances : LoadModels(g) => Holders = {}]_vars

(* A published success is never rewritten: fail_pending and the worker's   *)
(* own exception handler leave it alone (README, "a successful result is   *)
(* not rewritten").                                                        *)
SuccessIsFinal == [][\A t \in Requests : results[t] = "ok" => results'[t] = "ok"]_vars

(* No result of any kind is ever written twice.                            *)
ResultsAreFinal == [][\A t \in Requests : results[t] # "none" => results'[t] = results[t]]_vars

(* Once failures/{instance}.json exists the instance is dead and every     *)
(* request it issued a receipt for has a result: the CPU outputs a crashed *)
(* worker leaves behind fail explicitly.                                   *)
FailureSettlesOutputs ==
  \A i \in failures :
    /\ i \notin live
    /\ \A t \in Requests : gpu_results[t] = i => results[t] # "none"

(* The group is on its way out: nothing new will be accepted for it.       *)
Doomed(g) ==
  \/ g \notin live
  \/ cancel.inst = g
  \/ state = [inst |-> g, status |-> "failed"]
  \/ g \in errors
  \/ supervisor.status \in {"recovering", "stopped"}
  \/ supervisor.ctrl # controller
  \/ supervisor.inst # g

Running(g, r) == rpc[g][r] = "run" \/ (r = Main /\ rpc[g][r] = "slot")

(* Requests are serial on the GPUs: while the group has a future, all its  *)
(* ranks that serve a request serve the same one.                          *)
RanksAgree ==
  \A g \in Instances : \A r, s \in Ranks :
    Running(g, r) /\ Running(g, s) /\ last[g][r] # last[g][s] => Doomed(g)

(* Nothing is run again after it succeeded (no rank lags behind a result   *)
(* that main has published), while the group has a future.                 *)
RunsOnlyUnsettled ==
  \A g \in Instances : \A r \in Ranks :
    Running(g, r) /\ results[last[g][r]] = "ok" => Doomed(g)

(* A rank only ever runs what a client published for the very group it     *)
(* belongs to, although clients publish after a look at state.json that    *)
(* may be out of date, and ranks take their identity from launch.json.     *)
NoStaleCommand ==
  \A g \in Instances : \A r \in Ranks : Running(g, r) => cinst[last[g][r]] = g

(* A group keeps at most Capacity unfinished outputs, receipts that wait   *)
(* for their result included, and no slot leaks: what is free and what is  *)
(* held add up.                                                            *)
Unfinished(g) ==
  {t \in Requests : outputs[g][t] # "none" \/ (gpu_results[t] = g /\ results[t] = "none")}
HoldsSlot(g) == last[g][Main] \in Deferred /\ rpc[g][Main] \in {"run", "ran", "finish"}
SlotAccounting ==
  \A g \in live :
    /\ Cardinality(Unfinished(g)) <= Capacity
    /\ rpc[g][Main] \in {"poll"} \union Serving =>
         slots[g] + Cardinality({t \in Requests : outputs[g][t] # "none"})
           + (IF HoldsSlot(g) THEN 1 ELSE 0) = Capacity

(* A call made after a cancellation is on disk is not let into the group   *)
(* that is about to be stopped, to wait there when it goes: generation is  *)
(* refused until the group is reloaded (README.md:41).  The call that      *)
(* cancels writes cancel.json before it lets gpu.lock go; the controller   *)
(* looks for the file every 0.3 s, and health says ready in between.       *)
CancelledGroupTakesNoJob ==
  \A c \in Requests, g \in Instances :
    [](cancel.inst = g /\ cpc[c] = "idle"
         => [](command.inst = g /\ cpc[c] \in {"result", "receipt", "check"} => g \in live))

(* Every call that asked for the lock ends, whatever the worker group and  *)
(* the controller do.                                                      *)
EveryCallEnds == \A c \in Requests : cpc[c] # "idle" ~> cpc[c] = "done"

(* A receipt of a group that is gone gets its result, unless the           *)
(* controller goes first.                                                  *)
OrphanedOutputsSettle ==
  \A t \in Requests :
    gpu_results[t] # 0 /\ gpu_results[t] \notin live /\ gpu_results[t] = instance
      ~> results[t] # "none" \/ spc \in {"down", "reap", "final"}

(* Recovery ends in another launch, unless the bound on launches or the    *)
(* end of the controller stops it.                                         *)
RecoveryRelaunches ==
  supervisor.status = "recovering" /\ spc # "down"
    ~> \/ supervisor.status = "loading"
       \/ launched = MaxLaunch
       \/ spc \in {"down", "reap", "final"}

-----------------------------------------------------------------------------
(* What a caller may rely on, without the mailbox.                         *)
Ledger == INSTANCE Ledger WITH verdicts <- results, answers <- outcome
RefinesLedger == Ledger!Spec
=============================================================================
