----------------------------- MODULE Supervisor -----------------------------
(***************************************************************************)
(* scripts/serve.py: the controller that launches the worker group, polls  *)
(* cancel.json and the watchdog every 0.3 s, and on a cancel or a failure  *)
(* stops the group, settles what it left behind and launches another one.  *)
(* recover() and launch_worker() are split at every file they write, since *)
(* clients read the mailbox between two of those writes.  Back-off delays  *)
(* are abstracted: the next attempt comes at some time.                    *)
(***************************************************************************)
EXTENDS Mailbox

VARIABLES
  spc,          \* where the controller stands
  worker,       \* the instance whose process handle it holds, 0 for None
  instance,     \* its local variable: the instance launched last, 0 for None
  launched,     \* worker groups launched by all controllers so far
  ready_since,  \* watchdog.ready_since is set
  started       \* controllers started so far

supervisorVars == <<spc, worker, instance, launched, ready_since, started>>

SupervisorPCs == {"down", "clear", "poll", "stop", "fail_command", "fail_receipts",
                  "record", "wait", "state", "popen", "owner", "report", "reap", "final"}

SupervisorTypeOK ==
  /\ spc \in SupervisorPCs
  /\ worker \in MaybeInstance
  /\ instance \in MaybeInstance
  /\ launched \in 0 .. MaxLaunch
  /\ ready_since \in BOOLEAN
  /\ started \in 0 .. MaxControllers

SupervisorInit ==
  /\ spc = "down"
  /\ worker = 0
  /\ instance = 0
  /\ launched = 0
  /\ ready_since = FALSE
  /\ started = 0

Step(from, to) == spc = from /\ spc' = to

Report(status) == supervisor' = [ctrl |-> controller, inst |-> instance, status |-> status]

(* A controller starts after the previous one is gone (serve.lock).        *)
StartController ==
  /\ Step("down", "clear")
  /\ started < MaxControllers
  /\ started' = started + 1
  /\ controller' = started + 1
  /\ worker' = 0
  /\ instance' = 0
  /\ ready_since' = FALSE
  /\ supervisor' = [ctrl |-> started + 1, inst |-> 0, status |-> "loading"]
  /\ UNCHANGED <<launched, state, launch, owner, command, results, gpu_results,
                 cancel, failures, errors, live>>

(* clear_gpu_applications(): the processes that hold GPU memory are        *)
(* stopped; joint with the death of those groups.                          *)
ClearGPUs(holders) ==
  /\ Step("clear", "wait")
  /\ live' = live \ holders
  /\ UNCHANGED <<worker, instance, launched, ready_since, started, state, launch, owner, command,
                 results, gpu_results, cancel, supervisor, failures, errors, controller>>

(* ensure_free_gpus() looks at the free memory of the cards; launch_worker *)
(* then writes launch.json.                                                *)
TryLaunch(holders) ==
  /\ Step("wait", "state")
  /\ holders = {}
  /\ launched < MaxLaunch
  /\ launched' = launched + 1
  /\ launch' = launched + 1
  /\ UNCHANGED <<worker, instance, ready_since, started, state, owner, command, results,
                 gpu_results, cancel, supervisor, failures, errors, live, controller>>

(* The exception of ensure_free_gpus(): recover() again, then back off.     *)
LaunchRefused(holders) ==
  /\ Step("wait", "wait")
  /\ holders # {}
  /\ Report("recovering")
  /\ UNCHANGED <<worker, instance, launched, ready_since, started, state, launch, owner, command,
                 results, gpu_results, cancel, failures, errors, live, controller>>

(* launch_worker() goes on: state.json, the process, owner.json.           *)
WriteLoading ==
  /\ Step("state", "popen")
  /\ state' = [inst |-> launched, status |-> "loading"]
  /\ UNCHANGED <<worker, instance, launched, ready_since, started, launch, owner, command, results,
                 gpu_results, cancel, supervisor, failures, errors, live, controller>>

Popen ==
  /\ Step("popen", "owner")
  /\ live' = live \union {launched}
  /\ UNCHANGED <<worker, instance, launched, ready_since, started, state, launch, owner, command,
                 results, gpu_results, cancel, supervisor, failures, errors, controller>>

WriteOwner ==
  /\ Step("owner", "report")
  /\ owner' = launched
  /\ worker' = launched
  /\ instance' = launched
  /\ ready_since' = FALSE
  /\ UNCHANGED <<launched, started, state, launch, command, results, gpu_results, cancel,
                 supervisor, failures, errors, live, controller>>

ReportLoading ==
  /\ Step("report", "poll")
  /\ Report("loading")
  /\ UNCHANGED <<worker, instance, launched, ready_since, started, state, launch, owner, command,
                 results, gpu_results, cancel, failures, errors, live, controller>>

(* An exception in launch_worker: recover() with worker still None, which  *)
(* stops nothing, not even a group that Popen has already started.         *)
LaunchFails ==
  /\ spc \in {"state", "popen", "owner"}
  /\ spc' = "wait"
  /\ Report("recovering")
  /\ UNCHANGED <<worker, instance, launched, ready_since, started, state, launch, owner, command,
                 results, gpu_results, cancel, failures, errors, live, controller>>

(* watchdog.check().  A deadline may pass whenever it is looked at; silent *)
(* says that some rank has not renewed its heartbeat for idle_timeout.     *)
Pending ==
  /\ command.inst = instance
  /\ command.token # NoToken
  /\ results[command.token] = "none"
  /\ gpu_results[command.token] = 0

SeenReady == ready_since \/ (Ready /\ state.inst = instance)

WatchdogFires(silent) ==
  \/ worker \notin live
  \/ instance \in errors
  \/ state.inst = instance /\ state.status = "failed"
  \/ ~SeenReady                          \* startup_timeout
  \/ SeenReady /\ Pending                \* request_timeout
  \/ SeenReady /\ ~Pending /\ silent     \* idle_timeout

CancelSeen == cancel.inst = instance

BeginRecover ==
  /\ Step("poll", "stop")
  /\ Report("recovering")
  /\ UNCHANGED <<worker, instance, launched, ready_since, started, state, launch, owner, command,
                 results, gpu_results, cancel, failures, errors, live, controller>>

RecoverCancelled == CancelSeen /\ BeginRecover

RecoverFailed(silent) == ~CancelSeen /\ WatchdogFires(silent) /\ BeginRecover

ReportReady ==
  /\ spc = "poll"
  /\ ~CancelSeen
  /\ Ready
  /\ ~ready_since \/ supervisor.status # "ready"
  /\ ready_since' = TRUE
  /\ Report("ready")
  /\ UNCHANGED <<spc, worker, instance, launched, started, state, launch, owner, command, results,
                 gpu_results, cancel, failures, errors, live, controller>>

(* Mutant of StopGroup: fail_pending() is skipped.                         *)
StopGroupOnly ==
  /\ Step("stop", "record")
  /\ live' = live \ {worker}
  /\ UNCHANGED <<worker, instance, launched, ready_since, started, state, launch, owner, command,
                 results, gpu_results, cancel, supervisor, failures, errors, controller>>

(* stop_group(worker): joint with the death of the ranks.                  *)
StopGroup ==
  /\ Step("stop", "fail_command")
  /\ live' = live \ {worker}
  /\ UNCHANGED <<worker, instance, launched, ready_since, started, state, launch, owner, command,
                 results, gpu_results, cancel, supervisor, failures, errors, controller>>

(* Mutant of FailCommand: the receipts are forgotten.                      *)
FailCommandOnly ==
  /\ Step("fail_command", "record")
  /\ results' = [t \in Requests |->
       IF command.inst = instance /\ command.token = t /\ results[t] = "none"
         THEN "failed" ELSE results[t]]
  /\ UNCHANGED <<worker, instance, launched, ready_since, started, state, launch, owner, command,
                 gpu_results, cancel, supervisor, failures, errors, live, controller>>

(* fail_pending(): the published command, then every receipt.              *)
FailCommand ==
  /\ Step("fail_command", "fail_receipts")
  /\ results' = [t \in Requests |->
       IF command.inst = instance /\ command.token = t /\ results[t] = "none"
         THEN "failed" ELSE results[t]]
  /\ UNCHANGED <<worker, instance, launched, ready_since, started, state, launch, owner, command,
                 gpu_results, cancel, supervisor, failures, errors, live, controller>>

(* Mutant of FailReceipts: results that are there are overwritten.         *)
FailAllReceipts ==
  /\ Step("fail_receipts", "record")
  /\ results' = [t \in Requests |-> IF gpu_results[t] = instance THEN "failed" ELSE results[t]]
  /\ UNCHANGED <<worker, instance, launched, ready_since, started, state, launch, owner, command,
                 gpu_results, cancel, supervisor, failures, errors, live, controller>>

FailReceipts ==
  /\ Step("fail_receipts", "record")
  /\ results' = [t \in Requests |->
       IF gpu_results[t] = instance /\ results[t] = "none" THEN "failed" ELSE results[t]]
  /\ UNCHANGED <<worker, instance, launched, ready_since, started, state, launch, owner, command,
                 gpu_results, cancel, supervisor, failures, errors, live, controller>>

(* Mutant of RecordFailure: the handle of the dead group is kept, and with *)
(* it the loop keeps supervising instead of launching.                     *)
RecordKeepingWorker ==
  /\ Step("record", "poll")
  /\ failures' = failures \union {instance}
  /\ UNCHANGED <<worker, instance, launched, ready_since, started, state, launch, owner, command,
                 results, gpu_results, cancel, supervisor, errors, live, controller>>

RecordFailure ==
  /\ Step("record", "wait")
  /\ failures' = failures \union {instance}
  /\ worker' = 0
  /\ UNCHANGED <<instance, launched, ready_since, started, state, launch, owner, command, results,
                 gpu_results, cancel, supervisor, errors, live, controller>>

(* SIGTERM, SIGINT or the exit of the UI, at any point: the finally block. *)
Shutdown ==
  /\ spc \notin {"down", "reap", "final"}
  /\ spc' = "reap"
  /\ Report("stopped")
  /\ UNCHANGED <<worker, instance, launched, ready_since, started, state, launch, owner, command,
                 results, gpu_results, cancel, failures, errors, live, controller>>

ReapWorker ==
  /\ Step("reap", "final")
  /\ live' = live \ {worker}
  /\ UNCHANGED <<worker, instance, launched, ready_since, started, state, launch, owner, command,
                 results, gpu_results, cancel, supervisor, failures, errors, controller>>

WriteStopped ==
  /\ Step("final", "down")
  /\ state' = [inst |-> instance, status |-> "stopped"]
  /\ controller' = 0
  /\ UNCHANGED <<worker, instance, launched, ready_since, started, launch, owner, command, results,
                 gpu_results, cancel, supervisor, failures, errors, live>>

(* SIGKILL: the worker group survives, in a session of its own.            *)
ControllerDies ==
  /\ spc # "down"
  /\ spc' = "down"
  /\ controller' = 0
  /\ UNCHANGED <<worker, instance, launched, ready_since, started, state, launch, owner, command,
                 results, gpu_results, cancel, supervisor, failures, errors, live>>
=============================================================================
