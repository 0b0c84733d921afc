------------------------------ MODULE Mailbox ------------------------------
(***************************************************************************)
(* The private mailbox under .runtime/backend, through which the clients   *)
(* (ComfyUI, REST, CLI), the ranks of the resident worker group and the    *)
(* supervising controller talk to each other.  Every file is replaced      *)
(* atomically (config.atomic_json), so one read or write of one file is    *)
(* one step.  The module also holds the part of the process table that     *)
(* backend.same_process looks at.                                          *)
(*                                                                         *)
(* A worker instance (a fresh uuid per launch) is a number counted from 1; *)
(* 0 stands for "no instance" and for a file that does not exist.  The     *)
(* number also names the torchrun process that was started for it.  A      *)
(* request and its token are the same value.                               *)
(***************************************************************************)
EXTENDS Naturals, FiniteSets

CONSTANTS
  Requests,        \* the calls of backend.call_worker; also their tokens
  NoToken,         \* no request
  Deferred,        \* the requests whose command says defer_output
  Ranks,           \* ranks of a worker group
  MaxLaunch,       \* bound: worker groups launched
  MaxControllers   \* bound: controllers started

ASSUME MailboxAssumption ==
  /\ NoToken \notin Requests
  /\ Deferred \subseteq Requests
  /\ MaxLaunch \in Nat \ {0}
  /\ MaxControllers \in Nat \ {0}

VARIABLES
  state,        \* state.json: instance and status
  launch,       \* launch.json: the instance whose ranks are to start
  owner,        \* owner.json: the instance whose torchrun process it names
  command,      \* command.json: the last request published, and for whom
  results,      \* results/{token}.json
  gpu_results,  \* gpu_results/{token}.json: the instance that issued the receipt
  cancel,       \* cancel.json
  supervisor,   \* supervisor.json: controller, instance and status
  failures,     \* failures/{instance}.json
  errors,       \* errors/{instance}-{rank}.json
  live,         \* instances whose torchrun process is alive
  controller    \* the running controller, 0 when none runs

mailVars == <<state, launch, owner, command, results, gpu_results, cancel, supervisor,
              failures, errors, live, controller>>

Instances == 1 .. MaxLaunch
MaybeInstance == 0 .. MaxLaunch
Verdicts == {"ok", "failed"}
Reasons == {"cancelled", "timeout"}

MailboxTypeOK ==
  /\ state \in [inst: MaybeInstance,
                status: {"absent", "loading", "ready", "busy", "failed", "stopped"}]
  /\ launch \in MaybeInstance
  /\ owner \in MaybeInstance
  /\ command \in [token: Requests \union {NoToken}, inst: MaybeInstance]
  /\ results \in [Requests -> {"none"} \union Verdicts]
  /\ gpu_results \in [Requests -> MaybeInstance]
  /\ cancel \in [inst: MaybeInstance, token: Requests \union {NoToken}, reason: Reasons]
  /\ supervisor \in [ctrl: 0 .. MaxControllers, inst: MaybeInstance,
                     status: {"absent", "loading", "ready", "recovering", "stopped"}]
  /\ failures \subseteq Instances
  /\ errors \subseteq Instances
  /\ live \subseteq Instances
  /\ controller \in 0 .. MaxControllers

MailboxInit ==
  /\ state = [inst |-> 0, status |-> "absent"]
  /\ launch = 0
  /\ owner = 0
  /\ command = [token |-> NoToken, inst |-> 0]
  /\ results = [t \in Requests |-> "none"]
  /\ gpu_results = [t \in Requests |-> 0]
  /\ cancel = [inst |-> 0, token |-> NoToken, reason |-> "cancelled"]
  /\ supervisor = [ctrl |-> 0, inst |-> 0, status |-> "absent"]
  /\ failures = {}
  /\ errors = {}
  /\ live = {}
  /\ controller = 0

(***************************************************************************)
(* backend.health()["ready"]: the owner process is alive, state.json is    *)
(* about the owner's instance and says ready or busy, and the controller   *)
(* that wrote supervisor.json is alive, supervises that instance and is    *)
(* neither recovering nor stopped.  The warm-up verdict needs no variable: *)
(* a worker whose warm-up is incomplete never writes ready or busy.        *)
(***************************************************************************)
SupervisionAgrees ==
  supervisor.status # "absent" =>
    /\ controller # 0 /\ supervisor.ctrl = controller
    /\ supervisor.inst = state.inst
    /\ supervisor.status \notin {"recovering", "stopped"}

Ready ==
  /\ owner \in live
  /\ state.inst = owner
  /\ state.status \in {"ready", "busy"}
  /\ SupervisionAgrees
=============================================================================
