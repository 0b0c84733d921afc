------------------------------- MODULE Fleet --------------------------------
(***************************************************************************)
(* Deployments from several terminals: scripts/bootstrap.py (deploy, up,   *)
(* restart, start) under deploy.lock runs scripts/fleet.py, which under    *)
(* fleet.lock replaces or reuses the instances of the manifest, lets the   *)
(* lock go and waits until every API is ready, or stops what it started.   *)
(* `stop` runs fleet.py alone.  scripts/service.py holds the service.lock  *)
(* of an instance for a whole start or stop, so each is one step here.  A  *)
(* configuration stands for a fingerprint: code, topology and settings.    *)
(***************************************************************************)
EXTENDS Integers, Sequences

CONSTANTS
  Terminals,    \* launchers, one command each
  Configs,      \* configurations that are deployed
  Plan,         \* plans(): the instances of each configuration, in order
  StopOrder,    \* every instance there can be, as stop_all() visits them
  Signals,      \* "int": Ctrl-C, "hup": the terminal is closed
  MaxDeaths     \* controllers that are killed

Instances == {StopOrder[j] : j \in 1 .. Len(StopOrder)}
None == "none"

ASSUME FleetAssumption ==
  /\ StopOrder \in Seq(Instances)
  /\ Plan \in [Configs -> Seq(Instances)]
  /\ None \notin Configs \union Terminals
  /\ MaxDeaths \in Nat

VARIABLES
  pc,           \* where each command stands
  cfg,          \* what it deploys, None for stop
  todo,         \* instances its current loop has still to visit
  ready,        \* wait_ready(): every instance seen in this round was ready
  begun,        \* the list `started` of fleet.py
  deploy_lock, fleet_lock,
  manifest,     \* the configuration in fleet.json
  run,          \* phase of each instance's controller, "off" without one
  conf,         \* the configuration it was started with
  by,           \* the command that started it
  deaths

vars == <<pc, cfg, todo, ready, begun, deploy_lock, fleet_lock, manifest, run, conf, by, deaths>>
command == <<cfg, ready, begun, deploy_lock, fleet_lock, manifest>>
fleet == <<run, conf, by>>

Over == {"done", "failed"}
PCs == {"idle", "deploy_lock", "prepare", "repair_lock", "repair", "fleet_lock", "check",
        "clear", "ports", "up", "wait", "rollback", "stop_lock", "stop"} \union Over
Phases == {"off", "doctor", "loading", "ready", "recovering"}

TypeOK ==
  /\ pc \in [Terminals -> PCs]
  /\ cfg \in [Terminals -> Configs \union {None}]
  /\ todo \in [Terminals -> Seq(Instances)]
  /\ ready \in [Terminals -> BOOLEAN]
  /\ begun \in [Terminals -> Seq(Instances)]
  /\ {deploy_lock, fleet_lock} \subseteq Terminals \union {None}
  /\ manifest \in Configs \union {None}
  /\ run \in [Instances -> Phases]
  /\ conf \in [Instances -> Configs \union {None}]
  /\ by \in [Instances -> Terminals \union {None}]
  /\ deaths \in 0 .. MaxDeaths

Init ==
  /\ pc = [t \in Terminals |-> "idle"]
  /\ cfg = [t \in Terminals |-> None]
  /\ todo = [t \in Terminals |-> <<>>]
  /\ ready = [t \in Terminals |-> FALSE]
  /\ begun = [t \in Terminals |-> <<>>]
  /\ deploy_lock = None
  /\ fleet_lock = None
  /\ manifest = None
  /\ run = [i \in Instances |-> "off"]
  /\ conf = [i \in Instances |-> None]
  /\ by = [i \in Instances |-> None]
  /\ deaths = 0

Goto(t, to) == pc' = [pc EXCEPT ![t] = to]
Loop(t, to, instances) == Goto(t, to) /\ todo' = [todo EXCEPT ![t] = instances]
Advance(t) == todo' = [todo EXCEPT ![t] = Tail(@)]
Drop(lock, t) == IF lock = t THEN None ELSE lock

(* Service stop: terminates the controller with its workers and its UI.    *)
StopInstance(i) ==
  /\ run' = [run EXCEPT ![i] = "off"]
  /\ conf' = [conf EXCEPT ![i] = None]
  /\ by' = [by EXCEPT ![i] = None]

(* A process of the launcher ends: the kernel drops its locks.             *)
Finish(t, how) ==
  /\ Loop(t, how, <<>>)
  /\ deploy_lock' = Drop(deploy_lock, t)
  /\ fleet_lock' = Drop(fleet_lock, t)

-----------------------------------------------------------------------------
Deploy(t, c) ==
  /\ pc[t] = "idle"
  /\ Goto(t, "deploy_lock")
  /\ cfg' = [cfg EXCEPT ![t] = c]
  /\ UNCHANGED <<todo, ready, begun, deploy_lock, fleet_lock, manifest, fleet, deaths>>

Stop(t) ==
  /\ pc[t] = "idle"
  /\ Goto(t, "stop_lock")
  /\ UNCHANGED <<todo, command, fleet, deaths>>

(* Mutant of TakeDeployLock: starts are not serialized.                    *)
PassDeployLock(t) ==
  /\ pc[t] = "deploy_lock"
  /\ deploy_lock' = t
  /\ Goto(t, "prepare")
  /\ UNCHANGED <<cfg, todo, ready, begun, fleet_lock, manifest, fleet, deaths>>

TakeDeployLock(t) ==
  /\ pc[t] = "deploy_lock"
  /\ deploy_lock = None
  /\ deploy_lock' = t
  /\ Goto(t, "prepare")
  /\ UNCHANGED <<cfg, todo, ready, begun, fleet_lock, manifest, fleet, deaths>>

(* Dependencies and models are in place, or must be repaired first, which  *)
(* stops the fleet, or cannot be.                                          *)
Prepare(t) ==
  /\ pc[t] = "prepare"
  /\ \/ /\ \E to \in {"fleet_lock", "repair_lock"} : Goto(t, to)
        /\ UNCHANGED <<todo, deploy_lock, fleet_lock>>
     \/ Finish(t, "failed")
  /\ UNCHANGED <<cfg, ready, begun, manifest, fleet, deaths>>

TakeFleetLock(t) ==
  /\ fleet_lock = None
  /\ fleet_lock' = t
  /\ \/ pc[t] = "fleet_lock" /\ Goto(t, "check") /\ UNCHANGED todo
     \/ pc[t] = "repair_lock" /\ Loop(t, "repair", StopOrder)
     \/ pc[t] = "stop_lock" /\ Loop(t, "stop", StopOrder)
  /\ UNCHANGED <<cfg, ready, begun, deploy_lock, manifest, fleet, deaths>>

(* One service stop of stop_all() or of the rollback.                      *)
StopOne(t) ==
  /\ pc[t] \in {"repair", "clear", "rollback", "stop"}
  /\ todo[t] # <<>>
  /\ StopInstance(Head(todo[t]))
  /\ Advance(t)
  /\ UNCHANGED <<pc, command, deaths>>

(* Mutant of AllStopped: the lock of the stop before a repair stays held.  *)
RepairKeepsLock(t) ==
  /\ todo[t] = <<>>
  /\ \/ \E n \in {<<"clear", "ports">>, <<"repair", "fleet_lock">>} :
           pc[t] = n[1] /\ Goto(t, n[2]) /\ UNCHANGED <<todo, deploy_lock, fleet_lock>>
     \/ pc[t] = "stop" /\ Finish(t, "done")
     \/ pc[t] = "rollback" /\ Finish(t, "failed")
  /\ UNCHANGED <<cfg, ready, begun, manifest, fleet, deaths>>

(* The loop is over.  After a repair bootstrap goes on to fleet ensure.    *)
AllStopped(t) ==
  /\ todo[t] = <<>>
  /\ \/ pc[t] = "clear" /\ Goto(t, "ports") /\ UNCHANGED <<todo, deploy_lock, fleet_lock>>
     \/ /\ pc[t] = "repair"
        /\ Goto(t, "fleet_lock")
        /\ fleet_lock' = None
        /\ UNCHANGED <<todo, deploy_lock>>
     \/ pc[t] = "stop" /\ Finish(t, "done")
     \/ pc[t] = "rollback" /\ Finish(t, "failed")
  /\ UNCHANGED <<cfg, ready, begun, manifest, fleet, deaths>>

(* validate may refuse the settings before anything is stopped.            *)
Refuse(t) ==
  /\ pc[t] = "check"
  /\ Finish(t, "failed")
  /\ UNCHANGED <<cfg, ready, begun, manifest, fleet, deaths>>

Running(i) == run[i] # "off"

(* Mutant of Reusable: the fingerprint is not compared.                    *)
AnyRunning(c) == \A j \in 1 .. Len(Plan[c]) : Running(Plan[c][j])

(* Nothing is stopped when the manifest names this configuration and all   *)
(* its controllers run, whatever the state of their workers.               *)
Reusable(c) == manifest = c /\ \A j \in 1 .. Len(Plan[c]) : Running(Plan[c][j])

StartAll(t) ==
  /\ Loop(t, "up", Plan[cfg[t]])
  /\ manifest' = cfg[t]
  /\ begun' = [begun EXCEPT ![t] = <<>>]

Reuse(t) ==
  /\ pc[t] = "check"
  /\ Reusable(cfg[t])
  /\ StartAll(t)
  /\ UNCHANGED <<cfg, ready, deploy_lock, fleet_lock, fleet, deaths>>

Replace(t) ==
  /\ pc[t] = "check"
  /\ ~Reusable(cfg[t])
  /\ Loop(t, "clear", StopOrder)
  /\ UNCHANGED <<command, fleet, deaths>>

(* check_ports() finds the addresses free, or raises: nothing is restored. *)
CheckPorts(t) ==
  /\ pc[t] = "ports"
  /\ \/ StartAll(t) /\ UNCHANGED <<deploy_lock, fleet_lock>>
     \/ Finish(t, "failed") /\ UNCHANGED <<manifest, begun>>
  /\ UNCHANGED <<cfg, ready, fleet, deaths>>

(* Mutant of Rollback: the instance visited last is taken as not started.  *)
RollbackAllButLast(t, started) == Loop(t, "rollback", SubSeq(started, 1, Len(started) - 1))

Rollback(t, started) == Loop(t, "rollback", started)

(* service up: a controller that runs is left alone.  A new one may exit   *)
(* before start() has looked at it again.                                  *)
Up(t) ==
  /\ pc[t] = "up"
  /\ todo[t] # <<>>
  /\ LET i == Head(todo[t]) IN
     /\ begun' = [begun EXCEPT ![t] = Append(@, i)]
     /\ \/ Running(i) /\ UNCHANGED fleet /\ Advance(t) /\ UNCHANGED pc
        \/ /\ ~Running(i)
           /\ run' = [run EXCEPT ![i] = "doctor"]
           /\ conf' = [conf EXCEPT ![i] = cfg[t]]
           /\ by' = [by EXCEPT ![i] = t]
           /\ Advance(t)
           /\ UNCHANGED pc
        \/ ~Running(i) /\ UNCHANGED fleet /\ Rollback(t, Append(begun[t], i))
  /\ UNCHANGED <<cfg, ready, deploy_lock, fleet_lock, manifest, deaths>>

(* All controllers run: others may now stop or look at the fleet.          *)
Unlock(t) ==
  /\ pc[t] = "up"
  /\ todo[t] = <<>>
  /\ fleet_lock' = None
  /\ Loop(t, "wait", Plan[cfg[t]])
  /\ ready' = [ready EXCEPT ![t] = TRUE]
  /\ UNCHANGED <<cfg, begun, deploy_lock, manifest, fleet, deaths>>

(* wait_ready() reads the status of one instance.                          *)
Poll(t) ==
  /\ pc[t] = "wait"
  /\ todo[t] # <<>>
  /\ LET phase == run[Head(todo[t])] IN
     \/ /\ phase \notin {"off", "recovering"}
        /\ ready' = [ready EXCEPT ![t] = @ /\ phase = "ready"]
        /\ Advance(t)
        /\ UNCHANGED pc
     \/ phase \in {"off", "recovering"} /\ UNCHANGED ready /\ Rollback(t, begun[t])
  /\ UNCHANGED <<cfg, begun, deploy_lock, fleet_lock, manifest, fleet, deaths>>

(* A round of wait_ready() is over: everything was ready, or another one.  *)
Round(t) ==
  /\ pc[t] = "wait"
  /\ todo[t] = <<>>
  /\ \/ ready[t] /\ Finish(t, "done") /\ UNCHANGED ready
     \/ /\ ~ready[t]
        /\ Loop(t, "wait", Plan[cfg[t]])
        /\ ready' = [ready EXCEPT ![t] = TRUE]
        /\ UNCHANGED <<deploy_lock, fleet_lock>>
  /\ UNCHANGED <<cfg, begun, manifest, fleet, deaths>>

(* The time limit is looked at after a round that was not ready.           *)
Expire(t) ==
  /\ pc[t] = "wait"
  /\ todo[t] = <<>>
  /\ ~ready[t]
  /\ Rollback(t, begun[t])
  /\ UNCHANGED <<command, fleet, deaths>>

(* SIGINT, SIGTERM or SIGHUP.  Inside its try block fleet.py rolls back,   *)
(* anywhere else it exits.  bootstrap.py waits for it after a Ctrl-C, but  *)
(* has no handler for SIGHUP: it dies and its deploy.lock is free.         *)
Signal(t, signal) ==
  /\ pc[t] \notin {"idle"} \union Over
  /\ \/ /\ pc[t] \in {"up", "wait"}
        /\ Rollback(t, begun[t])
        /\ deploy_lock' = IF signal = "hup" THEN Drop(deploy_lock, t) ELSE deploy_lock
        /\ UNCHANGED fleet_lock
     \/ pc[t] \notin {"up", "wait"} /\ Finish(t, "failed")
  /\ UNCHANGED <<cfg, ready, begun, manifest, fleet, deaths>>

-----------------------------------------------------------------------------
(* A controller and its workers: checks, loading, warm-up, recovery; it    *)
(* exits when the checks fail.                                             *)
Progress ==
  {<<"doctor", "loading">>, <<"loading", "ready">>, <<"loading", "recovering">>,
   <<"ready", "recovering">>, <<"recovering", "loading">>}

Work(i) ==
  \E to \in Phases :
    /\ <<run[i], to>> \in Progress
    /\ run' = [run EXCEPT ![i] = to]
    /\ UNCHANGED <<pc, todo, command, conf, by, deaths>>

PreflightFails(i) ==
  /\ run[i] = "doctor"
  /\ StopInstance(i)
  /\ UNCHANGED <<pc, todo, command, deaths>>

Killed(i) ==
  /\ Running(i)
  /\ deaths < MaxDeaths
  /\ deaths' = deaths + 1
  /\ StopInstance(i)
  /\ UNCHANGED <<pc, todo, command>>

LauncherNext(t) ==
  \/ TakeDeployLock(t) \/ Prepare(t) \/ TakeFleetLock(t) \/ StopOne(t) \/ AllStopped(t)
  \/ Refuse(t) \/ Reuse(t) \/ Replace(t) \/ CheckPorts(t) \/ Up(t) \/ Unlock(t)
  \/ Poll(t) \/ Round(t)

Next ==
  \/ \E t \in Terminals : LauncherNext(t) \/ Expire(t) \/ Stop(t)
  \/ \E t \in Terminals, c \in Configs : Deploy(t, c)
  \/ \E t \in Terminals, s \in Signals : Signal(t, s)
  \/ \E i \in Instances : Work(i) \/ PreflightFails(i) \/ Killed(i)

Spec == Init /\ [][Next]_vars

(* Nothing is assumed of the instances, which may load for ever; the clock *)
(* of wait_ready() reaches its limit.                                      *)
FairSpec ==
  Spec /\ \A t \in Terminals : WF_vars(LauncherNext(t)) /\ SF_vars(Expire(t))

-----------------------------------------------------------------------------
(* Whatever terminals deploy, stop, interrupt or fail at the same time,    *)
(* every controller runs the configuration the manifest names: never the   *)
(* eight-GPU instance beside a four-GPU one, and never old code that a     *)
(* later deployment would take for its own and reuse.                      *)
OneConfiguration ==
  \A i \in Instances : Running(i) => conf[i] = manifest

(* While a deployment waits for its instances to load, no other deployment *)
(* takes one of them down: deploy.lock serializes unified starts although  *)
(* fleet.lock is free by then.                                             *)
StartsAreSerial ==
  [][\A t, u \in Terminals :
       (/\ t # u
        /\ pc[t] = "wait"
        /\ pc[u] \in {"repair", "clear", "rollback"})
       => \A j \in 1 .. Len(Plan[cfg[t]]) :
            LET i == Plan[cfg[t]][j] IN
            (todo'[u] # todo[u] /\ i = Head(todo[u])) => ~Running(i)]_vars

(* A rollback that comes to its end leaves no instance running that its    *)
(* deployment had started, the one whose start failed included.            *)
RollbackLeavesNothing ==
  [][\A t \in Terminals :
       (pc[t] = "rollback" /\ todo[t] = <<>> /\ pc'[t] = "failed")
       => \A i \in Instances : by'[i] # t]_vars

(* Every command ends, even when an instance loads for ever and several    *)
(* terminals wait for each other's locks.                                  *)
EveryCommandEnds ==
  \A t \in Terminals : pc[t] # "idle" ~> pc[t] \in Over

(* README.md:52: a failed start takes back the instances of this start.    *)
(* The code stops reused ones too, for example when one of two is          *)
(* recovering from an OOM while the other serves.                          *)
RollbackSparesReused ==
  [][\A t \in Terminals :
       (pc[t] = "rollback" /\ todo[t] # <<>> /\ todo'[t] # todo[t])
       => by[Head(todo[t])] \in {t, None}]_vars
=============================================================================
