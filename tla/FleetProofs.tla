----------------------------- MODULE FleetProofs -----------------------------
(***************************************************************************)
(* For every set of terminals, every set of configurations and every       *)
(* number of faults: all controllers run the configuration the manifest    *)
(* names.  The argument: only the holder of fleet.lock starts controllers  *)
(* or writes the manifest, and between its stop_all() and its last start   *)
(* every other terminal can only stop.                                     *)
(***************************************************************************)
EXTENDS Fleet, TLAPS

Locked == {"check", "clear", "ports", "up", "repair", "stop"}
Deploying == {"deploy_lock", "prepare", "repair_lock", "repair", "fleet_lock",
              "check", "clear", "ports", "up", "wait"}

(* A command at one of these places holds fleet.lock.                      *)
LockHeld == \A t \in Terminals : pc[t] \in Locked => fleet_lock = t

HasConfig == \A t \in Terminals : pc[t] \in Deploying => cfg[t] \in Configs

(* What runs while a deployment clears is still in its loop.               *)
Clearing ==
  \A t \in Terminals : pc[t] = "clear" =>
    \A i \in Instances : Running(i) => \E j \in 1 .. Len(todo[t]) : todo[t][j] = i

Cleared == \A t \in Terminals : pc[t] = "ports" => \A i \in Instances : ~Running(i)

Starting == \A t \in Terminals : pc[t] = "up" => manifest = cfg[t]

FleetInv ==
  TypeOK /\ LockHeld /\ HasConfig /\ Clearing /\ Cleared /\ Starting /\ OneConfiguration

USE DEF None, Over

LEMMA InitInv == Init => FleetInv
BY FleetAssumption DEF Init, FleetInv, TypeOK, LockHeld, HasConfig, Clearing, Cleared, Starting,
  OneConfiguration, Running, PCs, Phases, Locked, Deploying

(* Tail keeps what is not at the head.                                     *)
LEMMA TailKeeps ==
  ASSUME NEW S, NEW s \in Seq(S), s # <<>>, NEW i, i # Head(s),
         \E j \in 1 .. Len(s) : s[j] = i
  PROVE  \E j \in 1 .. Len(Tail(s)) : Tail(s)[j] = i
<1>1. PICK j \in 1 .. Len(s) : s[j] = i
  OBVIOUS
<1>2. j # 1
  BY <1>1
<1>3. j - 1 \in 1 .. Len(Tail(s)) /\ Tail(s)[j - 1] = i
  BY <1>1, <1>2
<1> QED
  BY <1>3

(* The building blocks keep their types.                                   *)
LEMMA LoopTyped ==
  ASSUME TypeOK, NEW t \in Terminals, NEW to \in PCs, NEW s \in Seq(Instances), Loop(t, to, s)
  PROVE  /\ pc' \in [Terminals -> PCs] /\ pc' = [pc EXCEPT ![t] = to]
         /\ todo' \in [Terminals -> Seq(Instances)]
BY DEF TypeOK, Loop, Goto

LEMMA FinishTyped ==
  ASSUME TypeOK, NEW t \in Terminals, NEW how \in Over, Finish(t, how)
  PROVE  /\ pc' \in [Terminals -> PCs] /\ pc' = [pc EXCEPT ![t] = how]
         /\ todo' \in [Terminals -> Seq(Instances)]
         /\ {deploy_lock', fleet_lock'} \subseteq Terminals \union {None}
<1>1. how \in PCs /\ <<>> \in Seq(Instances) /\ Loop(t, how, <<>>)
  BY DEF Finish, PCs
<1>2. {deploy_lock', fleet_lock'} \subseteq Terminals \union {None}
  BY DEF Finish, Drop, TypeOK
<1> QED
  BY <1>1, <1>2, LoopTyped

LEMMA StopTyped ==
  ASSUME TypeOK, NEW i \in Instances, StopInstance(i)
  PROVE  /\ run' \in [Instances -> Phases]
         /\ conf' \in [Instances -> Configs \union {None}]
         /\ by' \in [Instances -> Terminals \union {None}]
BY DEF TypeOK, StopInstance, Phases

(* A step that ends a command touches neither instances nor the manifest.  *)
LEMMA FinishStep ==
  ASSUME TypeOK, HasConfig, NEW t \in Terminals, NEW how \in Over, Finish(t, how),
         UNCHANGED <<cfg, ready, begun, manifest, fleet, deaths>>
  PROVE  TypeOK' /\ HasConfig'
BY FinishTyped DEF TypeOK, HasConfig, Deploying, fleet

(* Neither does one that only moves a command on.                          *)
LEMMA LoopStep ==
  ASSUME TypeOK, HasConfig, NEW t \in Terminals, NEW to \in PCs, NEW s \in Seq(Instances),
         Loop(t, to, s), to \in Deploying => cfg[t] \in Configs,
         ready' \in [Terminals -> BOOLEAN], begun' \in [Terminals -> Seq(Instances)],
         {deploy_lock', fleet_lock'} \subseteq Terminals \union {None},
         manifest' \in Configs \union {None},
         UNCHANGED <<cfg, fleet, deaths>>
  PROVE  TypeOK' /\ HasConfig'
<1>1. /\ pc' \in [Terminals -> PCs] /\ pc' = [pc EXCEPT ![t] = to]
      /\ todo' \in [Terminals -> Seq(Instances)]
  BY LoopTyped
<1>2. TypeOK'
  BY <1>1 DEF TypeOK, fleet
<1>3. HasConfig'
  BY <1>1 DEF TypeOK, HasConfig
<1> QED
  BY <1>2, <1>3

LEMMA TypeStep ==
  ASSUME TypeOK, HasConfig, [Next]_vars
  PROVE  TypeOK' /\ HasConfig'
<1> USE FleetAssumption DEF PCs, Deploying, command, fleet
<1>1. ASSUME NEW t \in Terminals, LauncherNext(t)
      PROVE  TypeOK' /\ HasConfig'
  <2> <<>> \in Seq(Instances) /\ todo[t] \in Seq(Instances) /\ begun[t] \in Seq(Instances)
    BY DEF TypeOK
  <2>1. CASE TakeDeployLock(t)
    BY <2>1 DEF TakeDeployLock, TypeOK, HasConfig, Goto
  <2>2. CASE Prepare(t)
    <3>1. CASE Finish(t, "failed")
      BY <2>2, <3>1, FinishStep DEF Prepare
    <3>2. CASE /\ \E to \in {"fleet_lock", "repair_lock"} : Goto(t, to)
               /\ UNCHANGED <<todo, deploy_lock, fleet_lock>>
      <4>1. PICK to \in {"fleet_lock", "repair_lock"} : Goto(t, to)
        BY <3>2
      <4>2. pc' = [pc EXCEPT ![t] = to] /\ pc' \in [Terminals -> PCs]
        BY <4>1 DEF Goto, TypeOK
      <4>3. TypeOK'
        BY <2>2, <3>2, <4>2 DEF Prepare, TypeOK
      <4>4. HasConfig'
        BY <2>2, <4>2 DEF Prepare, HasConfig, TypeOK
      <4> QED
        BY <4>3, <4>4
    <3> QED
      BY <2>2, <3>1, <3>2 DEF Prepare
  <2>3. CASE TakeFleetLock(t)
    <3>1. CASE pc[t] = "fleet_lock"
      BY <2>3, <3>1 DEF TakeFleetLock, TypeOK, HasConfig, Goto
    <3>2. CASE pc[t] = "repair_lock"
      BY <2>3, <3>2, LoopStep DEF TakeFleetLock, TypeOK, HasConfig
    <3>3. CASE pc[t] = "stop_lock"
      BY <2>3, <3>3, LoopStep DEF TakeFleetLock, TypeOK
    <3> QED
      BY <2>3, <3>1, <3>2, <3>3 DEF TakeFleetLock
  <2>4. CASE StopOne(t)
    <3>1. Head(todo[t]) \in Instances /\ todo' \in [Terminals -> Seq(Instances)]
      BY <2>4 DEF StopOne, TypeOK, Advance
    <3> QED
      BY <2>4, <3>1, StopTyped DEF StopOne, TypeOK, HasConfig
  <2>5. CASE AllStopped(t)
    <3>1. CASE pc[t] \in {"stop", "rollback"}
      BY <2>5, <3>1, FinishStep DEF AllStopped
    <3>2. CASE pc[t] \in {"clear", "repair"}
      BY <2>5, <3>2 DEF AllStopped, TypeOK, HasConfig, Goto
    <3> QED
      BY <2>5, <3>1, <3>2 DEF AllStopped
  <2>6. CASE Refuse(t)
    BY <2>6, FinishStep DEF Refuse
  <2>7. CASE Reuse(t)
    <3>1. cfg[t] \in Configs
      BY <2>7 DEF Reuse, HasConfig
    <3> QED
      BY <2>7, <3>1, LoopStep DEF Reuse, StartAll, TypeOK
  <2>8. CASE Replace(t)
    BY <2>8, LoopStep DEF Replace, TypeOK, HasConfig
  <2>9. CASE CheckPorts(t)
    <3>1. CASE Finish(t, "failed") /\ UNCHANGED <<manifest, begun>>
      BY <2>9, <3>1, FinishStep DEF CheckPorts
    <3>2. CASE StartAll(t) /\ UNCHANGED <<deploy_lock, fleet_lock>>
      <4>1. cfg[t] \in Configs
        BY <2>9 DEF CheckPorts, HasConfig
      <4> QED
        BY <2>9, <3>2, <4>1, LoopStep DEF CheckPorts, StartAll, TypeOK
    <3> QED
      BY <2>9, <3>1, <3>2 DEF CheckPorts
  <2>10. CASE Up(t)
    <3> DEFINE i == Head(todo[t])
    <3>1. /\ i \in Instances /\ cfg[t] \in Configs /\ Append(begun[t], i) \in Seq(Instances)
          /\ begun' \in [Terminals -> Seq(Instances)]
      BY <2>10 DEF Up, HasConfig, TypeOK
    <3>2. CASE Rollback(t, Append(begun[t], i)) /\ UNCHANGED fleet
      BY <2>10, <3>1, <3>2, LoopStep DEF Up, Rollback, TypeOK
    <3>3. CASE /\ UNCHANGED pc /\ Advance(t)
               /\ run' \in [Instances -> Phases]
               /\ conf' \in [Instances -> Configs \union {None}]
               /\ by' \in [Instances -> Terminals \union {None}]
      BY <2>10, <3>1, <3>3, SMTT(30) DEF Up, Advance, TypeOK, HasConfig
    <3>4. CASE /\ UNCHANGED pc /\ Advance(t)
               /\ run' = [run EXCEPT ![i] = "doctor"]
               /\ conf' = [conf EXCEPT ![i] = cfg[t]]
               /\ by' = [by EXCEPT ![i] = t]
      BY <3>1, <3>3, <3>4 DEF TypeOK, Phases
    <3>5. CASE UNCHANGED fleet /\ Advance(t) /\ UNCHANGED pc
      BY <3>3, <3>5 DEF TypeOK
    <3> QED
      BY <2>10, <3>2, <3>4, <3>5 DEF Up
  <2>11. CASE Unlock(t)
    <3>1. cfg[t] \in Configs
      BY <2>11 DEF Unlock, HasConfig
    <3> QED
      BY <2>11, <3>1, LoopStep DEF Unlock, TypeOK
  <2>12. CASE Poll(t)
    <3>1. CASE Rollback(t, begun[t]) /\ UNCHANGED ready
      BY <2>12, <3>1, LoopStep DEF Poll, Rollback, TypeOK
    <3>2. CASE Advance(t) /\ UNCHANGED pc /\ ready' \in [Terminals -> BOOLEAN]
      BY <2>12, <3>2 DEF Poll, Advance, TypeOK, HasConfig
    <3>3. CASE Advance(t) /\ UNCHANGED pc
               /\ ready' = [ready EXCEPT ![t] = @ /\ run[Head(todo[t])] = "ready"]
      BY <3>2, <3>3 DEF TypeOK
    <3> QED
      BY <2>12, <3>1, <3>3 DEF Poll
  <2>13. CASE Round(t)
    <3>1. CASE Finish(t, "done") /\ UNCHANGED ready
      BY <2>13, <3>1, FinishStep DEF Round
    <3>2. CASE Loop(t, "wait", Plan[cfg[t]]) /\ UNCHANGED <<deploy_lock, fleet_lock>>
      <4>1. cfg[t] \in Configs
        BY <2>13 DEF Round, HasConfig
      <4>2. ready' \in [Terminals -> BOOLEAN]
        BY <2>13 DEF Round, TypeOK
      <4> QED
        BY <2>13, <3>2, <4>1, <4>2, LoopStep DEF Round, TypeOK
    <3> QED
      BY <2>13, <3>1, <3>2 DEF Round
  <2> QED
    BY <1>1, <2>1, <2>2, <2>3, <2>4, <2>5, <2>6, <2>7, <2>8, <2>9, <2>10, <2>11, <2>12, <2>13
       DEF LauncherNext
<1>2. ASSUME NEW t \in Terminals, Expire(t) \/ Stop(t)
      PROVE  TypeOK' /\ HasConfig'
  <2>1. CASE Expire(t)
    BY <2>1, LoopStep DEF Expire, Rollback, TypeOK
  <2>2. CASE Stop(t)
    BY <2>2 DEF Stop, TypeOK, HasConfig, Goto
  <2> QED
    BY <1>2, <2>1, <2>2
<1>3. ASSUME NEW t \in Terminals, NEW c \in Configs, Deploy(t, c)
      PROVE  TypeOK' /\ HasConfig'
  BY <1>3 DEF Deploy, Goto, TypeOK, HasConfig
<1>4. ASSUME NEW t \in Terminals, NEW s \in Signals, Signal(t, s)
      PROVE  TypeOK' /\ HasConfig'
  <2>1. CASE pc[t] \in {"up", "wait"}
    <3>1. {deploy_lock', fleet_lock'} \subseteq Terminals \union {None}
      BY <1>4, <2>1 DEF Signal, Drop, TypeOK
    <3> QED
      BY <1>4, <2>1, <3>1, LoopStep DEF Signal, Rollback, TypeOK
  <2>2. CASE pc[t] \notin {"up", "wait"}
    BY <1>4, <2>2, FinishStep DEF Signal
  <2> QED
    BY <2>1, <2>2
<1>5. ASSUME NEW i \in Instances, Work(i) \/ PreflightFails(i) \/ Killed(i)
      PROVE  TypeOK' /\ HasConfig'
  <2>1. CASE Work(i)
    BY <2>1 DEF Work, TypeOK, HasConfig
  <2>2. CASE PreflightFails(i) \/ Killed(i)
    <3>1. deaths' \in 0 .. MaxDeaths
      BY <2>2 DEF PreflightFails, Killed, TypeOK
    <3> QED
      BY <2>2, <3>1, StopTyped DEF PreflightFails, Killed, TypeOK, HasConfig
  <2> QED
    BY <1>5, <2>1, <2>2
<1>6. CASE UNCHANGED vars
  BY <1>6 DEF vars, TypeOK, HasConfig
<1> QED
  BY <1>1, <1>2, <1>3, <1>4, <1>5, <1>6 DEF Next

(* The lock: only its holder leaves the places where it is held.           *)
LEMMA LockStep ==
  ASSUME TypeOK, LockHeld, [Next]_vars
  PROVE  LockHeld'
<1> USE DEF TypeOK, LockHeld, Locked, Goto, Loop, Finish, Drop, Rollback, StartAll, command
<1>1. ASSUME NEW t \in Terminals, LauncherNext(t)
      PROVE  LockHeld'
  <2>1. CASE TakeDeployLock(t)
    BY <2>1 DEF TakeDeployLock
  <2>2. CASE Prepare(t)
    <3>1. CASE Finish(t, "failed")
      BY <3>1
    <3>2. CASE UNCHANGED fleet_lock /\ \E to \in {"fleet_lock", "repair_lock"} : Goto(t, to)
      BY <3>2
    <3> QED
      BY <2>2, <3>1, <3>2 DEF Prepare
  <2>3. CASE TakeFleetLock(t)
    <3>1. \A u \in Terminals : pc[u] \notin Locked
      BY <2>3, FleetAssumption DEF TakeFleetLock
    <3>2. \A u \in Terminals \ {t} : pc'[u] = pc[u]
      BY <2>3 DEF TakeFleetLock
    <3> QED
      BY <2>3, <3>1, <3>2 DEF TakeFleetLock
  <2>4. CASE StopOne(t)
    BY <2>4 DEF StopOne
  <2>5. CASE AllStopped(t)
    BY <2>5 DEF AllStopped
  <2>6. CASE Refuse(t)
    BY <2>6 DEF Refuse
  <2>7. CASE Reuse(t)
    BY <2>7 DEF Reuse
  <2>8. CASE Replace(t)
    BY <2>8 DEF Replace
  <2>9. CASE CheckPorts(t)
    <3>1. CASE Finish(t, "failed")
      BY <3>1
    <3>2. CASE Loop(t, "up", Plan[cfg[t]]) /\ pc[t] = "ports" /\ UNCHANGED fleet_lock
      BY <3>2
    <3> QED
      BY <2>9, <3>1, <3>2 DEF CheckPorts
  <2>10. CASE Up(t)
    <3>1. CASE UNCHANGED <<pc, fleet_lock>>
      BY <3>1
    <3>2. CASE pc' = [pc EXCEPT ![t] = "rollback"] /\ UNCHANGED fleet_lock
      BY <3>2
    <3> QED
      BY <2>10, <3>1, <3>2 DEF Up
  <2>11. CASE Unlock(t)
    BY <2>11 DEF Unlock
  <2>12. CASE Poll(t)
    BY <2>12 DEF Poll
  <2>13. CASE Round(t)
    <3>1. CASE Finish(t, "done")
      BY <3>1
    <3>2. CASE Loop(t, "wait", Plan[cfg[t]]) /\ UNCHANGED fleet_lock
      BY <3>2
    <3> QED
      BY <2>13, <3>1, <3>2 DEF Round
  <2> QED
    BY <1>1, <2>1, <2>2, <2>3, <2>4, <2>5, <2>6, <2>7, <2>8, <2>9, <2>10, <2>11, <2>12, <2>13
       DEF LauncherNext
<1>2. ASSUME NEW t \in Terminals, Expire(t) \/ Stop(t)
      PROVE  LockHeld'
  BY <1>2 DEF Expire, Stop
<1>3. ASSUME NEW t \in Terminals, NEW c \in Configs, Deploy(t, c)
      PROVE  LockHeld'
  BY <1>3 DEF Deploy
<1>4. ASSUME NEW t \in Terminals, NEW s \in Signals, Signal(t, s)
      PROVE  LockHeld'
  <2>1. CASE Finish(t, "failed")
    BY <2>1
  <2>2. CASE Loop(t, "rollback", begun[t]) /\ UNCHANGED fleet_lock
    BY <2>2
  <2> QED
    BY <1>4, <2>1, <2>2 DEF Signal
<1>5. ASSUME NEW i \in Instances, Work(i) \/ PreflightFails(i) \/ Killed(i)
      PROVE  LockHeld'
  BY <1>5 DEF Work, PreflightFails, Killed
<1>6. CASE UNCHANGED vars
  BY <1>6 DEF vars
<1> QED
  BY <1>1, <1>2, <1>3, <1>4, <1>5, <1>6 DEF Next

Core == Clearing /\ Cleared /\ Starting /\ OneConfiguration

(* A step that starts nothing, leaves the manifest alone and brings no     *)
(* command to a place Core is about.                                       *)
LEMMA QuietStep ==
  ASSUME Core, manifest' = manifest,
         \A i \in Instances : Running(i)' => Running(i) /\ conf'[i] = conf[i],
         \A u \in Terminals : pc'[u] \in {"clear", "ports", "up"} =>
           pc'[u] = pc[u] /\ cfg'[u] = cfg[u] /\ (pc[u] = "clear" => todo'[u] = todo[u])
  PROVE  Core'
<1>1. Clearing'
  BY DEF Core, Clearing
<1>2. Cleared'
  BY DEF Core, Cleared
<1>3. Starting' /\ OneConfiguration'
  BY DEF Core, Starting, OneConfiguration
<1> QED
  BY <1>1, <1>2, <1>3 DEF Core

(* The manifest is written by the holder of the lock, when everything that *)
(* runs has the new configuration.                                         *)
LEMMA StartAllStep ==
  ASSUME TypeOK, LockHeld, Core, NEW t \in Terminals, StartAll(t), pc[t] \in Locked,
         \A i \in Instances : Running(i) => conf[i] = cfg[t],
         UNCHANGED <<cfg, fleet>>
  PROVE  Core'
<1>1. \A u \in Terminals \ {t} : pc[u] \notin Locked /\ pc'[u] = pc[u]
  BY DEF LockHeld, StartAll, Loop, Goto, TypeOK
<1>2. pc'[t] = "up" /\ manifest' = cfg[t]
  BY DEF StartAll, Loop, Goto, TypeOK
<1>3. OneConfiguration'
  BY <1>2 DEF OneConfiguration, Running, fleet
<1>4. Starting' /\ Cleared' /\ Clearing'
  BY <1>1, <1>2 DEF Starting, Cleared, Clearing, Locked
<1> QED
  BY <1>3, <1>4 DEF Core

LEMMA CoreStep ==
  ASSUME TypeOK, HasConfig, LockHeld, Core, [Next]_vars
  PROVE  Core'
<1> USE DEF TypeOK, Running
<1> DEFINE Quiet ==
      /\ manifest' = manifest
      /\ \A i \in Instances : Running(i)' => Running(i) /\ conf'[i] = conf[i]
      /\ \A u \in Terminals : pc'[u] \in {"clear", "ports", "up"} =>
           pc'[u] = pc[u] /\ cfg'[u] = cfg[u] /\ (pc[u] = "clear" => todo'[u] = todo[u])
<1>0. Quiet => Core'
  BY QuietStep
<1>1. ASSUME NEW t \in Terminals, LauncherNext(t)
      PROVE  Core'
  <2> USE DEF Goto, Loop, Finish, Rollback, command, fleet
  <2>1. CASE TakeDeployLock(t)
    BY <1>0, <2>1 DEF TakeDeployLock
  <2>2. CASE Prepare(t)
    <3>1. CASE Finish(t, "failed")
      BY <1>0, <2>2, <3>1 DEF Prepare
    <3>2. CASE UNCHANGED todo /\ \E to \in {"fleet_lock", "repair_lock"} : Goto(t, to)
      BY <1>0, <2>2, <3>2 DEF Prepare
    <3> QED
      BY <2>2, <3>1, <3>2 DEF Prepare
  <2>3. CASE TakeFleetLock(t)
    <3>1. \A u \in Terminals : pc'[u] \in {"clear", "ports", "up"} =>
            pc'[u] = pc[u] /\ todo'[u] = todo[u]
      BY <2>3 DEF TakeFleetLock
    <3> QED
      BY <1>0, <2>3, <3>1 DEF TakeFleetLock
  <2>4. CASE StopOne(t)
    <3> DEFINE h == Head(todo[t])
    <3>1. h \in Instances /\ pc' = pc /\ cfg' = cfg /\ manifest' = manifest
      BY <2>4 DEF StopOne
    <3>2. \A i \in Instances : Running(i)' => i # h /\ Running(i) /\ conf'[i] = conf[i]
      BY <2>4, <3>1 DEF StopOne, StopInstance
    <3>3. \A u \in Terminals \ {t} : todo'[u] = todo[u]
      BY <2>4 DEF StopOne, Advance
    <3>4. CASE pc[t] # "clear"
      BY <1>0, <3>1, <3>2, <3>3, <3>4
    <3>5. CASE pc[t] = "clear"
      <4>1. todo[t] \in Seq(Instances) /\ todo[t] # <<>> /\ todo'[t] = Tail(todo[t])
        BY <2>4 DEF StopOne, Advance
      <4>2. \A i \in Instances : Running(i)' => \E j \in 1 .. Len(todo'[t]) : todo'[t][j] = i
        <5> SUFFICES ASSUME NEW i \in Instances, Running(i)'
                     PROVE  \E j \in 1 .. Len(todo'[t]) : todo'[t][j] = i
          OBVIOUS
        <5>1. i # h /\ \E j \in 1 .. Len(todo[t]) : todo[t][j] = i
          BY <3>2, <3>5 DEF Core, Clearing
        <5>2. \E j \in 1 .. Len(Tail(todo[t])) : Tail(todo[t])[j] = i
          <6> HIDE DEF TypeOK
          <6> QED
            BY <4>1, <5>1, TailKeeps
        <5> QED
          BY <4>1, <5>2
      <4>3. Clearing'
        <5> SUFFICES ASSUME NEW u \in Terminals, pc'[u] = "clear",
                            NEW i \in Instances, Running(i)'
                     PROVE  \E j \in 1 .. Len(todo'[u]) : todo'[u][j] = i
          BY DEF Clearing
        <5>1. CASE u = t
          BY <4>2, <5>1
        <5>2. CASE u # t
          <6>1. pc[u] = "clear" /\ Running(i)
            BY <3>1, <3>2
          <6>2. \E j \in 1 .. Len(todo[u]) : todo[u][j] = i
            BY <6>1 DEF Core, Clearing
          <6> QED
            BY <3>3, <5>2, <6>2
        <5> QED
          BY <5>1, <5>2
      <4>4. Cleared' /\ Starting' /\ OneConfiguration'
        BY <3>1, <3>2 DEF Core, Cleared, Starting, OneConfiguration
      <4> QED
        BY <4>3, <4>4 DEF Core
    <3> QED
      BY <3>4, <3>5
  <2>5. CASE AllStopped(t)
    <3>1. CASE pc[t] # "clear"
      <4>1. \A u \in Terminals : pc'[u] \in {"clear", "ports", "up"} =>
              pc'[u] = pc[u] /\ todo'[u] = todo[u]
        BY <2>5, <3>1 DEF AllStopped
      <4> QED
        BY <1>0, <2>5, <4>1 DEF AllStopped
    <3>2. CASE pc[t] = "clear"
      <4>1. \A i \in Instances : ~Running(i)
        BY <2>5, <3>2 DEF AllStopped, Core, Clearing
      <4>2. pc' = [pc EXCEPT ![t] = "ports"] /\ UNCHANGED <<todo, cfg, manifest, run, conf>>
        BY <2>5, <3>2 DEF AllStopped
      <4> QED
        BY <4>1, <4>2 DEF Core, Clearing, Cleared, Starting, OneConfiguration
    <3> QED
      BY <3>1, <3>2
  <2>6. CASE Refuse(t)
    BY <1>0, <2>6 DEF Refuse
  <2>7. CASE Reuse(t)
    <3>1. \A i \in Instances : Running(i) => conf[i] = cfg[t]
      BY <2>7 DEF Reuse, Reusable, Core, OneConfiguration
    <3> QED
      BY <2>7, <3>1, StartAllStep DEF Reuse, Locked
  <2>8. CASE Replace(t)
    <3>1. pc' = [pc EXCEPT ![t] = "clear"] /\ todo' = [todo EXCEPT ![t] = StopOrder]
          /\ UNCHANGED <<cfg, manifest, run, conf>>
      BY <2>8 DEF Replace
    <3>2. \A u \in Terminals \ {t} : pc'[u] = pc[u] /\ todo'[u] = todo[u]
      BY <3>1
    <3>3. todo'[t] = StopOrder
      BY <3>1
    <3>4. Clearing'
      BY <3>1, <3>2, <3>3 DEF Core, Clearing, Instances
    <3> QED
      BY <3>1, <3>4 DEF Core, Cleared, Starting, OneConfiguration
  <2>9. CASE CheckPorts(t)
    <3>1. CASE Finish(t, "failed") /\ UNCHANGED manifest
      BY <1>0, <2>9, <3>1 DEF CheckPorts
    <3>2. CASE StartAll(t)
      <4>1. \A i \in Instances : Running(i) => conf[i] = cfg[t]
        BY <2>9 DEF CheckPorts, Core, Cleared
      <4> QED
        BY <2>9, <3>2, <4>1, StartAllStep DEF CheckPorts, Locked
    <3> QED
      BY <2>9, <3>1, <3>2 DEF CheckPorts
  <2>10. CASE Up(t)
    <3> DEFINE h == Head(todo[t])
    <3>1. h \in Instances /\ pc[t] = "up" /\ cfg[t] = manifest /\ UNCHANGED <<cfg, manifest>>
      BY <2>10 DEF Up, Core, Starting
    <3>2. CASE UNCHANGED fleet
      <4>1. \A u \in Terminals : pc'[u] \in {"clear", "ports", "up"} =>
              pc'[u] = pc[u] /\ (pc[u] = "clear" => todo'[u] = todo[u])
        BY <2>10 DEF Up, Advance
      <4> QED
        BY <1>0, <3>1, <3>2, <4>1
    <3>3. CASE /\ pc' = pc
               /\ run' = [run EXCEPT ![h] = "doctor"]
               /\ conf' = [conf EXCEPT ![h] = cfg[t]]
      <4>1. \A u \in Terminals : pc[u] \notin {"clear", "ports"}
        BY <3>1 DEF LockHeld, Locked
      <4>2. \A i \in Instances \ {h} : run'[i] = run[i] /\ conf'[i] = conf[i]
        BY <3>3
      <4>3. conf'[h] = manifest'
        BY <3>1, <3>3
      <4>4. OneConfiguration'
        BY <3>1, <4>2, <4>3 DEF Core, OneConfiguration
      <4> QED
        BY <3>1, <3>3, <4>1, <4>4 DEF Core, Clearing, Cleared, Starting
    <3> QED
      BY <2>10, <3>2, <3>3 DEF Up
  <2>11. CASE Unlock(t)
    BY <1>0, <2>11 DEF Unlock
  <2>12. CASE Poll(t)
    <3>1. \A u \in Terminals : pc'[u] \in {"clear", "ports", "up"} =>
            pc'[u] = pc[u] /\ (pc[u] = "clear" => todo'[u] = todo[u])
      BY <2>12 DEF Poll, Advance
    <3> QED
      BY <1>0, <2>12, <3>1 DEF Poll
  <2>13. CASE Round(t)
    <3>1. CASE Finish(t, "done")
      BY <1>0, <2>13, <3>1 DEF Round
    <3>2. CASE Loop(t, "wait", Plan[cfg[t]])
      BY <1>0, <2>13, <3>2 DEF Round
    <3> QED
      BY <2>13, <3>1, <3>2 DEF Round
  <2> QED
    BY <1>1, <2>1, <2>2, <2>3, <2>4, <2>5, <2>6, <2>7, <2>8, <2>9, <2>10, <2>11, <2>12, <2>13
       DEF LauncherNext
<1>2. ASSUME NEW t \in Terminals, Expire(t) \/ Stop(t)
      PROVE  Core'
  BY <1>0, <1>2 DEF Expire, Stop, Rollback, Loop, Goto, command, fleet
<1>3. ASSUME NEW t \in Terminals, NEW c \in Configs, Deploy(t, c)
      PROVE  Core'
  BY <1>0, <1>3 DEF Deploy, Goto, fleet
<1>4. ASSUME NEW t \in Terminals, NEW s \in Signals, Signal(t, s)
      PROVE  Core'
  <2>1. \A u \in Terminals : pc'[u] \in {"clear", "ports", "up"} =>
          pc'[u] = pc[u] /\ todo'[u] = todo[u]
    <3>1. CASE Loop(t, "rollback", begun[t])
      BY <3>1 DEF Loop, Goto
    <3>2. CASE Loop(t, "failed", <<>>)
      BY <3>2 DEF Loop, Goto
    <3> QED
      BY <1>4, <3>1, <3>2 DEF Signal, Rollback, Finish
  <2> QED
    BY <1>0, <1>4, <2>1 DEF Signal, fleet
<1>5. ASSUME NEW i \in Instances, Work(i) \/ PreflightFails(i) \/ Killed(i)
      PROVE  Core'
  <2>1. CASE Work(i)
    <3>1. Running(i)
      BY <2>1 DEF Work, Progress
    <3> QED
      BY <1>0, <2>1, <3>1 DEF Work, command
  <2>2. CASE PreflightFails(i) \/ Killed(i)
    BY <1>0, <2>2 DEF PreflightFails, Killed, StopInstance, command
  <2> QED
    BY <1>5, <2>1, <2>2
<1>6. CASE UNCHANGED vars
  BY <1>0, <1>6 DEF vars
<1> QED
  BY <1>1, <1>2, <1>3, <1>4, <1>5, <1>6 DEF Next

(* Everything that runs, runs the configuration of the manifest: for every *)
(* number of terminals, instances, configurations, signals and deaths.     *)
THEOREM FleetIsOne == Spec => [](TypeOK /\ OneConfiguration)
<1>1. FleetInv /\ [Next]_vars => FleetInv'
  BY TypeStep, LockStep, CoreStep DEF FleetInv, Core
<1>2. FleetInv => TypeOK /\ OneConfiguration
  BY DEF FleetInv
<1> QED
  BY InitInv, <1>1, <1>2, PTL DEF Spec

-----------------------------------------------------------------------------
(* A start holds deploy.lock from its preparation to the end of its wait   *)
(* or roll-back, as long as no terminal is closed.                         *)
Begun == {"prepare", "repair_lock", "repair", "fleet_lock", "check", "clear", "ports", "up",
          "wait", "rollback"}
DeployHeld == \A t \in Terminals : pc[t] \in Begun => deploy_lock = t

LEMMA DeployStep ==
  ASSUME TypeOK, DeployHeld, [Next]_vars, "hup" \notin Signals
  PROVE  DeployHeld'
<1> USE DEF TypeOK, DeployHeld, Begun, Goto, Loop, Finish, Drop, Rollback, StartAll, command
<1>1. ASSUME NEW t \in Terminals, LauncherNext(t)
      PROVE  DeployHeld'
  <2>1. CASE TakeDeployLock(t)
    <3>1. \A u \in Terminals : pc[u] \notin Begun
      BY <2>1, FleetAssumption DEF TakeDeployLock
    <3>2. deploy_lock' = t /\ \A u \in Terminals \ {t} : pc'[u] = pc[u]
      BY <2>1 DEF TakeDeployLock
    <3> QED
      BY <3>1, <3>2
  <2>2. CASE Prepare(t)
    <3>1. CASE Finish(t, "failed")
      BY <3>1
    <3>2. CASE UNCHANGED deploy_lock /\ \E to \in {"fleet_lock", "repair_lock"} : Goto(t, to)
      BY <2>2, <3>2 DEF Prepare
    <3> QED
      BY <2>2, <3>1, <3>2 DEF Prepare
  <2>3. CASE TakeFleetLock(t)
    BY <2>3 DEF TakeFleetLock
  <2>4. CASE StopOne(t)
    BY <2>4 DEF StopOne
  <2>5. CASE AllStopped(t)
    <3>1. CASE Finish(t, "done") \/ Finish(t, "failed")
      BY <3>1, ZenonT(60)
    <3>2. CASE pc[t] = "clear"
      BY <2>5, <3>2 DEF AllStopped
    <3>3. CASE pc[t] = "repair"
      BY <2>5, <3>3 DEF AllStopped
    <3> QED
      BY <2>5, <3>1, <3>2, <3>3 DEF AllStopped
  <2>6. CASE Refuse(t)
    BY <2>6 DEF Refuse
  <2>7. CASE Reuse(t)
    BY <2>7 DEF Reuse
  <2>8. CASE Replace(t)
    BY <2>8 DEF Replace
  <2>9. CASE CheckPorts(t)
    <3>1. CASE Finish(t, "failed")
      BY <3>1
    <3>2. CASE StartAll(t) /\ pc[t] = "ports" /\ UNCHANGED deploy_lock
      BY <3>2
    <3> QED
      BY <2>9, <3>1, <3>2 DEF CheckPorts
  <2>10. CASE Up(t)
    <3>1. CASE UNCHANGED <<pc, deploy_lock>>
      BY <3>1
    <3>2. CASE pc[t] = "up" /\ pc' = [pc EXCEPT ![t] = "rollback"] /\ UNCHANGED deploy_lock
      BY <3>2
    <3> QED
      BY <2>10, <3>1, <3>2 DEF Up
  <2>11. CASE Unlock(t)
    BY <2>11 DEF Unlock
  <2>12. CASE Poll(t)
    BY <2>12 DEF Poll
  <2>13. CASE Round(t)
    <3>1. CASE Finish(t, "done")
      BY <3>1
    <3>2. CASE pc[t] = "wait" /\ Loop(t, "wait", Plan[cfg[t]]) /\ UNCHANGED deploy_lock
      BY <3>2
    <3> QED
      BY <2>13, <3>1, <3>2 DEF Round
  <2> QED
    BY <1>1, <2>1, <2>2, <2>3, <2>4, <2>5, <2>6, <2>7, <2>8, <2>9, <2>10, <2>11, <2>12, <2>13
       DEF LauncherNext
<1>2. ASSUME NEW t \in Terminals, Expire(t) \/ Stop(t)
      PROVE  DeployHeld'
  BY <1>2 DEF Expire, Stop
<1>3. ASSUME NEW t \in Terminals, NEW c \in Configs, Deploy(t, c)
      PROVE  DeployHeld'
  BY <1>3 DEF Deploy
<1>4. ASSUME NEW t \in Terminals, NEW s \in Signals, Signal(t, s)
      PROVE  DeployHeld'
  <2>1. CASE Finish(t, "failed")
    BY <2>1
  <2>2. CASE pc[t] \in {"up", "wait"} /\ Loop(t, "rollback", begun[t]) /\ UNCHANGED deploy_lock
    BY <2>2
  <2> QED
    BY <1>4, <2>1, <2>2 DEF Signal
<1>5. ASSUME NEW i \in Instances, Work(i) \/ PreflightFails(i) \/ Killed(i)
      PROVE  DeployHeld'
  BY <1>5 DEF Work, PreflightFails, Killed
<1>6. CASE UNCHANGED vars
  BY <1>6 DEF vars
<1> QED
  BY <1>1, <1>2, <1>3, <1>4, <1>5, <1>6 DEF Next

(* While a start waits, no other start is at work at all: deploy.lock has  *)
(* one holder.  The run fleet_hangup shows why SIGHUP is left out.         *)
THEOREM StartsInTurn ==
  ASSUME "hup" \notin Signals
  PROVE  Spec => StartsAreSerial
<1> DEFINE I == FleetInv /\ DeployHeld
<1>1. Init => I
  BY InitInv DEF Init, DeployHeld, Begun
<1>2. I /\ [Next]_vars => I'
  BY TypeStep, LockStep, CoreStep, DeployStep DEF FleetInv, Core
<1>3. I => \A t, u \in Terminals :
             ~(t # u /\ pc[t] = "wait" /\ pc[u] \in {"repair", "clear", "rollback"})
  BY DEF DeployHeld, Begun
<1>4. I /\ [Next]_vars =>
        [\A t, u \in Terminals :
           (/\ t # u
            /\ pc[t] = "wait"
            /\ pc[u] \in {"repair", "clear", "rollback"})
           => \A j \in 1 .. Len(Plan[cfg[t]]) :
                LET i == Plan[cfg[t]][j] IN
                (todo'[u] # todo[u] /\ i = Head(todo[u])) => ~Running(i)]_vars
  BY <1>3
<1> QED
  BY <1>1, <1>2, <1>4, PTL DEF Spec, StartsAreSerial

-----------------------------------------------------------------------------
(* What a command has started is in `begun` while it may still go on, and  *)
(* ahead of its loop while it rolls back.                                  *)
Among(i, s) == \E j \in 1 .. Len(s) : s[j] = i
Before == PCs \ ({"up", "wait", "rollback"} \union Over)
Owns(t) ==
  \A i \in Instances : by[i] = t =>
    /\ pc[t] \notin Before
    /\ pc[t] \in {"up", "wait"} => Among(i, begun[t])
    /\ pc[t] = "rollback" => Among(i, todo[t])
Owned == \A t \in Terminals : Owns(t)

(* A step of another command, or of an instance, takes instances away from *)
(* this one at most.                                                       *)
LEMMA OwnsKept ==
  ASSUME NEW t \in Terminals, Owns(t), \A i \in Instances : by'[i] = t => by[i] = t,
         pc'[t] = pc[t] \/ pc'[t] \in Over,
         begun'[t] = begun[t], todo'[t] = todo[t] \/ pc[t] # "rollback" \/ pc'[t] \in Over
  PROVE  Owns(t)'
BY DEF Owns, Before

(* So does a step on the way to the first start.                           *)
LEMMA OwnsNothing ==
  ASSUME NEW t \in Terminals, Owns(t), pc[t] \in Before,
         \A i \in Instances : by'[i] = t => by[i] = t
  PROVE  Owns(t)'
BY DEF Owns, Before

LEMMA RollbackOwns ==
  ASSUME TypeOK, NEW t \in Terminals, Owns(t), pc[t] \in {"up", "wait"},
         Rollback(t, begun[t]), UNCHANGED fleet
  PROVE  Owns(t)'
BY DEF Owns, Rollback, Loop, Goto, TypeOK, fleet, Before, Among

LEMMA AppendKeeps ==
  ASSUME NEW S, NEW s \in Seq(S), NEW x \in S
  PROVE  Among(x, Append(s, x)) /\ \A i : Among(i, s) => Among(i, Append(s, x))
<1>1. Append(s, x)[Len(s) + 1] = x /\ Len(s) + 1 \in 1 .. Len(Append(s, x))
  OBVIOUS
<1>2. \A j \in 1 .. Len(s) : Append(s, x)[j] = s[j] /\ j \in 1 .. Len(Append(s, x))
  OBVIOUS
<1> QED
  BY <1>1, <1>2 DEF Among

(* The step of a launcher, seen by itself.                                 *)
LEMMA OwnStep ==
  ASSUME TypeOK, NEW t \in Terminals, Owns(t), LauncherNext(t)
  PROVE  Owns(t)'
<1> USE DEF TypeOK
<1>1. CASE TakeDeployLock(t)
  BY <1>1, OwnsNothing DEF TakeDeployLock, Before, PCs, fleet
<1>2. CASE Prepare(t)
  BY <1>2, OwnsNothing DEF Prepare, Before, PCs, fleet
<1>3. CASE TakeFleetLock(t)
  BY <1>3, OwnsNothing DEF TakeFleetLock, Before, PCs, fleet
<1>4. CASE StopOne(t)
  <2> DEFINE h == Head(todo[t])
  <2>1. h \in Instances /\ todo[t] \in Seq(Instances) /\ todo[t] # <<>>
    BY <1>4 DEF StopOne
  <2>2. \A i \in Instances : by'[i] = t => i # h /\ by[i] = t
    BY <1>4, <2>1, FleetAssumption DEF StopOne, StopInstance
  <2>3. CASE pc[t] # "rollback"
    BY <1>4, <2>2, <2>3, OwnsNothing DEF StopOne, Before, PCs
  <2>4. CASE pc[t] = "rollback"
    <3>1. \A i \in Instances : by'[i] = t => Among(i, Tail(todo[t]))
      <4> SUFFICES ASSUME NEW i \in Instances, by'[i] = t
                   PROVE  Among(i, Tail(todo[t]))
        OBVIOUS
      <4>1. i # h /\ Among(i, todo[t])
        BY <2>2, <2>4 DEF Owns
      <4> HIDE DEF TypeOK
      <4> QED
        BY <2>1, <4>1, TailKeeps DEF Among
    <3>2. pc'[t] = "rollback" /\ todo'[t] = Tail(todo[t])
      BY <1>4, <2>4 DEF StopOne, Advance
    <3> QED
      BY <3>1, <3>2 DEF Owns, Before
  <2> QED
    BY <2>3, <2>4
<1>5. CASE AllStopped(t)
  <2>1. CASE pc[t] = "rollback"
    BY <1>5, <2>1, OwnsKept DEF AllStopped, Finish, Loop, Goto, fleet
  <2>2. CASE pc[t] # "rollback"
    BY <1>5, <2>2, OwnsNothing DEF AllStopped, Before, PCs, fleet
  <2> QED
    BY <2>1, <2>2
<1>6. CASE Refuse(t)
  BY <1>6, OwnsNothing DEF Refuse, Before, PCs, fleet
<1>7. CASE Reuse(t)
  BY <1>7, OwnsNothing DEF Reuse, Before, PCs, fleet
<1>8. CASE Replace(t)
  BY <1>8, OwnsNothing DEF Replace, Before, PCs, fleet
<1>9. CASE CheckPorts(t)
  BY <1>9, OwnsNothing DEF CheckPorts, Before, PCs, fleet
<1>10. CASE Up(t)
  <2> DEFINE i == Head(todo[t])
  <2>1. /\ i \in Instances /\ begun[t] \in Seq(Instances) /\ pc[t] = "up"
        /\ begun'[t] = Append(begun[t], i)
    BY <1>10 DEF Up
  <2>2. Among(i, begun'[t]) /\ \A x : Among(x, begun[t]) => Among(x, begun'[t])
    <3> HIDE DEF TypeOK
    <3> QED
      BY <2>1, AppendKeeps
  <2>3. CASE UNCHANGED fleet /\ UNCHANGED pc
    BY <2>1, <2>2, <2>3 DEF Owns, fleet, Before
  <2>4. CASE by' = [by EXCEPT ![i] = t] /\ UNCHANGED pc
    BY <2>1, <2>2, <2>4 DEF Owns, Before
  <2>5. CASE UNCHANGED fleet /\ Rollback(t, Append(begun[t], i))
    <3>1. pc'[t] = "rollback" /\ todo'[t] = begun'[t]
      BY <2>1, <2>5 DEF Rollback, Loop, Goto
    <3> QED
      BY <2>1, <2>2, <2>5, <3>1 DEF Owns, fleet, Before
  <2> QED
    BY <1>10, <2>3, <2>4, <2>5 DEF Up
<1>11. CASE Unlock(t)
  BY <1>11 DEF Unlock, Loop, Goto, Owns, fleet, Before
<1>12. CASE Poll(t)
  <2>1. CASE Rollback(t, begun[t])
    BY <1>12, <2>1, RollbackOwns DEF Poll
  <2>2. CASE UNCHANGED pc
    BY <1>12, <2>2, OwnsKept DEF Poll, fleet
  <2> QED
    BY <1>12, <2>1, <2>2 DEF Poll
<1>13. CASE Round(t)
  <2>1. CASE Finish(t, "done")
    BY <1>13, <2>1, OwnsKept DEF Round, Finish, Loop, Goto, fleet
  <2>2. CASE Loop(t, "wait", Plan[cfg[t]])
    BY <1>13, <2>2, OwnsKept DEF Round, Loop, Goto, fleet
  <2> QED
    BY <1>13, <2>1, <2>2 DEF Round
<1> QED
  BY <1>1, <1>2, <1>3, <1>4, <1>5, <1>6, <1>7, <1>8, <1>9, <1>10, <1>11, <1>12, <1>13
     DEF LauncherNext

(* A launcher's step does not touch the other commands, and only Up takes  *)
(* an instance.                                                            *)
LEMMA OthersStep ==
  ASSUME TypeOK, NEW t \in Terminals, LauncherNext(t), NEW u \in Terminals \ {t}
  PROVE  /\ pc'[u] = pc[u] /\ begun'[u] = begun[u] /\ todo'[u] = todo[u]
         /\ \A i \in Instances : by'[i] = u => by[i] = u
<1> USE DEF TypeOK, Goto, Loop, Finish, Rollback, StartAll, Advance, command, fleet
<1>1. CASE TakeDeployLock(t) \/ TakeFleetLock(t) \/ Replace(t) \/ Unlock(t)
  BY <1>1 DEF TakeDeployLock, TakeFleetLock, Replace, Unlock
<1>2. CASE Prepare(t)
  BY <1>2 DEF Prepare
<1>3. CASE StopOne(t)
  BY <1>3, FleetAssumption DEF StopOne, StopInstance
<1>4. CASE AllStopped(t)
  BY <1>4 DEF AllStopped
<1>5. CASE Refuse(t) \/ Reuse(t)
  BY <1>5 DEF Refuse, Reuse
<1>6. CASE CheckPorts(t)
  BY <1>6 DEF CheckPorts
<1>7. CASE Up(t)
  <2>1. Head(todo[t]) \in Instances
    BY <1>7 DEF Up
  <2>2. \A i \in Instances : by'[i] = u => by[i] = u
    BY <1>7, <2>1 DEF Up
  <2>3. pc'[u] = pc[u] /\ begun'[u] = begun[u] /\ todo'[u] = todo[u]
    BY <1>7 DEF Up
  <2> QED
    BY <2>2, <2>3
<1>8. CASE Poll(t)
  BY <1>8 DEF Poll
<1>9. CASE Round(t)
  BY <1>9 DEF Round
<1> QED
  BY <1>1, <1>2, <1>3, <1>4, <1>5, <1>6, <1>7, <1>8, <1>9 DEF LauncherNext

LEMMA TakenOnlyByUp ==
  ASSUME TypeOK, [Next]_vars, NEW t \in Terminals, pc[t] # "up"
  PROVE  \A i \in Instances : by'[i] = t => by[i] = t
<1>1. CASE LauncherNext(t)
  <2>1. CASE StopOne(t)
    BY <2>1, FleetAssumption DEF StopOne, StopInstance, TypeOK
  <2>2. CASE ~StopOne(t)
    BY <1>1, <2>2 DEF LauncherNext, TakeDeployLock, Prepare, TakeFleetLock, AllStopped, Refuse,
      Reuse, Replace, CheckPorts, Up, Unlock, Poll, Round, fleet
  <2> QED
    BY <2>1, <2>2
<1>2. CASE \E u \in Terminals \ {t} : LauncherNext(u)
  BY <1>2, OthersStep
<1>3. CASE \E u \in Terminals : Expire(u) \/ Stop(u) \/ \E c \in Configs : Deploy(u, c)
  BY <1>3 DEF Expire, Stop, Deploy, fleet
<1>4. CASE \E u \in Terminals, s \in Signals : Signal(u, s)
  BY <1>4 DEF Signal, fleet
<1>5. CASE \E i \in Instances : Work(i) \/ PreflightFails(i) \/ Killed(i)
  BY <1>5, FleetAssumption DEF Work, PreflightFails, Killed, StopInstance, TypeOK
<1>6. CASE UNCHANGED vars
  BY <1>6 DEF vars, fleet
<1> QED
  BY <1>1, <1>2, <1>3, <1>4, <1>5, <1>6 DEF Next

LEMMA OwnedStep ==
  ASSUME TypeOK, Owned, [Next]_vars
  PROVE  Owned'
<1> USE DEF TypeOK, Owned
<1>1. ASSUME NEW t \in Terminals, LauncherNext(t)
      PROVE  Owned'
  <2> SUFFICES ASSUME NEW u \in Terminals
               PROVE  Owns(u)'
    OBVIOUS
  <2>1. CASE u = t
    BY <1>1, <2>1, OwnStep
  <2>2. CASE u # t
    <3>1. /\ pc'[u] = pc[u] /\ begun'[u] = begun[u] /\ todo'[u] = todo[u]
          /\ \A i \in Instances : by'[i] = u => by[i] = u
      BY <1>1, <2>2, OthersStep
    <3> QED
      BY <3>1, OwnsKept
  <2> QED
    BY <2>1, <2>2
<1>2. ASSUME NEW t \in Terminals, Expire(t) \/ Stop(t)
      PROVE  Owned'
  <2>1. \A u \in Terminals \ {t} : Owns(u)'
    BY <1>2, OwnsKept DEF Expire, Stop, Rollback, Loop, Goto, command, fleet
  <2>2. CASE Expire(t)
    BY <2>1, <2>2, RollbackOwns DEF Expire
  <2>3. CASE Stop(t)
    BY <2>1, <2>3, OwnsNothing DEF Stop, Before, PCs, fleet
  <2> QED
    BY <1>2, <2>2, <2>3
<1>3. ASSUME NEW t \in Terminals, NEW c \in Configs, Deploy(t, c)
      PROVE  Owned'
  <2>1. \A u \in Terminals \ {t} : Owns(u)'
    BY <1>3, OwnsKept DEF Deploy, Goto, fleet
  <2>2. Owns(t)'
    BY <1>3, OwnsNothing DEF Deploy, Before, PCs, fleet
  <2> QED
    BY <2>1, <2>2
<1>4. ASSUME NEW t \in Terminals, NEW s \in Signals, Signal(t, s)
      PROVE  Owned'
  <2>1. CASE pc[t] \in {"up", "wait"} /\ Rollback(t, begun[t])
    <3>1. \A u \in Terminals \ {t} : Owns(u)'
      BY <1>4, <2>1, OwnsKept DEF Signal, Rollback, Loop, Goto, fleet
    <3>2. Owns(t)'
      BY <1>4, <2>1, RollbackOwns DEF Signal
    <3> QED
      BY <3>1, <3>2
  <2>2. CASE Finish(t, "failed")
    <3>1. \A u \in Terminals : Owns(u)'
      BY <1>4, <2>2, OwnsKept DEF Signal, Finish, Loop, Goto, fleet
    <3> QED
      BY <3>1
  <2> QED
    BY <1>4, <2>1, <2>2 DEF Signal
<1>5. ASSUME NEW i \in Instances, Work(i) \/ PreflightFails(i) \/ Killed(i)
      PROVE  Owned'
  <2>1. /\ UNCHANGED <<pc, begun, todo>>
        /\ \A t \in Terminals, j \in Instances : by'[j] = t => by[j] = t
    BY <1>5, FleetAssumption, ZenonT(60) DEF Work, PreflightFails, Killed, StopInstance, command
  <2> QED
    BY <2>1, OwnsKept
<1>6. CASE UNCHANGED vars
  BY <1>6, OwnsKept DEF vars, fleet
<1> QED
  BY <1>1, <1>2, <1>3, <1>4, <1>5, <1>6 DEF Next

(* A roll-back that has come to its end has visited everything its command *)
(* started: what it owns is always ahead of its loop.                      *)
THEOREM NothingLeft == Spec => RollbackLeavesNothing
<1> DEFINE I == FleetInv /\ Owned
<1>1. Init => I
  BY InitInv, FleetAssumption DEF Init, Owned, Owns, Among
<1>2. I /\ [Next]_vars => I'
  BY TypeStep, LockStep, CoreStep, OwnedStep DEF FleetInv, Core
<1>3. ASSUME I, [Next]_vars, NEW t \in Terminals,
             pc[t] = "rollback", todo[t] = <<>>, pc'[t] = "failed"
      PROVE  \A i \in Instances : by'[i] # t
  <2>1. \A i \in Instances : by[i] # t
    BY <1>3 DEF Owned, Owns, Among
  <2>2. \A i \in Instances : by'[i] = t => by[i] = t
    BY <1>3, TakenOnlyByUp DEF FleetInv
  <2> QED
    BY <2>1, <2>2
<1>4. I /\ [Next]_vars =>
        [\A t \in Terminals :
           (pc[t] = "rollback" /\ todo[t] = <<>> /\ pc'[t] = "failed")
           => \A i \in Instances : by'[i] # t]_vars
  BY <1>3
<1> QED
  BY <1>1, <1>2, <1>4, PTL DEF Spec, RollbackLeavesNothing
=============================================================================
