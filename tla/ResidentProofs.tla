--------------------------- MODULE ResidentProofs ---------------------------
(***************************************************************************)
(* Theorems about the resident service, for every number of requests,      *)
(* ranks, launches, controllers and faults.                                *)
(*                                                                         *)
(* The first part has the shape of the steps and type correctness, which   *)
(* rests on CoreInv: it relates the controller's program counter to its    *)
(* process handle and to the groups that are alive.                        *)
(*                                                                         *)
(* The second part is about the attended service: groups load their models *)
(* onto free GPUs, run only what was published for them, and a recorded    *)
(* failure has settled every receipt; and, as long as receipts can be      *)
(* written, no result is ever written twice and the service implements the *)
(* ledger.                                                                 *)
(*                                                                         *)
(* The third part accounts for the output slots of a group, under every    *)
(* fault: none is lost or used twice, and what the group owes a result     *)
(* never exceeds its capacity.                                             *)
(*                                                                         *)
(* The fourth part is about the service in which no call is abandoned: as  *)
(* long as a group has a future, its ranks serve the same request, and     *)
(* never one that has succeeded before.  All of it is about the group      *)
(* launched last, the only one that does anything, and about the time from *)
(* which some call has seen it ready.                                      *)
(***************************************************************************)
EXTENDS Resident, FiniteSetTheorems, TLAPS

Supervising == {"report", "poll", "stop", "fail_command", "fail_receipts", "record"}
Settling == {"fail_command", "fail_receipts", "record"}
Launching == {"state", "popen"}

(* A group that is not alive has no ranks and no completions; groups are   *)
(* numbered in the order of their launch, the one being launched is not    *)
(* alive yet, and the one whose requests are being settled not any more;   *)
(* and the controller's handle is on the group it supervises.              *)
CoreInv ==
  /\ launch = launched
  /\ \A g \in Instances : g \notin live => rpc[g] = AllOff /\ outputs[g] = NoOutputs
  /\ \A g \in live : g <= launched
  /\ spc \in Launching => launched # 0 /\ launched \notin live
  /\ spc = "owner" => launched # 0
  /\ spc \in Supervising => worker = instance /\ instance # 0
  /\ spc \in Settling => instance \notin live
  /\ spc \in {"clear", "wait", "state", "popen", "owner"} => worker = 0
  /\ worker <= launched /\ instance <= launched

(* A request that is not yet published.                                    *)
FreshPCs == {"idle", "lock", "health", "publish"}
Fresh(c) == cpc[c] \in FreshPCs

-----------------------------------------------------------------------------
(* Every step of a client ends the call, publishes, cancels, or moves on   *)
(* without writing to the mailbox.                                         *)
Moves(c) ==
  /\ cpc[c] # "done"
  /\ \E to \in ClientPCs \ {"idle", "done"} :
       /\ cpc' = [cpc EXCEPT ![c] = to]
       /\ to \in {"lock", "health", "publish"} => Fresh(c)
  /\ \/ cinst' = cinst
     \/ Ready /\ cpc[c] = "health" /\ cinst' = [cinst EXCEPT ![c] = state.inst]
  /\ reason' = reason \/ \E why \in Reasons : reason' = [reason EXCEPT ![c] = why]
  /\ gpu_lock' \in {gpu_lock, c, NoToken}
  /\ outcome' = outcome
  /\ UNCHANGED mailVars

Ends(c) ==
  \E v \in Verdicts : End(c, v) /\ cpc[c] \notin {"idle", "done"} /\ (v = "ok" => results[c] = "ok")

(* Every step of a client is one of these: it waits, reads the health,     *)
(* publishes, ends, or writes cancel.json.                                 *)
LEMMA ClientShape ==
  ASSUME TypeOK, NEW c \in Requests, ClientNext(c) \/ Abandon(c)
  PROVE  Ends(c) \/ Publish(c) \/ WriteCancel(c) \/ Moves(c)
<1>0. ASSUME NEW v \in {"failed"}, End(c, v), cpc[c] \notin {"idle", "done"}
      PROVE  Ends(c)
  BY <1>0 DEF Ends, Verdicts
<1>1. CASE Submit(c)
  BY <1>1 DEF Submit, Moves, Goto, ClientPCs, Holding, Fresh, FreshPCs
<1>2. CASE AcquireLock(c)
  BY <1>2 DEF AcquireLock, Moves, Goto, ClientPCs, Holding, Fresh, FreshPCs
<1>3. CASE InterruptWhileQueued(c) \/ WaitExpires(c) \/ Abandon(c)
  BY <1>0, <1>3 DEF InterruptWhileQueued, WaitExpires, Abandon, Holding
<1>4. CASE ReadHealth(c)
  BY <1>0, <1>4 DEF ReadHealth, Moves, Goto, ClientPCs, Holding, Fresh, FreshPCs
<1>5. CASE ReadResult(c) \/ WaitResult(c)
  <2>1. CASE results[c] # "none"
    <3>1. results[c] \in Verdicts
      BY <2>1 DEF TypeOK, MailboxTypeOK
    <3>2. End(c, results[c]) /\ cpc[c] \notin {"idle", "done"}
      BY <1>5, <2>1 DEF ReadResult, WaitResult
    <3>. QED  BY <3>1, <3>2 DEF Ends
  <2>2. CASE results[c] = "none"
    BY <1>5, <2>2 DEF ReadResult, WaitResult, Moves, Goto, ClientPCs, Holding, Fresh, FreshPCs
  <2>. QED  BY <2>1, <2>2
<1>6. CASE ReadReceipt(c)
  BY <1>6 DEF ReadReceipt, Moves, Goto, ClientPCs, Holding, Fresh, FreshPCs
<1>7. CASE CheckHealth(c) \/ WaitHealth(c)
  BY <1>0, <1>7 DEF CheckHealth, WaitHealth, Moves, Goto, ClientPCs, Holding, Fresh, FreshPCs
<1>8. CASE \E why \in Reasons : WantCancel(c, why)
  BY <1>8 DEF WantCancel, Moves, Goto, ClientPCs, Holding, Fresh, FreshPCs
<1>9. CASE DecideCancel(c)
  BY <1>0, <1>9 DEF DecideCancel, Moves, Goto, ClientPCs, Holding, Fresh, FreshPCs
<1>. QED
  BY <1>1, <1>2, <1>3, <1>4, <1>5, <1>6, <1>7, <1>8, <1>9 DEF ClientNext

(* Type correctness of the steps of a client.                              *)
LEMMA ClientTypes ==
  ASSUME TypeOK, NEW c \in Requests, ClientNext(c) \/ Abandon(c)
  PROVE  MailboxTypeOK' /\ ClientTypeOK'
<1>0. MailboxTypeOK /\ ClientTypeOK
  BY DEF TypeOK
<1>1. CASE Ends(c)
  BY <1>0, <1>1 DEF Ends, End, ClientPCs, mailVars, MailboxTypeOK, ClientTypeOK
<1>2. CASE Publish(c)
  <2>1. ClientTypeOK'
    BY <1>0, <1>2 DEF Publish, Goto, ClientPCs, Holding, ClientTypeOK
  <2>2. command' \in [token: Requests \union {NoToken}, inst: MaybeInstance]
    BY <1>0, <1>2 DEF Publish, ClientTypeOK
  <2>3. MailboxTypeOK'
    BY <1>0, <1>2, <2>2 DEF Publish, MailboxTypeOK
  <2>. QED  BY <2>1, <2>3
<1>3. CASE WriteCancel(c)
  <2>1. ClientTypeOK'
    BY <1>0, <1>3 DEF WriteCancel, Goto, ClientPCs, ClientTypeOK, Verdicts
  <2>2. cancel' \in [inst: MaybeInstance, token: Requests \union {NoToken}, reason: Reasons]
    BY <1>0, <1>3 DEF WriteCancel, ClientTypeOK
  <2>3. MailboxTypeOK'
    BY <1>0, <1>3, <2>2 DEF WriteCancel, MailboxTypeOK
  <2>. QED  BY <2>1, <2>3
<1>4. CASE Moves(c)
  <2>1. ClientTypeOK'
    <3>1. cpc' \in [Requests -> ClientPCs]
      BY <1>0, <1>4 DEF Moves, ClientTypeOK
    <3>2. state.inst \in MaybeInstance
      BY <1>0 DEF MailboxTypeOK
    <3>3. cinst' \in [Requests -> MaybeInstance]
      BY <1>0, <1>4, <3>2 DEF Moves, ClientTypeOK
    <3>4. reason' \in [Requests -> Reasons]
      BY <1>0, <1>4 DEF Moves, ClientTypeOK
    <3>5. gpu_lock' \in Requests \union {NoToken} /\ outcome' = outcome
      BY <1>0, <1>4 DEF Moves, ClientTypeOK
    <3>. QED  BY <1>0, <3>1, <3>3, <3>4, <3>5 DEF ClientTypeOK
  <2>2. MailboxTypeOK'
    BY <1>0, <1>4 DEF Moves, MailboxTypeOK, mailVars
  <2>. QED  BY <2>1, <2>2
<1>. QED
  BY <1>1, <1>2, <1>3, <1>4, ClientShape

(* A step of a client starts and stops nothing.                            *)
LEMMA ClientFrame ==
  ASSUME TypeOK, NEW c \in Requests, ClientNext(c) \/ Abandon(c)
  PROVE  UNCHANGED <<state, launch, owner, results, gpu_results, supervisor, failures,
                     errors, live, controller>>
<1>1. CASE Ends(c)
  BY <1>1 DEF Ends, End, mailVars
<1>2. CASE Publish(c) \/ WriteCancel(c)
  BY <1>2 DEF Publish, WriteCancel
<1>3. CASE Moves(c)
  BY <1>3 DEF Moves, mailVars
<1>. QED  BY <1>1, <1>2, <1>3, ClientShape

-----------------------------------------------------------------------------
(* The steps of a worker group, its faults included.                       *)
WorkerAny(g) ==
  \/ WorkerNext(g)
  \/ \E r \in Ranks : RankRaises(g, r) \/ RankDies(g, r)
  \/ "disk" \in Faults /\ ReceiptWriteFails(g)

(* Only a living group acts, on its own ranks, and a step of it either     *)
(* leaves the process table alone or is the end of the group.              *)
Frame(g) ==
  /\ \A h \in Instances \ {g} :
       /\ rpc'[h] = rpc[h] /\ ident'[h] = ident[h]
       /\ last'[h] = last[h] /\ outputs'[h] = outputs[h] /\ slots'[h] = slots[h]
  /\ live' = live \/ GroupExits(g)
  /\ UNCHANGED <<launch, owner, command, cancel, supervisor, failures, controller>>

(* A step of a group leaves alone what other components write, and every   *)
(* other group.                                                            *)
LEMMA WorkerShape ==
  ASSUME TypeOK, CoreInv, NEW g \in Instances, WorkerAny(g)
  PROVE  g \in live /\ Frame(g)
<1>0. Main \in Ranks /\ WorkerTypeOK
  BY WorkerAssumption DEF TypeOK
<1>1. ASSUME NEW r \in Ranks, rpc[g][r] # "off"  PROVE g \in live
  BY <1>1 DEF CoreInv, AllOff
<1>2. ASSUME NEW t \in Requests, outputs[g][t] # "none"  PROVE g \in live
  BY <1>2 DEF CoreInv, NoOutputs
<1>3. CASE LoadModels(g) \/ Loaded(g) \/ RunCompletes(g)
  BY <1>0, <1>1, <1>3 DEF LoadModels, Loaded, RunCompletes, mailVars, Frame, WorkerTypeOK
<1>4. CASE Reserve(g) \/ ReportIdle(g) \/ WriteResult(g) \/ SubmitOutput(g) \/ WriteReceipt(g)
  BY <1>0, <1>1, <1>4 DEF Reserve, ReportIdle, WriteResult, SubmitOutput, WriteReceipt,
                          RankStep, mailVars, Frame, WorkerTypeOK
<1>5. CASE ReportFailedState(g) \/ WriteFailedResult(g) \/ ReceiptWriteFails(g)
  BY <1>0, <1>1, <1>5 DEF ReportFailedState, WriteFailedResult, ReceiptWriteFails,
                          RankStep, mailVars, Frame, WorkerTypeOK
<1>6. CASE GroupExits(g)
  BY <1>6 DEF GroupExits, KillRanks, Frame
<1>7. ASSUME NEW r \in Ranks, ReadLaunch(g, r) \/ Accept(g, r) \/ WriteError(g, r) \/ Exit(g, r)
      PROVE  g \in live /\ Frame(g)
  BY <1>0, <1>1, <1>7 DEF ReadLaunch, Accept, WriteError, Exit, RankStep, mailVars, Frame,
                          WorkerTypeOK
<1>8. ASSUME NEW r \in Ranks, RankRaises(g, r) \/ RankDies(g, r)
      PROVE  g \in live /\ Frame(g)
  BY <1>0, <1>1, <1>8 DEF RankRaises, RankDies, mailVars, Frame, WorkerTypeOK
<1>9. ASSUME NEW t \in Requests, ReleaseSlot(g, t) \/ \E v \in Verdicts : CompleteOutput(g, t, v)
      PROVE  g \in live /\ Frame(g)
  BY <1>0, <1>2, <1>9 DEF ReleaseSlot, CompleteOutput, mailVars, Frame, WorkerTypeOK
<1>. QED
  BY <1>3, <1>4, <1>5, <1>6, <1>7, <1>8, <1>9 DEF WorkerAny, WorkerNext

(* What state.json can say.                                                *)
Statuses == {"absent", "loading", "ready", "busy", "failed", "stopped"}

LEMMA StateTypes ==
  ASSUME TypeOK, NEW g \in Instances, NEW r \in Ranks, NEW s \in Statuses, WriteState(g, r, s)
  PROVE  state' \in [inst: MaybeInstance, status: Statuses]
<1>1. ident[g][r] \in MaybeInstance /\ state \in [inst: MaybeInstance, status: Statuses]
  BY DEF TypeOK, WorkerTypeOK, MailboxTypeOK, Statuses
<1>. QED  BY <1>1 DEF WriteState

(* A step of a rank keeps the type of rpc.                                 *)
LEMMA RankTypes ==
  ASSUME WorkerTypeOK, NEW g \in Instances, NEW r \in Ranks, NEW from, NEW to \in RankPCs,
         RankStep(g, r, from, to)
  PROVE  rpc' \in [Instances -> [Ranks -> RankPCs]]
BY DEF RankStep, WorkerTypeOK

(* What dies leaves well-typed variables.                                  *)
LEMMA KillTypes ==
  ASSUME WorkerTypeOK, NEW groups, KillRanks(groups)
  PROVE  WorkerTypeOK'
<1>1. /\ AllOff \in [Ranks -> RankPCs]
      /\ NoIdent \in [Ranks -> MaybeInstance]
      /\ NoLast \in [Ranks -> Requests \union {NoToken}]
      /\ NoOutputs \in [Requests -> {"none", "encoding", "written"}]
  BY MailboxAssumption DEF AllOff, NoIdent, NoLast, NoOutputs, RankPCs, MaybeInstance
<1>2. Capacity \in Nat
  BY WorkerAssumption
<1>. QED  BY <1>1, <1>2 DEF KillRanks, WorkerTypeOK

(* Type correctness of the steps of a group.                               *)
LEMMA WorkerTypes ==
  ASSUME TypeOK, CoreInv, NEW g \in Instances, WorkerAny(g)
  PROVE  MailboxTypeOK' /\ WorkerTypeOK'
<1>0. MailboxTypeOK /\ WorkerTypeOK /\ Main \in Ranks
  BY WorkerAssumption DEF TypeOK
<1>1. ASSUME UNCHANGED mailVars  PROVE MailboxTypeOK'
  BY <1>0, <1>1 DEF mailVars, MailboxTypeOK
<1>2. ASSUME NEW r \in Ranks, NEW s \in Statuses, WriteState(g, r, s),
             UNCHANGED <<launch, owner, command, results, gpu_results,
                         cancel, supervisor, failures, errors, live, controller>>
      PROVE  MailboxTypeOK'
  <2>1. state' \in [inst: MaybeInstance, status: Statuses]
    BY <1>2, StateTypes
  <2>. QED  BY <1>0, <1>2, <2>1 DEF MailboxTypeOK, Statuses
<1>3. ASSUME rpc' \in [Instances -> [Ranks -> RankPCs]], UNCHANGED <<ident, last, slots, outputs>>
      PROVE  WorkerTypeOK'
  BY <1>0, <1>3 DEF WorkerTypeOK
<1>4. CASE LoadModels(g)
  <2>1. rpc' \in [Instances -> [Ranks -> RankPCs]]
    BY <1>0, <1>4 DEF LoadModels, WorkerTypeOK, RankPCs
  <2>. QED  BY <1>0, <1>2, <1>3, <1>4, <2>1 DEF LoadModels, Statuses
<1>5. CASE Loaded(g)
  <2>1. rpc' \in [Instances -> [Ranks -> RankPCs]]
    BY <1>0, <1>5 DEF Loaded, WorkerTypeOK, RankPCs
  <2>. QED  BY <1>0, <1>2, <1>3, <1>5, <2>1 DEF Loaded, Statuses
<1>6. CASE RunCompletes(g)
  <2>1. rpc' \in [Instances -> [Ranks -> RankPCs]]
    BY <1>0, <1>6 DEF RunCompletes, WorkerTypeOK, RankPCs, Serving
  <2>. QED  BY <1>1, <1>3, <1>6, <2>1 DEF RunCompletes
<1>7. CASE Reserve(g)
  <2>1. rpc' \in [Instances -> [Ranks -> RankPCs]]
    BY <1>0, <1>7, RankTypes DEF Reserve, RankPCs, Serving
  <2>2. slots' \in [Instances -> Nat]
    BY <1>0, <1>7 DEF Reserve, WorkerTypeOK
  <2>. QED  BY <1>0, <1>1, <1>7, <2>1, <2>2 DEF Reserve, WorkerTypeOK
<1>8. CASE ReportIdle(g)
  <2>1. rpc' \in [Instances -> [Ranks -> RankPCs]]
    BY <1>0, <1>8, RankTypes DEF ReportIdle, RankPCs, Serving
  <2>. QED  BY <1>0, <1>2, <1>3, <1>8, <2>1 DEF ReportIdle, Statuses
<1>9. CASE ReportFailedState(g)
  <2>1. rpc' \in [Instances -> [Ranks -> RankPCs]]
    BY <1>0, <1>9, RankTypes DEF ReportFailedState, RankPCs, Serving
  <2>. QED  BY <1>0, <1>2, <1>3, <1>9, <2>1 DEF ReportFailedState, Statuses
<1>10. CASE WriteResult(g) \/ WriteFailedResult(g)
  <2>1. rpc' \in [Instances -> [Ranks -> RankPCs]]
    BY <1>0, <1>10, RankTypes DEF WriteResult, WriteFailedResult, RankPCs
  <2>2. results' \in [Requests -> {"none"} \union Verdicts]
    BY <1>0, <1>10 DEF WriteResult, WriteFailedResult, MailboxTypeOK, Verdicts
  <2>3. MailboxTypeOK'
    BY <1>0, <1>10, <2>2 DEF WriteResult, WriteFailedResult, MailboxTypeOK
  <2>. QED  BY <1>3, <1>10, <2>1, <2>3 DEF WriteResult, WriteFailedResult
<1>11. CASE SubmitOutput(g)
  <2>1. rpc' \in [Instances -> [Ranks -> RankPCs]]
    BY <1>0, <1>11, RankTypes DEF SubmitOutput, RankPCs, Serving
  <2>2. outputs' \in [Instances -> [Requests -> {"none", "encoding", "written"}]]
    BY <1>0, <1>11 DEF SubmitOutput, WorkerTypeOK
  <2>. QED  BY <1>0, <1>1, <1>11, <2>1, <2>2 DEF SubmitOutput, WorkerTypeOK
<1>12. CASE WriteReceipt(g)
  <2>1. rpc' \in [Instances -> [Ranks -> RankPCs]]
    BY <1>0, <1>12, RankTypes DEF WriteReceipt, RankPCs
  <2>2. gpu_results' \in [Requests -> MaybeInstance]
    <3>1. gpu_results \in [Requests -> MaybeInstance] /\ ident[g][Main] \in MaybeInstance
      BY <1>0 DEF MailboxTypeOK, WorkerTypeOK
    <3>. QED  BY <1>12, <3>1 DEF WriteReceipt
  <2>3. UNCHANGED <<state, launch, owner, command, results, cancel, supervisor, failures,
                    errors, live, controller>>
    BY <1>12 DEF WriteReceipt
  <2>4. MailboxTypeOK'
    BY <1>0, <2>2, <2>3 DEF MailboxTypeOK
  <2>. QED  BY <1>3, <1>12, <2>1, <2>4 DEF WriteReceipt
<1>13. CASE ReceiptWriteFails(g)
  <2>1. rpc' \in [Instances -> [Ranks -> RankPCs]]
    BY <1>0, <1>13, RankTypes DEF ReceiptWriteFails, RankPCs
  <2>. QED  BY <1>1, <1>3, <1>13, <2>1 DEF ReceiptWriteFails
<1>14. CASE GroupExits(g)
  <2>1. WorkerTypeOK'
    BY <1>0, <1>14, KillTypes DEF GroupExits
  <2>2. MailboxTypeOK'
    BY <1>0, <1>14 DEF GroupExits, MailboxTypeOK
  <2>. QED  BY <2>1, <2>2
<1>15. ASSUME NEW r \in Ranks, ReadLaunch(g, r)  PROVE MailboxTypeOK' /\ WorkerTypeOK'
  <2>1. rpc' \in [Instances -> [Ranks -> RankPCs]]
    BY <1>0, <1>15, RankTypes DEF ReadLaunch, RankPCs
  <2>2. ident' \in [Instances -> [Ranks -> MaybeInstance]]
    BY <1>0, <1>15 DEF ReadLaunch, WorkerTypeOK, MailboxTypeOK
  <2>. QED  BY <1>0, <1>1, <1>15, <2>1, <2>2 DEF ReadLaunch, WorkerTypeOK
<1>16. ASSUME NEW r \in Ranks, Accept(g, r)  PROVE MailboxTypeOK' /\ WorkerTypeOK'
  <2>1. rpc' \in [Instances -> [Ranks -> RankPCs]]
    BY <1>0, <1>16, RankTypes DEF Accept, RankPCs, Serving
  <2>2. last' \in [Instances -> [Ranks -> Requests \union {NoToken}]]
    BY <1>0, <1>16 DEF Accept, WorkerTypeOK, MailboxTypeOK
  <2>3. MailboxTypeOK'
    BY <1>2, <1>16 DEF Accept, Statuses
  <2>. QED  BY <1>0, <1>16, <2>1, <2>2, <2>3 DEF Accept, WorkerTypeOK
<1>17. ASSUME NEW r \in Ranks, WriteError(g, r)  PROVE MailboxTypeOK' /\ WorkerTypeOK'
  <2>1. launch \in Instances
    <3>1. g \in live
      BY <1>17, WorkerShape DEF WorkerAny, WorkerNext
    <3>2. launch \in MaybeInstance /\ g <= launch /\ g \in Instances
      BY <1>0, <3>1 DEF CoreInv, MailboxTypeOK
    <3>. QED  BY <3>2, MailboxAssumption DEF Instances, MaybeInstance
  <2>2. rpc' \in [Instances -> [Ranks -> RankPCs]]
    BY <1>0, <1>17, RankTypes DEF WriteError, RankPCs
  <2>3. MailboxTypeOK'
    BY <1>0, <1>17, <2>1 DEF WriteError, MailboxTypeOK
  <2>. QED  BY <1>3, <1>17, <2>2, <2>3 DEF WriteError
<1>18. ASSUME NEW r \in Ranks, Exit(g, r)  PROVE MailboxTypeOK' /\ WorkerTypeOK'
  <2>1. rpc' \in [Instances -> [Ranks -> RankPCs]]
    BY <1>0, <1>18, RankTypes DEF Exit, RankPCs
  <2>. QED  BY <1>1, <1>3, <1>18, <2>1 DEF Exit
<1>19. ASSUME NEW r \in Ranks, RankRaises(g, r)  PROVE MailboxTypeOK' /\ WorkerTypeOK'
  <2>1. rpc' \in [Instances -> [Ranks -> RankPCs]]
    BY <1>0, <1>19 DEF RankRaises, WorkerTypeOK, RankPCs
  <2>. QED  BY <1>1, <1>3, <1>19, <2>1 DEF RankRaises
<1>20. ASSUME NEW r \in Ranks, RankDies(g, r)  PROVE MailboxTypeOK' /\ WorkerTypeOK'
  <2>1. rpc' \in [Instances -> [Ranks -> RankPCs]]
    BY <1>0, <1>20 DEF RankDies, WorkerTypeOK, RankPCs
  <2>2. outputs' \in [Instances -> [Requests -> {"none", "encoding", "written"}]]
    BY <1>0, <1>20 DEF RankDies, WorkerTypeOK, NoOutputs
  <2>. QED  BY <1>0, <1>1, <1>20, <2>1, <2>2 DEF RankDies, WorkerTypeOK
<1>21. ASSUME NEW t \in Requests, ReleaseSlot(g, t)  PROVE MailboxTypeOK' /\ WorkerTypeOK'
  BY <1>0, <1>1, <1>21 DEF ReleaseSlot, WorkerTypeOK
<1>22. ASSUME NEW t \in Requests, NEW v \in Verdicts, CompleteOutput(g, t, v)
       PROVE  MailboxTypeOK' /\ WorkerTypeOK'
  BY <1>0, <1>22 DEF CompleteOutput, MailboxTypeOK, WorkerTypeOK
<1>. QED
  BY <1>4, <1>5, <1>6, <1>7, <1>8, <1>9, <1>10, <1>11, <1>12, <1>13, <1>14, <1>15, <1>16,
     <1>17, <1>18, <1>19, <1>20, <1>21, <1>22 DEF WorkerAny, WorkerNext

-----------------------------------------------------------------------------
(* The steps of the controller, its faults included.                       *)
SupervisorAny ==
  \/ SupervisorLocal /\ UNCHANGED workerVars
  \/ LaunchGroup \/ ReapGroup \/ ClearGroups
  \/ (LaunchFails \/ ControllerDies \/ Shutdown) /\ UNCHANGED workerVars

(* Type correctness of the steps of the controller, in three groups: those *)
(* that only write its own variables and supervisor.json, those that write *)
(* another file, and those that start or stop processes.                   *)
LEMMA ReportTypes ==
  ASSUME TypeOK, NEW s \in {"absent", "loading", "ready", "recovering", "stopped"},
         Report(s)
  PROVE  supervisor' \in [ctrl: 0 .. MaxControllers, inst: MaybeInstance,
                          status: {"absent", "loading", "ready", "recovering", "stopped"}]
BY DEF TypeOK, MailboxTypeOK, SupervisorTypeOK, Report

(* Type correctness of every step of the controller.                       *)
LEMMA SupervisorTypes ==
  ASSUME TypeOK, CoreInv, SupervisorAny
  PROVE  MailboxTypeOK' /\ WorkerTypeOK' /\ SupervisorTypeOK'
<1>0. MailboxTypeOK /\ WorkerTypeOK /\ SupervisorTypeOK
  BY DEF TypeOK
<1>1. ASSUME UNCHANGED workerVars  PROVE WorkerTypeOK'
  BY <1>0, <1>1 DEF workerVars, WorkerTypeOK
<1>2. ASSUME UNCHANGED workerVars,
             LaunchRefused(Holders) \/ ReportLoading \/ RecoverCancelled
               \/ RecoverFailed(Silent) \/ ReportReady \/ LaunchFails \/ Shutdown
      PROVE  MailboxTypeOK' /\ SupervisorTypeOK'
  <2>1. \E s \in {"absent", "loading", "ready", "recovering", "stopped"} : Report(s)
    BY <1>2 DEF LaunchRefused, ReportLoading, RecoverCancelled, RecoverFailed, BeginRecover,
                ReportReady, LaunchFails, Shutdown
  <2>2. MailboxTypeOK'
    BY <1>0, <1>2, <2>1, ReportTypes
       DEF LaunchRefused, ReportLoading, RecoverCancelled, RecoverFailed, BeginRecover,
           ReportReady, LaunchFails, Shutdown, MailboxTypeOK
  <2>3. SupervisorTypeOK'
    BY <1>0, <1>2 DEF LaunchRefused, ReportLoading, RecoverCancelled, RecoverFailed,
           BeginRecover, ReportReady, LaunchFails, Shutdown, Step, SupervisorTypeOK, SupervisorPCs
  <2>. QED  BY <2>2, <2>3
<1>3. CASE StartController /\ UNCHANGED workerVars
  <2>1. started' \in 0 .. MaxControllers /\ started + 1 \in 0 .. MaxControllers
    BY <1>0, <1>3, MailboxAssumption DEF StartController, SupervisorTypeOK
  <2>2. supervisor' \in [ctrl: 0 .. MaxControllers, inst: MaybeInstance,
                         status: {"absent", "loading", "ready", "recovering", "stopped"}]
    BY <1>0, <1>3, <2>1, MailboxAssumption DEF StartController, MaybeInstance
  <2>3. MailboxTypeOK'
    BY <1>0, <1>3, <2>1, <2>2 DEF StartController, MailboxTypeOK
  <2>4. SupervisorTypeOK'
    <3>1. 0 \in MaybeInstance
      BY MailboxAssumption DEF MaybeInstance
    <3>. QED
      BY <1>0, <1>3, <2>1, <3>1 DEF StartController, Step, SupervisorTypeOK, SupervisorPCs
  <2>. QED  BY <1>1, <1>3, <2>3, <2>4
<1>4. CASE TryLaunch(Holders) /\ UNCHANGED workerVars
  <2>1. launched' \in 0 .. MaxLaunch
    BY <1>0, <1>4, MailboxAssumption DEF TryLaunch, SupervisorTypeOK
  <2>2. MailboxTypeOK'
    BY <1>0, <1>4, <2>1 DEF TryLaunch, MailboxTypeOK, MaybeInstance
  <2>3. SupervisorTypeOK'
    BY <1>0, <1>4, <2>1 DEF TryLaunch, Step, SupervisorTypeOK, SupervisorPCs
  <2>. QED  BY <1>1, <1>4, <2>2, <2>3
<1>5. CASE WriteLoading /\ UNCHANGED workerVars
  <2>1. launched \in MaybeInstance
    BY <1>0 DEF SupervisorTypeOK, MaybeInstance
  <2>2. MailboxTypeOK'
    BY <1>0, <1>5, <2>1 DEF WriteLoading, MailboxTypeOK
  <2>3. SupervisorTypeOK'
    BY <1>0, <1>5 DEF WriteLoading, Step, SupervisorTypeOK, SupervisorPCs
  <2>. QED  BY <1>1, <1>5, <2>2, <2>3
<1>6. CASE WriteOwner /\ UNCHANGED workerVars
  <2>1. launched \in MaybeInstance
    BY <1>0 DEF SupervisorTypeOK, MaybeInstance
  <2>2. MailboxTypeOK'
    BY <1>0, <1>6, <2>1 DEF WriteOwner, MailboxTypeOK
  <2>3. SupervisorTypeOK'
    BY <1>0, <1>6, <2>1 DEF WriteOwner, Step, SupervisorTypeOK, SupervisorPCs
  <2>. QED  BY <1>1, <1>6, <2>2, <2>3
<1>7. CASE (FailCommand \/ FailReceipts) /\ UNCHANGED workerVars
  <2>1. results' \in [Requests -> {"none"} \union Verdicts]
    BY <1>0, <1>7 DEF FailCommand, FailReceipts, MailboxTypeOK, Verdicts
  <2>2. MailboxTypeOK'
    BY <1>0, <1>7, <2>1 DEF FailCommand, FailReceipts, MailboxTypeOK
  <2>3. SupervisorTypeOK'
    BY <1>0, <1>7 DEF FailCommand, FailReceipts, Step, SupervisorTypeOK, SupervisorPCs
  <2>. QED  BY <1>1, <1>7, <2>2, <2>3
<1>8. CASE RecordFailure /\ UNCHANGED workerVars
  <2>1. instance \in Instances
    BY <1>0, <1>8 DEF RecordFailure, Step, CoreInv, Supervising, SupervisorTypeOK,
                      MaybeInstance, Instances
  <2>2. MailboxTypeOK'
    BY <1>0, <1>8, <2>1 DEF RecordFailure, MailboxTypeOK
  <2>3. SupervisorTypeOK'
    BY <1>0, <1>8, MailboxAssumption
       DEF RecordFailure, Step, SupervisorTypeOK, SupervisorPCs, MaybeInstance
  <2>. QED  BY <1>1, <1>8, <2>2, <2>3
<1>9. CASE WriteStopped /\ UNCHANGED workerVars
  <2>1. MailboxTypeOK'
    BY <1>0, <1>9, MailboxAssumption DEF WriteStopped, MailboxTypeOK, SupervisorTypeOK
  <2>2. SupervisorTypeOK'
    BY <1>0, <1>9 DEF WriteStopped, Step, SupervisorTypeOK, SupervisorPCs
  <2>. QED  BY <1>1, <1>9, <2>1, <2>2
<1>10. CASE ControllerDies /\ UNCHANGED workerVars
  <2>1. MailboxTypeOK'
    BY <1>0, <1>10, MailboxAssumption DEF ControllerDies, MailboxTypeOK
  <2>2. SupervisorTypeOK'
    BY <1>0, <1>10 DEF ControllerDies, SupervisorTypeOK, SupervisorPCs
  <2>. QED  BY <1>1, <1>10, <2>1, <2>2
<1>11. CASE LaunchGroup
  <2>1. launched \in Instances
    BY <1>0, <1>11 DEF LaunchGroup, Popen, Step, CoreInv, Launching, SupervisorTypeOK,
                       Instances
  <2>2. MailboxTypeOK'
    BY <1>0, <1>11, <2>1 DEF LaunchGroup, Popen, MailboxTypeOK
  <2>3. WorkerTypeOK'
    BY <1>0, <1>11, <2>1 DEF LaunchGroup, StartRanks, WorkerTypeOK, RankPCs
  <2>4. SupervisorTypeOK'
    BY <1>0, <1>11 DEF LaunchGroup, Popen, Step, SupervisorTypeOK, SupervisorPCs
  <2>. QED  BY <2>2, <2>3, <2>4
<1>12. CASE ReapGroup \/ ClearGroups
  <2>1. MailboxTypeOK'
    BY <1>0, <1>12 DEF ReapGroup, ClearGroups, StopGroup, ReapWorker, ClearGPUs, MailboxTypeOK
  <2>2. WorkerTypeOK'
    BY <1>0, <1>12, KillTypes DEF ReapGroup, ClearGroups
  <2>3. SupervisorTypeOK'
    BY <1>0, <1>12 DEF ReapGroup, ClearGroups, StopGroup, ReapWorker, ClearGPUs, Step,
                       SupervisorTypeOK, SupervisorPCs
  <2>. QED  BY <2>1, <2>2, <2>3
<1>. QED
  BY <1>1, <1>2, <1>3, <1>4, <1>5, <1>6, <1>7, <1>8, <1>9, <1>10, <1>11, <1>12
     DEF SupervisorAny, SupervisorLocal

-----------------------------------------------------------------------------
(* Every step is a step of one of the three, and takes at most one fault.  *)
LEMMA NextShape ==
  ASSUME TypeOK, Next
  PROVE  /\ \/ /\ \E c \in Requests : ClientNext(c) \/ Abandon(c)
               /\ UNCHANGED <<workerVars, supervisorVars>>
            \/ /\ \E g \in Instances : WorkerAny(g)
               /\ UNCHANGED <<clientVars, supervisorVars>>
            \/ SupervisorAny /\ UNCHANGED clientVars
         /\ faults' \in 0 .. MaxFaults
<1>1. ASSUME NEW kind, Fault(kind)  PROVE faults' \in 0 .. MaxFaults
  BY <1>1, ResidentAssumption DEF Fault, TypeOK
<1>2. ASSUME UNCHANGED faults  PROVE faults' \in 0 .. MaxFaults
  BY <1>2 DEF TypeOK
<1>3. ASSUME NEW c \in Requests, ClientStep(c) \/ ClientFault(c)
      PROVE  /\ ClientNext(c) \/ Abandon(c)
             /\ UNCHANGED <<workerVars, supervisorVars>>
             /\ faults' \in 0 .. MaxFaults
  BY <1>1, <1>2, <1>3 DEF ClientStep, ClientFault
<1>4. ASSUME NEW g \in Instances, WorkerStep(g) \/ WorkerFault(g)
      PROVE  /\ WorkerAny(g)
             /\ UNCHANGED <<clientVars, supervisorVars>>
             /\ faults' \in 0 .. MaxFaults
  BY <1>1, <1>2, <1>4 DEF WorkerStep, WorkerFault, WorkerAny, Fault
<1>5. CASE SupervisorStep
  BY <1>2, <1>5 DEF SupervisorStep, SupervisorAny
<1>6. CASE JointStep
  BY <1>2, <1>6 DEF JointStep, SupervisorAny
<1>7. CASE SupervisorFault
  BY <1>1, <1>7 DEF SupervisorFault, SupervisorAny
<1>. QED
  BY <1>3, <1>4, <1>5, <1>6, <1>7 DEF Next

(* Type correctness: the step of the induction.                           *)
LEMMA TypeStep ==
  ASSUME TypeOK, CoreInv, [Next]_vars
  PROVE  TypeOK'
<1>1. CASE UNCHANGED vars
  BY <1>1 DEF vars, mailVars, clientVars, workerVars, supervisorVars, TypeOK,
              MailboxTypeOK, ClientTypeOK, WorkerTypeOK, SupervisorTypeOK
<1>2. CASE Next
  <2>0. faults' \in 0 .. MaxFaults
    BY <1>2, NextShape
  <2>1. ASSUME NEW c \in Requests, ClientNext(c) \/ Abandon(c),
               UNCHANGED <<workerVars, supervisorVars>>
        PROVE  TypeOK'
    BY <2>0, <2>1, ClientTypes
       DEF TypeOK, workerVars, supervisorVars, WorkerTypeOK, SupervisorTypeOK
  <2>2. ASSUME NEW g \in Instances, WorkerAny(g), UNCHANGED <<clientVars, supervisorVars>>
        PROVE  TypeOK'
    BY <2>0, <2>2, WorkerTypes
       DEF TypeOK, clientVars, supervisorVars, ClientTypeOK, SupervisorTypeOK
  <2>3. CASE SupervisorAny /\ UNCHANGED clientVars
    BY <2>0, <2>3, SupervisorTypes DEF TypeOK, clientVars, ClientTypeOK
  <2>. QED  BY <1>2, <2>1, <2>2, <2>3, NextShape
<1>. QED  BY <1>1, <1>2

-----------------------------------------------------------------------------
(* The controller, its handle and the groups alive: the step of the        *)
(* induction.                                                              *)
LEMMA CoreStep ==
  ASSUME TypeOK, CoreInv, [Next]_vars
  PROVE  CoreInv'
<1>0. /\ launched \in Nat /\ live \subseteq Instances
      /\ worker \in Nat /\ instance \in Nat /\ \A g \in Instances : g \in Nat
      /\ WorkerTypeOK
  BY DEF TypeOK, MailboxTypeOK, SupervisorTypeOK, MaybeInstance, Instances
<1>1. ASSUME UNCHANGED <<live, launch, rpc, outputs, supervisorVars>>  PROVE CoreInv'
  BY <1>1 DEF CoreInv, supervisorVars
<1>2. CASE UNCHANGED vars
  BY <1>1, <1>2 DEF vars, mailVars, workerVars
<1>3. ASSUME NEW c \in Requests, ClientNext(c) \/ Abandon(c),
             UNCHANGED <<workerVars, supervisorVars>>
      PROVE  CoreInv'
  BY <1>1, <1>3, ClientFrame DEF workerVars
<1>4. ASSUME NEW g \in Instances, WorkerAny(g), UNCHANGED <<clientVars, supervisorVars>>
      PROVE  CoreInv'
  <2>1. g \in live /\ Frame(g)
    BY <1>4, WorkerShape
  <2>2. live' \subseteq live
    BY <2>1 DEF Frame, GroupExits
  <2>3. \A h \in Instances : h \notin live' => rpc'[h] = AllOff /\ outputs'[h] = NoOutputs
    <3>1. CASE live' = live
      BY <2>1, <3>1 DEF Frame, CoreInv
    <3>2. CASE GroupExits(g)
      BY <3>2 DEF GroupExits, KillRanks, CoreInv
    <3>. QED  BY <2>1, <3>1, <3>2 DEF Frame
  <2>. QED  BY <1>4, <2>1, <2>2, <2>3 DEF Frame, CoreInv, supervisorVars
<1>5. CASE SupervisorLocal /\ UNCHANGED workerVars
  <2>1. CASE LaunchRefused(Holders) \/ ReportLoading \/ RecoverCancelled
               \/ RecoverFailed(Silent) \/ ReportReady
    BY <1>5, <2>1 DEF LaunchRefused, ReportLoading, RecoverCancelled, RecoverFailed,
         BeginRecover, ReportReady, Step, CoreInv, workerVars, Supervising, Settling, Launching
  <2>2. CASE StartController \/ WriteStopped
    BY <1>0, <1>5, <2>2 DEF StartController, WriteStopped, Step, CoreInv, workerVars,
                      Supervising, Settling, Launching
  <2>3. CASE TryLaunch(Holders)
    BY <1>0, <1>5, <2>3 DEF TryLaunch, Step, CoreInv, workerVars,
                      Supervising, Settling, Launching
  <2>4. CASE WriteLoading \/ WriteOwner
    BY <1>0, <1>5, <2>4 DEF WriteLoading, WriteOwner, Step, CoreInv, workerVars,
                      Supervising, Settling, Launching
  <2>5. CASE FailCommand \/ FailReceipts \/ RecordFailure
    BY <1>0, <1>5, <2>5 DEF FailCommand, FailReceipts, RecordFailure, Step, CoreInv, workerVars,
                      Supervising, Settling, Launching
  <2>. QED  BY <1>5, <2>1, <2>2, <2>3, <2>4, <2>5 DEF SupervisorLocal
<1>6. CASE LaunchGroup
  <2>1. /\ live' = live \union {launched} /\ UNCHANGED <<launch, launched, worker, instance>>
        /\ spc = "popen" /\ spc' = "owner" /\ launched # 0 /\ worker = 0
        /\ \A g \in Instances \ {launched} : rpc'[g] = rpc[g]
        /\ outputs' = outputs
    BY <1>0, <1>6 DEF LaunchGroup, Popen, StartRanks, Step, CoreInv, Launching, WorkerTypeOK
  <2>. QED  BY <1>0, <2>1 DEF CoreInv, Supervising, Settling, Launching
<1>7. CASE ReapGroup \/ ClearGroups
  <2>1. PICK dead : KillRanks(dead) /\ live' = live \ dead
    BY <1>7 DEF ReapGroup, ClearGroups, StopGroup, ReapWorker, ClearGPUs
  <2>2. \A g \in Instances : g \notin live' => rpc'[g] = AllOff /\ outputs'[g] = NoOutputs
    BY <2>1 DEF KillRanks, CoreInv
  <2>3. /\ UNCHANGED <<launch, launched, worker, instance>>
        /\ \/ spc = "stop" /\ spc' = "fail_command" /\ live' = live \ {worker}
           \/ spc = "clear" /\ spc' = "wait"
           \/ spc' = "final"
    BY <1>7 DEF ReapGroup, ClearGroups, StopGroup, ReapWorker, ClearGPUs, Step
  <2>. QED  BY <2>1, <2>2, <2>3 DEF CoreInv, Supervising, Settling, Launching
<1>8. CASE (LaunchFails \/ ControllerDies \/ Shutdown) /\ UNCHANGED workerVars
  BY <1>8 DEF LaunchFails, ControllerDies, Shutdown, CoreInv, workerVars,
              Supervising, Settling, Launching
<1>. QED
  BY <1>2, <1>3, <1>4, <1>5, <1>6, <1>7, <1>8, NextShape DEF SupervisorAny

(* The initial states satisfy the core invariant.                          *)
LEMMA CoreInit == Init => TypeOK /\ CoreInv
<1>1. Init => TypeOK
  <2> SUFFICES ASSUME Init PROVE TypeOK
    OBVIOUS
  <2>1. 0 \in MaybeInstance /\ 0 \in 0 .. MaxControllers /\ 0 \in 0 .. MaxLaunch
    BY MailboxAssumption DEF MaybeInstance
  <2>2. MailboxTypeOK
    BY <2>1 DEF Init, MailboxInit, MailboxTypeOK, Reasons
  <2>3. ClientTypeOK
    BY <2>1 DEF Init, ClientInit, ClientTypeOK, Reasons, ClientPCs
  <2>4. WorkerTypeOK
    BY <2>1, WorkerAssumption
       DEF Init, WorkerInit, WorkerTypeOK, AllOff, NoIdent, NoLast, NoOutputs, RankPCs
  <2>5. SupervisorTypeOK
    BY <2>1 DEF Init, SupervisorInit, SupervisorTypeOK, SupervisorPCs
  <2>6. faults \in 0 .. MaxFaults
    BY ResidentAssumption DEF Init
  <2>. QED  BY <2>2, <2>3, <2>4, <2>5, <2>6 DEF TypeOK
<1>2. Init => CoreInv
  BY DEF Init, MailboxInit, WorkerInit, SupervisorInit, CoreInv, Supervising, Settling, Launching
<1>. QED  BY <1>1, <1>2

(* Type correctness and the core invariant hold together: the induction.   *)
LEMMA Core == Spec => [](TypeOK /\ CoreInv)
<1>1. TypeOK /\ CoreInv /\ [Next]_vars => (TypeOK /\ CoreInv)'
  BY TypeStep, CoreStep
<1>. QED  BY <1>1, CoreInit, PTL DEF Spec

(* Every variable keeps its type.                                          *)
THEOREM TypeCorrect == Spec => []TypeOK
BY Core, PTL

(* What is alive was launched, a group that is not alive has no ranks and  *)
(* no completions, and the controller settles requests only of a group     *)
(* that is dead.                                                           *)
THEOREM CoreInvariant == Spec => []CoreInv
BY Core, PTL

-----------------------------------------------------------------------------
(* Only the group launched last has ranks that do something, none while    *)
(* the next one is being launched; a group whose main rank is gone has no  *)
(* completions; and a rank that got past launch.json knows who it is.      *)
Active(g) == \E r \in Ranks : rpc[g][r] \notin {"off", "down"}
Knowing == {"joining", "loading", "poll", "raising", "reporting"} \union Serving

GroupInv ==
  \A g \in Instances :
    /\ Active(g) => g = launched /\ spc \notin Launching
    /\ rpc[g][Main] \in {"off", "down"} => outputs[g] = NoOutputs
    /\ \A r \in Ranks : rpc[g][r] \in Knowing => ident[g][r] = g

(* A request carries the instance its client had read wherever it goes:    *)
(* into the command, to the ranks that serve it, to its receipt and to its *)
(* completion; and no client has read of an instance before its launch.    *)
Sent(t, i) == t \in Requests /\ ~Fresh(t) /\ cinst[t] = i
Engaged == {"raising", "reporting"} \union Serving

AddressInv ==
  /\ command.token # NoToken => Sent(command.token, command.inst)
  /\ command.token = NoToken => command.inst = 0
  /\ \A g \in Instances : \A r \in Ranks : rpc[g][r] \in Engaged => Sent(last[g][r], g)
  /\ \A t \in Requests : gpu_results[t] # 0 => Sent(t, gpu_results[t])
  /\ \A g \in Instances : \A t \in Requests : outputs[g][t] # "none" => Sent(t, g)

LaunchInv ==
  \A c \in Requests : cinst[c] <= launched /\ (spc \in Launching => cinst[c] # launched)

(* Instances whose failure is recorded are dead and settled.               *)
FailureInv ==
  /\ \A i \in failures : i <= launched
  /\ spc \in Launching => launched \notin failures
  /\ spc = "record" => \A t \in Requests : gpu_results[t] = instance => results[t] # "none"
  /\ FailureSettlesOutputs

(* When receipts can always be written: a request that is not published    *)
(* has no result, and neither has one whose completion is under way, one   *)
(* the main rank is serving or one that it is about to accept.             *)
FreshInv == \A c \in Requests : Fresh(c) => results[c] = "none"

Busy == Engaged \ {"receipt"}
Open(g, t) == results[t] = "none" /\ outputs[g][t] = "none"

ServeInv ==
  \A g \in Instances :
    /\ \A t \in Requests : outputs[g][t] = "encoding" => results[t] = "none"
    /\ rpc[g][Main] \in Busy => Open(g, last[g][Main])
    /\ g \in live /\ command.inst = g /\ command.token # last[g][Main] =>
         Open(g, command.token)

(* A call that has not returned has no outcome.                            *)
AnswerInv == \A c \in Requests : cpc[c] # "done" => outcome[c] = "none"

-----------------------------------------------------------------------------
(* A controller that is neither killed nor interrupted nor fails during a  *)
(* launch never loses sight of a starting group, whatever the groups do.   *)
Uninterrupted == Faults \cap {"launch", "controller", "shutdown"} = {}

AttendInv == Attended /\ spc \notin {"reap", "final"}

(* A step of the uninterrupted service keeps every starting group          *)
(* attended: only the launch starts one, and it holds on to it until it    *)
(* supervises it.                                                          *)
LEMMA AttendStep ==
  ASSUME TypeOK, CoreInv, AttendInv, Uninterrupted, [Next]_vars
  PROVE  AttendInv'
<1>0. WorkerTypeOK /\ 0 \notin Instances
  BY DEF TypeOK, Instances
<1>1. ASSUME UNCHANGED rpc, \A g \in Instances : Starting(g) => Attending(g)',
             spc' \notin {"reap", "final"}
      PROVE  AttendInv'
  BY <1>1 DEF AttendInv, Attended, Starting
<1>2. CASE UNCHANGED vars
  BY <1>2 DEF vars, workerVars, supervisorVars, AttendInv, Attended, Starting, Attending
<1>3. CASE UNCHANGED <<workerVars, supervisorVars>>
  BY <1>3 DEF workerVars, supervisorVars, AttendInv, Attended, Starting, Attending
<1>4. ASSUME NEW g \in Instances, WorkerAny(g), UNCHANGED <<clientVars, supervisorVars>>
      PROVE  AttendInv'
  <2>1. Starting(g)' => Starting(g)
    <3>1. CASE LoadModels(g) \/ Loaded(g) \/ RunCompletes(g)
      BY <1>0, <3>1, WorkerAssumption DEF LoadModels, Loaded, RunCompletes, WorkerTypeOK, Starting
    <3>2. CASE Reserve(g) \/ ReportIdle(g) \/ WriteResult(g) \/ SubmitOutput(g)
                 \/ WriteReceipt(g)
      BY <1>0, <3>2, WorkerAssumption DEF Reserve, ReportIdle, WriteResult, SubmitOutput,
                              WriteReceipt, RankStep, WorkerTypeOK, Starting
    <3>3. CASE ReportFailedState(g) \/ WriteFailedResult(g) \/ ReceiptWriteFails(g)
      BY <1>0, <3>3, WorkerAssumption DEF ReportFailedState, WriteFailedResult,
                              ReceiptWriteFails, RankStep, WorkerTypeOK, Starting
    <3>4. CASE GroupExits(g)
      BY <1>0, <3>4 DEF GroupExits, KillRanks, AllOff, Starting
    <3>5. ASSUME NEW r \in Ranks,
                 ReadLaunch(g, r) \/ Accept(g, r) \/ WriteError(g, r) \/ Exit(g, r)
          PROVE  Starting(g)' => Starting(g)
      BY <1>0, <3>5 DEF ReadLaunch, Accept, WriteError, Exit, RankStep, WorkerTypeOK, Starting
    <3>6. ASSUME NEW r \in Ranks, RankRaises(g, r) \/ RankDies(g, r)
          PROVE  Starting(g)' => Starting(g)
      BY <1>0, <3>6 DEF RankRaises, RankDies, WorkerTypeOK, Starting
    <3>7. CASE \E t \in Requests :
                 ReleaseSlot(g, t) \/ \E v \in Verdicts : CompleteOutput(g, t, v)
      BY <3>7 DEF ReleaseSlot, CompleteOutput, Starting
    <3>. QED
      BY <1>4, <3>1, <3>2, <3>3, <3>4, <3>5, <3>6, <3>7 DEF WorkerAny, WorkerNext
  <2>2. Frame(g)
    BY <1>4, WorkerShape
  <2>. QED
    BY <1>4, <2>1, <2>2 DEF Frame, supervisorVars, AttendInv, Attended, Starting, Attending
<1>5. CASE SupervisorLocal /\ UNCHANGED workerVars
  <2>1. CASE StartController \/ TryLaunch(Holders)
    <3>1. \A g \in Instances : ~Starting(g)
      BY <1>0, <2>1 DEF StartController, TryLaunch, Step, AttendInv, Attended, Attending, CoreInv
    <3>. QED
      BY <1>1, <1>5, <2>1, <3>1 DEF StartController, TryLaunch, Step, workerVars
  <2>2. CASE WriteOwner
    BY <1>0, <1>1, <1>5, <2>2 DEF WriteOwner, Step, workerVars, AttendInv, Attended, Attending,
                      CoreInv
  <2>3. CASE RecordFailure
    <3>1. worker \notin live
      BY <2>3 DEF RecordFailure, Step, CoreInv, Supervising, Settling
    <3>2. \A g \in Instances : ~Starting(g)
      BY <2>3, <3>1 DEF RecordFailure, Step, AttendInv, Attended, Attending, CoreInv, AllOff,
                        Starting
    <3>. QED  BY <1>1, <1>5, <2>3, <3>2 DEF RecordFailure, Step, workerVars
  <2>4. CASE LaunchRefused(Holders) \/ WriteLoading \/ ReportLoading \/ RecoverCancelled
               \/ RecoverFailed(Silent)
    BY <1>1, <1>5, <2>4 DEF LaunchRefused, WriteLoading, ReportLoading, RecoverCancelled,
         RecoverFailed, BeginRecover, Step, workerVars, AttendInv, Attended, Attending
  <2>5. CASE ReportReady \/ FailCommand \/ FailReceipts
    BY <1>1, <1>5, <2>5 DEF ReportReady, FailCommand, FailReceipts, Step, workerVars,
         AttendInv, Attended, Attending
  <2>6. ~WriteStopped
    BY DEF WriteStopped, Step, AttendInv
  <2>. QED  BY <1>5, <2>1, <2>2, <2>3, <2>4, <2>5, <2>6 DEF SupervisorLocal
<1>6. CASE LaunchGroup
  <2>1. /\ \A g \in Instances : ~Starting(g)
        /\ \A g \in Instances \ {launched} : rpc'[g] = rpc[g]
        /\ spc' = "owner" /\ launched' = launched
    BY <1>0, <1>6 DEF LaunchGroup, Popen, StartRanks, Step, WorkerTypeOK, AttendInv, Attended,
                      Attending, CoreInv
  <2>. QED  BY <2>1 DEF AttendInv, Attended, Attending, Starting
<1>7. CASE ReapGroup \/ ClearGroups
  <2>1. \A g \in Instances : Starting(g)' => Starting(g)
    BY <1>7 DEF ReapGroup, ClearGroups, KillRanks, AllOff, Starting
  <2>2. \/ spc = "stop" /\ spc' = "fail_command" /\ UNCHANGED <<worker, launched>>
        \/ spc = "clear" /\ spc' = "wait"
    BY <1>7 DEF ReapGroup, ClearGroups, StopGroup, ReapWorker, ClearGPUs, Step, AttendInv
  <2>. QED  BY <2>1, <2>2 DEF AttendInv, Attended, Attending
<1>. QED
  <2>1. ASSUME NEW c \in Requests, ClientStep(c) \/ ClientFault(c)
        PROVE  UNCHANGED <<workerVars, supervisorVars>>
    BY <2>1 DEF ClientStep, ClientFault
  <2>2. ASSUME NEW g \in Instances, WorkerStep(g) \/ WorkerFault(g)
        PROVE  WorkerAny(g) /\ UNCHANGED <<clientVars, supervisorVars>>
    BY <2>2 DEF WorkerStep, WorkerFault, WorkerAny, Fault
  <2>3. ~SupervisorFault
    BY DEF SupervisorFault, Fault, Uninterrupted
  <2>. QED
    BY <1>2, <1>3, <1>4, <1>5, <1>6, <1>7, <2>1, <2>2, <2>3
       DEF Next, SupervisorStep, JointStep

(* So everything below that is said of the attended service holds of the   *)
(* service as it is, unless its controller is killed or interrupted.       *)
THEOREM AttendedUnlessInterrupted ==
  ASSUME Uninterrupted
  PROVE  Spec => AttendedSpec
<1>1. Init => AttendInv
  <2> SUFFICES ASSUME Init PROVE AttendInv
    OBVIOUS
  <2>1. \A g \in Instances : \A r \in Ranks : rpc[g][r] = "off"
    BY DEF Init, WorkerInit, AllOff
  <2>. QED  BY <2>1 DEF Init, SupervisorInit, AttendInv, Attended, Starting
<1>2. TypeOK /\ CoreInv /\ AttendInv /\ [Next]_vars => AttendInv'
  BY AttendStep
<1>3. [Next]_vars /\ AttendInv' => [Next /\ Attended']_vars
  BY DEF AttendInv
<1>. QED  BY <1>1, <1>2, <1>3, Core, PTL DEF Spec, AttendedSpec

-----------------------------------------------------------------------------
(* What a step of a group does to its own ranks: no rank that is gone      *)
(* comes back, an identity is read from launch.json, and completions go    *)
(* with the main rank.                                                     *)
LEMMA WorkerRanks ==
  ASSUME TypeOK, GroupInv, NEW g \in Instances, WorkerAny(g)
  PROVE  /\ \A r \in Ranks :
              /\ rpc[g][r] \in {"off", "down"} => rpc'[g][r] \in {"off", "down"}
              /\ rpc'[g][r] \in Knowing =>
                   \/ rpc[g][r] \in Knowing /\ ident'[g][r] = ident[g][r]
                   \/ rpc[g][r] = "starting" /\ ident'[g][r] = launch
         /\ rpc'[g][Main] \in {"off", "down"} => outputs'[g] = NoOutputs
<1>0. Main \in Ranks /\ WorkerTypeOK
  BY WorkerAssumption DEF TypeOK
<1>1. rpc[g][Main] \in {"off", "down"} => \A t \in Requests : outputs[g][t] = "none"
  BY DEF GroupInv, NoOutputs
<1>2. CASE LoadModels(g) \/ Loaded(g) \/ RunCompletes(g)
  BY <1>0, <1>2 DEF LoadModels, Loaded, RunCompletes, WorkerTypeOK, Knowing, Serving
<1>3. CASE Reserve(g) \/ ReportIdle(g) \/ WriteResult(g) \/ SubmitOutput(g) \/ WriteReceipt(g)
  BY <1>0, <1>3 DEF Reserve, ReportIdle, WriteResult, SubmitOutput, WriteReceipt, RankStep,
                    WorkerTypeOK, Knowing, Serving
<1>4. CASE ReportFailedState(g) \/ WriteFailedResult(g) \/ ReceiptWriteFails(g)
  BY <1>0, <1>4 DEF ReportFailedState, WriteFailedResult, ReceiptWriteFails, RankStep,
                    WorkerTypeOK, Knowing, Serving
<1>5. CASE GroupExits(g)
  BY <1>0, <1>5 DEF GroupExits, KillRanks, AllOff, Knowing, Serving
<1>6. ASSUME NEW r \in Ranks, ReadLaunch(g, r) \/ Accept(g, r) \/ WriteError(g, r)
      PROVE  /\ \A s \in Ranks :
                  /\ rpc[g][s] \in {"off", "down"} => rpc'[g][s] \in {"off", "down"}
                  /\ rpc'[g][s] \in Knowing =>
                       \/ rpc[g][s] \in Knowing /\ ident'[g][s] = ident[g][s]
                       \/ rpc[g][s] = "starting" /\ ident'[g][s] = launch
             /\ rpc'[g][Main] \notin {"off", "down"} \/ rpc'[g][Main] = rpc[g][Main]
             /\ outputs' = outputs
  BY <1>0, <1>6 DEF ReadLaunch, Accept, WriteError, RankStep, WorkerTypeOK, Knowing, Serving
<1>7. ASSUME NEW r \in Ranks, Exit(g, r) \/ RankRaises(g, r) \/ RankDies(g, r)
      PROVE  /\ \A s \in Ranks :
                  /\ rpc[g][s] \in {"off", "down"} => rpc'[g][s] \in {"off", "down"}
                  /\ rpc'[g][s] \in Knowing => rpc[g][s] \in Knowing /\ ident'[g][s] = ident[g][s]
             /\ rpc'[g][Main] \in {"off", "down"} =>
                  outputs'[g] = NoOutputs \/ (rpc'[g][Main] = rpc[g][Main] /\ outputs' = outputs)
  BY <1>0, <1>7 DEF Exit, RankRaises, RankDies, RankStep, WorkerTypeOK, Knowing, Serving
<1>8. CASE \E t \in Requests : ReleaseSlot(g, t) \/ \E v \in Verdicts : CompleteOutput(g, t, v)
  <2>1. rpc[g][Main] \notin {"off", "down"} /\ UNCHANGED <<rpc, ident>>
    BY <1>1, <1>8 DEF ReleaseSlot, CompleteOutput
  <2>. QED  BY <1>0, <2>1
<1>. QED
  BY <1>2, <1>3, <1>4, <1>5, <1>6, <1>7, <1>8 DEF WorkerAny, WorkerNext, GroupInv

(* Only one group is active: the step of the induction.  A launch finds    *)
(* the GPUs free, so what is still active must be starting; and nothing is *)
(* left starting behind the controller's back.                             *)
LEMMA GroupStep ==
  ASSUME TypeOK, CoreInv, GroupInv, [Next /\ Attended']_vars
  PROVE  GroupInv'
<1>0. Main \in Ranks /\ WorkerTypeOK /\ live \subseteq Instances /\ launched \in Nat
  BY WorkerAssumption DEF TypeOK, MailboxTypeOK, SupervisorTypeOK
<1>1. ASSUME UNCHANGED <<rpc, ident, outputs, launched>>,
             spc' \in Launching => spc \in Launching
      PROVE  GroupInv'
  BY <1>1 DEF GroupInv, Active
<1>2. CASE UNCHANGED vars
  BY <1>1, <1>2 DEF vars, workerVars, supervisorVars
<1>3. CASE UNCHANGED <<workerVars, supervisorVars>>
  BY <1>1, <1>3 DEF workerVars, supervisorVars
<1>4. ASSUME NEW g \in Instances, WorkerAny(g), UNCHANGED <<clientVars, supervisorVars>>
      PROVE  GroupInv'
  <2>1. Frame(g)
    BY <1>4, WorkerShape
  <2>2. \A h \in Instances : Active(h)' => Active(h)
    BY <1>4, <2>1, WorkerRanks DEF Frame, Active
  <2>3. \A r \in Ranks : rpc'[g][r] \in Knowing => ident'[g][r] = g
    <3>1. ASSUME NEW r \in Ranks, rpc[g][r] = "starting"  PROVE launch = g
      BY <3>1 DEF GroupInv, Active, CoreInv
    <3>. QED  BY <1>4, <3>1, WorkerRanks DEF GroupInv
  <2>4. rpc'[g][Main] \in {"off", "down"} => outputs'[g] = NoOutputs
    BY <1>4, WorkerRanks
  <2>. QED  BY <1>4, <2>1, <2>2, <2>3, <2>4 DEF Frame, GroupInv, supervisorVars
<1>5. ASSUME NEW dead, KillRanks(dead), spc' \notin Launching, launched' = launched
      PROVE  GroupInv'
  BY <1>0, <1>5 DEF KillRanks, AllOff, NoIdent, GroupInv, Active, Knowing, Serving
<1>6. CASE ReapGroup \/ ClearGroups
  BY <1>5, <1>6 DEF ReapGroup, ClearGroups, StopGroup, ReapWorker, ClearGPUs, Step, Launching
<1>7. CASE LaunchGroup
  <2>1. /\ \A g \in Instances : ~Active(g)
        /\ spc' \notin Launching /\ UNCHANGED <<launched, ident, outputs>>
        /\ \A g \in Instances \ {launched} : rpc'[g] = rpc[g]
        /\ \A r \in Ranks : rpc'[launched][r] = "starting" \/ launched \notin Instances
    BY <1>0, <1>7 DEF LaunchGroup, Popen, StartRanks, Step, GroupInv, Launching, WorkerTypeOK
  <2>. QED  BY <1>0, <2>1 DEF GroupInv, Active, Knowing, Serving
<1>8. CASE TryLaunch(Holders) /\ UNCHANGED workerVars /\ Attended'
  <2>1. /\ spc' = "state" /\ worker' = 0 /\ Holders = {}
        /\ UNCHANGED <<rpc, ident, outputs>>
    BY <1>8 DEF TryLaunch, Step, CoreInv, workerVars
  <2>2. \A g \in Instances : ~Active(g)
    <3>1. \A g \in Instances : \A r \in Ranks : rpc'[g][r] \notin {"starting", "joining"}
      BY <1>8, <2>1 DEF Attended, Attending, Starting, Instances
    <3>. QED  BY <2>1, <3>1 DEF Active, Holders
  <2>. QED  BY <2>1, <2>2 DEF GroupInv, Active
<1>9. CASE (SupervisorLocal \/ LaunchFails \/ ControllerDies \/ Shutdown)
             /\ UNCHANGED workerVars /\ ~TryLaunch(Holders)
  <2>1. launched' = launched /\ (spc' \in Launching => spc \in Launching)
    BY <1>9 DEF SupervisorLocal, StartController, LaunchRefused, WriteLoading, WriteOwner,
         ReportLoading, RecoverCancelled, RecoverFailed, BeginRecover, ReportReady, FailCommand,
         FailReceipts, RecordFailure, WriteStopped, LaunchFails, ControllerDies, Shutdown,
         Step, Launching
  <2>. QED  BY <1>1, <1>9, <2>1 DEF workerVars
<1>. QED
  BY <1>2, <1>3, <1>4, <1>6, <1>7, <1>8, <1>9, NextShape DEF SupervisorAny

(* Initially no group is active.                                           *)
LEMMA GroupInit == Init => GroupInv
<1> SUFFICES ASSUME Init PROVE GroupInv
  OBVIOUS
<1>1. \A g \in Instances : \A r \in Ranks : rpc[g][r] = "off"
  BY DEF Init, WorkerInit, AllOff
<1>2. \A g \in Instances : outputs[g] = NoOutputs
  BY DEF Init, WorkerInit
<1>. QED  BY <1>1, <1>2 DEF GroupInv, Active, Knowing, Serving

(* At any time at most one group of the attended service is active.        *)
LEMMA Grouped == AttendedSpec => [](TypeOK /\ CoreInv /\ GroupInv)
<1>1. TypeOK /\ CoreInv /\ GroupInv /\ [Next /\ Attended']_vars => (TypeOK /\ CoreInv /\ GroupInv)'
  <2>1. [Next /\ Attended']_vars => [Next]_vars
    OBVIOUS
  <2>. QED  BY <2>1, TypeStep, CoreStep, GroupStep
<1>. QED  BY <1>1, CoreInit, GroupInit, PTL DEF AttendedSpec

(* A group loads its model only onto GPUs no other group holds, as long as *)
(* no controller loses sight of a group that is still starting.            *)
THEOREM FreeGPUs == AttendedSpec => LoadsOnFreeGPUs
<1>1. ASSUME GroupInv, NEW g \in Instances, LoadModels(g)  PROVE Holders = {}
  <2>0. Main \in Ranks
    BY WorkerAssumption
  <2>1. Active(g) /\ g \notin Holders
    BY <1>1, <2>0 DEF LoadModels, Active, Holders
  <2>2. \A h \in Holders : h \in Instances /\ Active(h)
    BY DEF Holders, Active
  <2>. QED  BY <1>1, <2>1, <2>2 DEF GroupInv
<1>2. GroupInv => [\A g \in Instances : LoadModels(g) => Holders = {}]_vars
  BY <1>1
<1>. QED  BY <1>2, Grouped, PTL DEF LoadsOnFreeGPUs

-----------------------------------------------------------------------------
(* What a step of a group does to the requests: a rank takes its request   *)
(* from the command, and verdicts, receipts and completions are those of   *)
(* the request the main rank serves.                                       *)
Takes(g, r) ==
  /\ rpc[g][r] = "poll" /\ command.inst = ident[g][r]
  /\ command.token # last[g][r] /\ last'[g][r] = command.token

(* A step of a group changes what a rank serves only by taking the         *)
(* published command.                                                      *)
LEMMA WorkerTakes ==
  ASSUME TypeOK, NEW g \in Instances, WorkerAny(g), NEW r \in Ranks, rpc'[g][r] \in Engaged
  PROVE  \/ rpc[g][r] \in Engaged /\ last'[g][r] = last[g][r]
         \/ Takes(g, r)
<1>0. Main \in Ranks /\ WorkerTypeOK
  BY WorkerAssumption DEF TypeOK
<1>1. CASE LoadModels(g) \/ Loaded(g) \/ RunCompletes(g)
  BY <1>0, <1>1 DEF LoadModels, Loaded, RunCompletes, WorkerTypeOK, Engaged, Serving
<1>2. CASE Reserve(g) \/ ReportIdle(g) \/ WriteResult(g) \/ SubmitOutput(g) \/ WriteReceipt(g)
  BY <1>0, <1>2 DEF Reserve, ReportIdle, WriteResult, SubmitOutput, WriteReceipt, RankStep,
                    WorkerTypeOK, Engaged, Serving
<1>3. CASE ReportFailedState(g) \/ WriteFailedResult(g) \/ ReceiptWriteFails(g)
  BY <1>0, <1>3 DEF ReportFailedState, WriteFailedResult, ReceiptWriteFails, RankStep,
                    WorkerTypeOK, Engaged, Serving
<1>4. CASE GroupExits(g)
  BY <1>0, <1>4 DEF GroupExits, KillRanks, AllOff, Engaged, Serving
<1>5. ASSUME NEW s \in Ranks, ReadLaunch(g, s) \/ WriteError(g, s) \/ Exit(g, s)
      PROVE  rpc[g][r] \in Engaged /\ last'[g][r] = last[g][r]
  BY <1>0, <1>5 DEF ReadLaunch, WriteError, Exit, RankStep, WorkerTypeOK, Engaged, Serving
<1>6. ASSUME NEW s \in Ranks, Accept(g, s)
      PROVE  (rpc[g][r] \in Engaged /\ last'[g][r] = last[g][r]) \/ Takes(g, r)
  <2>1. CASE r = s
    BY <1>0, <1>6, <2>1 DEF Accept, RankStep, WorkerTypeOK, Takes
  <2>2. CASE r # s
    BY <1>0, <1>6, <2>2 DEF Accept, RankStep, WorkerTypeOK
  <2>. QED  BY <2>1, <2>2
<1>7. ASSUME NEW s \in Ranks, RankRaises(g, s) \/ RankDies(g, s)
      PROVE  rpc[g][r] \in Engaged /\ last'[g][r] = last[g][r]
  BY <1>0, <1>7 DEF RankRaises, RankDies, WorkerTypeOK, Engaged, Serving
<1>8. CASE \E t \in Requests : ReleaseSlot(g, t) \/ \E v \in Verdicts : CompleteOutput(g, t, v)
  BY <1>8 DEF ReleaseSlot, CompleteOutput
<1>. QED
  BY <1>1, <1>2, <1>3, <1>4, <1>5, <1>6, <1>7, <1>8 DEF WorkerAny, WorkerNext

(* A step of a group writes results, receipts and completions only for the *)
(* request its main rank serves, or for a completion of its own.           *)
LEMMA WorkerWrites ==
  ASSUME TypeOK, CoreInv, NEW g \in Instances, WorkerAny(g), NEW t \in Requests
  PROVE  /\ \/ results'[t] = results[t]
            \/ /\ results'[t] \in Verdicts
               /\ \/ outputs[g][t] = "encoding" /\ outputs'[g][t] = "written"
                  \/ /\ last[g][Main] = t /\ rpc[g][Main] \in {"finish", "reporting"}
                     /\ rpc'[g][Main] \in {"poll", "exiting"}
         /\ \/ gpu_results'[t] = gpu_results[t]
            \/ last[g][Main] = t /\ rpc[g][Main] = "receipt" /\ gpu_results'[t] = ident[g][Main]
         /\ \/ outputs'[g][t] \in {outputs[g][t], "none"}
            \/ outputs[g][t] = "encoding" /\ outputs'[g][t] = "written"
            \/ last[g][Main] = t /\ rpc[g][Main] = "finish" /\ rpc'[g][Main] = "receipt"
<1>0. Main \in Ranks /\ MailboxTypeOK /\ WorkerTypeOK
  BY WorkerAssumption DEF TypeOK
<1>1. CASE LoadModels(g) \/ Loaded(g) \/ RunCompletes(g) \/ Reserve(g) \/ ReportIdle(g)
             \/ ReportFailedState(g) \/ ReceiptWriteFails(g)
  BY <1>1 DEF LoadModels, Loaded, RunCompletes, Reserve, ReportIdle, ReportFailedState,
              ReceiptWriteFails, mailVars
<1>2. CASE WriteResult(g) \/ WriteFailedResult(g)
  BY <1>0, <1>2 DEF WriteResult, WriteFailedResult, RankStep, MailboxTypeOK, WorkerTypeOK, Verdicts
<1>3. CASE SubmitOutput(g)
  BY <1>0, <1>3 DEF SubmitOutput, RankStep, mailVars, WorkerTypeOK
<1>4. CASE WriteReceipt(g)
  BY <1>0, <1>4 DEF WriteReceipt, RankStep, MailboxTypeOK
<1>5. CASE GroupExits(g)
  BY <1>0, <1>5 DEF GroupExits, KillRanks, NoOutputs
<1>6. CASE \E r \in Ranks : ReadLaunch(g, r) \/ Accept(g, r) \/ WriteError(g, r) \/ Exit(g, r)
  BY <1>0, <1>6 DEF ReadLaunch, Accept, WriteError, Exit, mailVars
<1>7. CASE \E r \in Ranks : RankRaises(g, r) \/ RankDies(g, r)
  BY <1>0, <1>7 DEF RankRaises, RankDies, WorkerTypeOK, NoOutputs, mailVars
<1>8. CASE \E u \in Requests : ReleaseSlot(g, u)
  BY <1>0, <1>8 DEF ReleaseSlot, mailVars, WorkerTypeOK
<1>9. CASE \E u \in Requests : \E v \in Verdicts : CompleteOutput(g, u, v)
  BY <1>0, <1>9 DEF CompleteOutput, MailboxTypeOK, WorkerTypeOK
<1>. QED
  BY <1>1, <1>2, <1>3, <1>4, <1>5, <1>6, <1>7, <1>8, <1>9 DEF WorkerAny, WorkerNext

(* What a step of the controller does to the files the groups also write:  *)
(* it fails open requests of a group that is dead.                         *)
Fails(t) ==
  /\ results[t] = "none" /\ results'[t] = "failed"
  /\ \/ command.token = t /\ command.inst = instance
     \/ gpu_results[t] = instance

LEMMA SupervisorShape ==
  ASSUME TypeOK, CoreInv, SupervisorAny
  PROVE  /\ UNCHANGED <<command, gpu_results>>
         /\ \/ results' = results
            \/ /\ instance # 0 /\ instance \notin live /\ UNCHANGED <<workerVars, live>>
               /\ \A t \in Requests : results'[t] = results[t] \/ Fails(t)
         /\ \/ UNCHANGED <<workerVars, live>>
            \/ LaunchGroup
            \/ \E dead : KillRanks(dead) /\ live' = live \ dead /\ results' = results
<1>1. CASE SupervisorLocal /\ UNCHANGED workerVars
  <2>1. CASE FailCommand
    BY <1>1, <2>1 DEF FailCommand, Step, CoreInv, Settling, Supervising, Fails
  <2>2. CASE FailReceipts
    BY <1>1, <2>2 DEF FailReceipts, Step, CoreInv, Settling, Supervising, Fails
  <2>3. CASE StartController \/ TryLaunch(Holders) \/ LaunchRefused(Holders) \/ WriteLoading
               \/ WriteOwner \/ ReportLoading
    BY <1>1, <2>3 DEF StartController, TryLaunch, LaunchRefused, WriteLoading, WriteOwner,
                      ReportLoading
  <2>4. CASE RecoverCancelled \/ RecoverFailed(Silent) \/ ReportReady \/ RecordFailure
               \/ WriteStopped
    BY <1>1, <2>4 DEF RecoverCancelled, RecoverFailed, BeginRecover, ReportReady,
                      RecordFailure, WriteStopped
  <2>. QED  BY <1>1, <2>1, <2>2, <2>3, <2>4 DEF SupervisorLocal
<1>2. CASE LaunchGroup
  BY <1>2 DEF LaunchGroup, Popen
<1>3. CASE ReapGroup \/ ClearGroups
  BY <1>3 DEF ReapGroup, StopGroup, ReapWorker, ClearGroups, ClearGPUs
<1>4. CASE (LaunchFails \/ ControllerDies \/ Shutdown) /\ UNCHANGED workerVars
  BY <1>4 DEF LaunchFails, ControllerDies, Shutdown
<1>. QED  BY <1>1, <1>2, <1>3, <1>4 DEF SupervisorAny

(* Nothing that has a result loses it.                                     *)
LEMMA Settled ==
  ASSUME TypeOK, CoreInv, Next, NEW t \in Requests, results[t] # "none"
  PROVE  results'[t] # "none"
<1>1. ASSUME NEW c \in Requests, ClientNext(c) \/ Abandon(c)  PROVE results' = results
  BY <1>1, ClientFrame
<1>2. ASSUME NEW g \in Instances, WorkerAny(g)  PROVE results'[t] # "none"
  BY <1>2, WorkerWrites DEF Verdicts
<1>3. CASE SupervisorAny
  BY <1>3, SupervisorShape DEF Fails
<1>. QED  BY <1>1, <1>2, <1>3, NextShape

-----------------------------------------------------------------------------
(* What a client sent stays as it was sent.                                *)
LEMMA SentStays ==
  ASSUME TypeOK, [Next]_vars, NEW t, NEW i, Sent(t, i)
  PROVE  Sent(t, i)'
<1>0. ClientTypeOK /\ t \in Requests /\ ~Fresh(t) /\ cinst[t] = i
  BY DEF TypeOK, Sent
<1>1. CASE UNCHANGED clientVars
  BY <1>0, <1>1 DEF clientVars, Sent, Fresh
<1>2. ASSUME NEW c \in Requests, ClientNext(c) \/ Abandon(c)  PROVE Sent(t, i)'
  <2>1. CASE Ends(c)
    BY <1>0, <2>1 DEF Ends, End, Sent, Fresh, FreshPCs, ClientTypeOK
  <2>2. CASE Publish(c) \/ WriteCancel(c)
    BY <1>0, <2>2 DEF Publish, WriteCancel, Goto, Sent, Fresh, FreshPCs, ClientTypeOK
  <2>3. CASE Moves(c)
    BY <1>0, <2>3 DEF Moves, Sent, Fresh, FreshPCs, ClientTypeOK
  <2>. QED  BY <1>2, <2>1, <2>2, <2>3, ClientShape
<1>. QED  BY <1>1, <1>2, NextShape DEF vars

(* Requests carry the instance their client had read.                      *)
LEMMA AddressStep ==
  ASSUME TypeOK, CoreInv, GroupInv, AddressInv, [Next]_vars
  PROVE  AddressInv'
<1>0. Main \in Ranks /\ MailboxTypeOK /\ WorkerTypeOK /\ 0 \notin Instances
  BY WorkerAssumption DEF TypeOK, Instances
<1>1. ASSUME command' = command
      PROVE  /\ command'.token # NoToken => Sent(command.token, command.inst)'
             /\ command'.token = NoToken => command'.inst = 0
  BY <1>1, SentStays DEF AddressInv
<1>2. ASSUME UNCHANGED workerVars
      PROVE  /\ \A g \in Instances : \A r \in Ranks :
                  rpc'[g][r] \in Engaged => Sent(last[g][r], g)'
             /\ \A g \in Instances : \A t \in Requests :
                  outputs'[g][t] # "none" => Sent(t, g)'
  <2>1. UNCHANGED <<rpc, last, outputs>>
    BY <1>2 DEF workerVars
  <2>2. ASSUME NEW g \in Instances, NEW r \in Ranks, rpc'[g][r] \in Engaged
        PROVE  Sent(last[g][r], g)'
    <3>1. Sent(last[g][r], g)
      BY <2>1, <2>2 DEF AddressInv
    <3>. QED  BY <2>1, <3>1, SentStays DEF Sent
  <2>3. ASSUME NEW g \in Instances, NEW t \in Requests, outputs'[g][t] # "none"
        PROVE  Sent(t, g)'
    BY <2>1, <2>3, SentStays DEF AddressInv
  <2>. QED  BY <2>2, <2>3
<1>3. ASSUME gpu_results' = gpu_results
      PROVE  \A t \in Requests : gpu_results'[t] # 0 => Sent(t, gpu_results[t])'
  <2>1. ASSUME NEW t \in Requests, gpu_results[t] # 0  PROVE Sent(t, gpu_results[t])'
    <3>1. Sent(t, gpu_results[t])
      BY <2>1 DEF AddressInv
    <3>. QED  BY <1>3, <3>1, SentStays DEF Sent
  <2>. QED  BY <1>3, <2>1
<1>4. CASE UNCHANGED vars
  BY <1>1, <1>2, <1>3, <1>4 DEF vars, mailVars, AddressInv
<1>5. ASSUME NEW c \in Requests, ClientNext(c) \/ Abandon(c),
             UNCHANGED <<workerVars, supervisorVars>>
      PROVE  AddressInv'
  <2>1. gpu_results' = gpu_results
    BY <1>5, ClientFrame
  <2>2. CASE command' = command
    BY <1>1, <1>2, <1>3, <1>5, <2>1, <2>2 DEF AddressInv
  <2>3. CASE Publish(c)
    <3>1. /\ command' = [token |-> c, inst |-> cinst[c]]
          /\ cpc'[c] \notin FreshPCs /\ cinst' = cinst
      BY <2>3, MailboxAssumption
         DEF Publish, Goto, Sent, Fresh, FreshPCs, TypeOK, ClientTypeOK
    <3>2. command'.token # NoToken /\ Sent(command.token, command.inst)'
      BY <3>1, MailboxAssumption DEF Sent, Fresh
    <3>. QED  BY <1>2, <1>3, <1>5, <2>1, <3>2 DEF AddressInv
  <2>. QED
    BY <1>5, <2>2, <2>3, ClientShape DEF Ends, End, WriteCancel, Moves, mailVars
<1>6. ASSUME NEW g \in Instances, WorkerAny(g), UNCHANGED <<clientVars, supervisorVars>>
      PROVE  AddressInv'
  <2>0. Frame(g) /\ command' = command
    BY <1>6, WorkerShape DEF Frame
  <2>1. ASSUME NEW h \in Instances, NEW r \in Ranks, rpc'[h][r] \in Engaged
        PROVE  Sent(last[h][r], h)'
    <3>1. CASE rpc[h][r] \in Engaged /\ last'[h][r] = last[h][r]
      <4>1. Sent(last[h][r], h)
        BY <3>1 DEF AddressInv
      <4>. QED  BY <3>1, <4>1, SentStays DEF Sent
    <3>2. CASE h = g /\ Takes(g, r)
      <4>1. command.inst = g /\ last'[g][r] = command.token
        BY <1>0, <3>2 DEF Takes, GroupInv, Knowing
      <4>2. Sent(command.token, g)
        BY <1>0, <4>1 DEF AddressInv
      <4>. QED  BY <3>2, <4>1, <4>2, SentStays DEF Sent
    <3>. QED  BY <1>6, <2>0, <2>1, <3>1, <3>2, WorkerTakes DEF Frame
  <2>2. ASSUME NEW t \in Requests, last[g][Main] = t, rpc[g][Main] \in {"finish", "receipt"}
        PROVE  Sent(t, g)' /\ ident[g][Main] = g
    BY <1>0, <2>2, SentStays DEF AddressInv, GroupInv, Engaged, Knowing, Serving
  <2>3. ASSUME NEW t \in Requests, gpu_results'[t] # 0
        PROVE  Sent(t, gpu_results[t])'
    <3>1. CASE gpu_results'[t] = gpu_results[t]
      <4>1. Sent(t, gpu_results[t])
        BY <2>3, <3>1 DEF AddressInv
      <4>. QED  BY <3>1, <4>1, SentStays DEF Sent
    <3>2. CASE last[g][Main] = t /\ rpc[g][Main] = "receipt" /\ gpu_results'[t] = ident[g][Main]
      BY <2>2, <3>2 DEF Sent
    <3>. QED  BY <1>6, <3>1, <3>2, WorkerWrites
  <2>4. ASSUME NEW h \in Instances, NEW t \in Requests, outputs'[h][t] # "none"
        PROVE  Sent(t, h)'
    <3>1. CASE outputs[h][t] # "none"
      BY <3>1, SentStays DEF AddressInv
    <3>2. CASE h = g /\ last[g][Main] = t /\ rpc[g][Main] = "finish"
      BY <2>2, <3>2
    <3>3. CASE h # g
      BY <2>0, <2>4, <3>1, <3>3 DEF Frame
    <3>. QED  BY <1>6, <2>4, <3>1, <3>2, <3>3, WorkerWrites
  <2>. QED  BY <1>1, <2>0, <2>1, <2>3, <2>4 DEF AddressInv
<1>7. CASE SupervisorAny /\ UNCHANGED clientVars
  <2>1. UNCHANGED <<command, gpu_results>>
    BY <1>7, SupervisorShape
  <2>2. \/ UNCHANGED workerVars
        \/ /\ \A g \in Instances : \A r \in Ranks :
                rpc'[g][r] \in Engaged => rpc[g][r] \in Engaged /\ last'[g][r] = last[g][r]
           /\ \A g \in Instances : \A t \in Requests :
                outputs'[g][t] # "none" => outputs[g][t] # "none"
    <3>1. CASE LaunchGroup
      BY <1>0, <3>1 DEF LaunchGroup, StartRanks, Engaged, Serving, WorkerTypeOK
    <3>2. ASSUME NEW dead, KillRanks(dead)
          PROVE  /\ \A g \in Instances : \A r \in Ranks :
                      rpc'[g][r] \in Engaged => rpc[g][r] \in Engaged /\ last'[g][r] = last[g][r]
                 /\ \A g \in Instances : \A t \in Requests :
                      outputs'[g][t] # "none" => outputs[g][t] # "none"
      BY <3>2 DEF KillRanks, AllOff, NoOutputs, Engaged, Serving
    <3>. QED  BY <1>7, <3>1, <3>2, SupervisorShape
  <2>3. ASSUME NEW g \in Instances, NEW r \in Ranks, rpc'[g][r] \in Engaged,
               rpc[g][r] \in Engaged /\ last'[g][r] = last[g][r]
        PROVE  Sent(last[g][r], g)'
    <3>1. Sent(last[g][r], g)
      BY <2>3 DEF AddressInv
    <3>. QED  BY <2>3, <3>1, SentStays DEF Sent
  <2>4. ASSUME NEW g \in Instances, NEW t \in Requests, outputs[g][t] # "none"
        PROVE  Sent(t, g)'
    BY <2>4, SentStays DEF AddressInv
  <2>. QED  BY <1>1, <1>2, <1>3, <2>1, <2>2, <2>3, <2>4 DEF AddressInv
<1>. QED  BY <1>4, <1>5, <1>6, <1>7, NextShape

(* Initially nothing is published and nothing is served.                   *)
LEMMA AddressInit == Init => AddressInv
<1> SUFFICES ASSUME Init PROVE AddressInv
  OBVIOUS
<1>1. \A g \in Instances : \A r \in Ranks : rpc[g][r] = "off"
  BY DEF Init, WorkerInit, AllOff
<1>2. \A g \in Instances : \A t \in Requests : outputs[g][t] = "none"
  BY DEF Init, WorkerInit, NoOutputs
<1>. QED  BY <1>1, <1>2 DEF Init, MailboxInit, AddressInv, Engaged, Serving

(* Whatever a group serves was published for that group.                   *)
LEMMA Addressed == AttendedSpec => [](TypeOK /\ CoreInv /\ GroupInv /\ AddressInv)
<1>1. TypeOK /\ CoreInv /\ GroupInv /\ AddressInv /\ [Next /\ Attended']_vars => AddressInv'
  <2>1. [Next /\ Attended']_vars => [Next]_vars
    OBVIOUS
  <2>. QED  BY <2>1, AddressStep
<1>. QED  BY <1>1, AddressInit, Grouped, PTL DEF AttendedSpec

(* A rank only ever runs what a client published for the group it belongs  *)
(* to, although the client may have looked at state.json long before.      *)
THEOREM NothingStale == AttendedSpec => []NoStaleCommand
<1>1. AddressInv => NoStaleCommand
  BY DEF AddressInv, NoStaleCommand, Running, Engaged, Serving, Sent
<1>. QED  BY <1>1, Addressed, PTL

-----------------------------------------------------------------------------
(* The controller records a failure only when the group is dead and every  *)
(* receipt of it has its result, and no receipt is issued afterwards.      *)
LEMMA FailureStep ==
  ASSUME TypeOK, CoreInv, GroupInv, FailureInv, [Next]_vars
  PROVE  FailureInv'
<1>0. /\ launched \in Nat /\ instance \in Nat /\ live \subseteq Instances
      /\ \A i \in failures : i \in Nat /\ i <= launched /\ i \notin live
      /\ \A i \in failures : \A t \in Requests : gpu_results[t] = i => results[t] # "none"
      /\ Main \in Ranks
  BY WorkerAssumption
     DEF FailureInv, FailureSettlesOutputs, TypeOK, MailboxTypeOK, SupervisorTypeOK,
         Instances, MaybeInstance
<1>1. CASE UNCHANGED vars
  BY <1>1 DEF vars, mailVars, supervisorVars, FailureInv, FailureSettlesOutputs
<1>2. ASSUME NEW c \in Requests, ClientNext(c) \/ Abandon(c),
             UNCHANGED <<workerVars, supervisorVars>>
      PROVE  FailureInv'
  BY <1>2, ClientFrame DEF supervisorVars, FailureInv, FailureSettlesOutputs
<1>3. ASSUME NEW g \in Instances, WorkerAny(g), Next, UNCHANGED <<clientVars, supervisorVars>>
      PROVE  FailureInv'
  <2>1. g \in live /\ failures' = failures /\ live' \subseteq live
    BY <1>3, WorkerShape DEF Frame, GroupExits
  <2>2. ASSUME NEW t \in Requests, NEW i, gpu_results'[t] = i, i # g
        PROVE  gpu_results[t] = i
    <3>1. rpc[g][Main] = "receipt" => ident[g][Main] = g
      BY <1>0 DEF GroupInv, Knowing, Serving
    <3>. QED  BY <1>3, <2>2, <3>1, WorkerWrites
  <2>3. ASSUME NEW i \in failures, NEW t \in Requests, gpu_results'[t] = i
        PROVE  results'[t] # "none"
    BY <1>0, <1>3, <2>1, <2>2, <2>3, Settled
  <2>4. ASSUME spc = "record", NEW t \in Requests, gpu_results'[t] = instance
        PROVE  results'[t] # "none"
    <3>1. instance \notin live
      BY <2>4 DEF CoreInv, Settling
    <3>. QED  BY <1>3, <2>1, <2>2, <2>4, <3>1, Settled DEF FailureInv
  <2>. QED
    BY <1>0, <1>3, <2>1, <2>3, <2>4 DEF FailureInv, FailureSettlesOutputs, supervisorVars
<1>4. CASE SupervisorAny /\ UNCHANGED clientVars /\ Next
  <2>0. gpu_results' = gpu_results
    BY <1>4, SupervisorShape
  <2>1. ASSUME NEW i \in failures, NEW t \in Requests, gpu_results'[t] = i
        PROVE  results'[t] # "none"
    BY <1>0, <1>4, <2>0, <2>1, Settled
  <2>2. ASSUME failures' = failures, live' \subseteq live, launched' = launched,
               spc' # "record", spc' \in Launching => spc \in Launching
        PROVE  FailureInv'
    BY <1>0, <2>1, <2>2 DEF FailureInv, FailureSettlesOutputs
  <2>3. CASE FailReceipts
    <3>1. /\ UNCHANGED <<failures, live, launched, instance>> /\ spc' = "record"
          /\ \A t \in Requests : gpu_results[t] = instance => results'[t] # "none"
      BY <2>3 DEF FailReceipts, Step
    <3>. QED  BY <1>0, <2>0, <2>1, <3>1 DEF FailureInv, FailureSettlesOutputs, Launching
  <2>4. CASE RecordFailure
    <3>1. /\ failures' = failures \union {instance} /\ spc' = "wait" /\ instance \notin live
          /\ UNCHANGED <<live, launched, results>> /\ instance <= launched
          /\ \A t \in Requests : gpu_results[t] = instance => results[t] # "none"
      BY <2>4 DEF RecordFailure, Step, CoreInv, Settling, FailureInv
    <3>. QED  BY <1>0, <2>0, <3>1 DEF FailureInv, FailureSettlesOutputs, Launching
  <2>5. CASE LaunchGroup
    <3>1. /\ failures' = failures /\ launched \notin failures /\ launched' = launched
          /\ live' = live \union {launched} /\ spc' = "owner"
      BY <2>5 DEF LaunchGroup, Popen, Step, FailureInv, Launching
    <3>. QED  BY <1>0, <2>1, <3>1 DEF FailureInv, FailureSettlesOutputs, Launching
  <2>6. CASE TryLaunch(Holders)
    <3>1. failures' = failures /\ live' = live /\ launched' = launched + 1 /\ spc' = "state"
      BY <2>6 DEF TryLaunch, Step
    <3>. QED  BY <1>0, <2>1, <3>1 DEF FailureInv, FailureSettlesOutputs, Launching
  <2>7. CASE ReapGroup \/ ClearGroups
    BY <2>2, <2>7 DEF ReapGroup, StopGroup, ReapWorker, ClearGroups, ClearGPUs, Step, Launching
  <2>8. CASE LaunchFails \/ ControllerDies \/ Shutdown
    BY <2>2, <2>8 DEF LaunchFails, ControllerDies, Shutdown, Launching
  <2>9. CASE StartController \/ LaunchRefused(Holders) \/ WriteLoading \/ WriteOwner
               \/ ReportLoading \/ WriteStopped
    BY <2>2, <2>9 DEF StartController, LaunchRefused, WriteLoading, WriteOwner,
                      ReportLoading, WriteStopped, Step, Launching
  <2>10. CASE RecoverCancelled \/ RecoverFailed(Silent) \/ ReportReady \/ FailCommand
    BY <2>2, <2>10 DEF RecoverCancelled, RecoverFailed, BeginRecover, ReportReady,
                      FailCommand, Step, Launching
  <2>. QED
    BY <1>4, <2>3, <2>4, <2>5, <2>6, <2>7, <2>8, <2>9, <2>10 DEF SupervisorAny, SupervisorLocal
<1>. QED  BY <1>1, <1>2, <1>3, <1>4, NextShape

(* A recorded failure is a dead group that owes nobody an answer.          *)
THEOREM FailureSettles == AttendedSpec => []FailureSettlesOutputs
<1>1. Init => FailureInv
  BY DEF Init, MailboxInit, SupervisorInit, FailureInv, FailureSettlesOutputs, Launching
<1>2. TypeOK /\ CoreInv /\ GroupInv /\ FailureInv /\ [Next /\ Attended']_vars => FailureInv'
  <2>1. [Next /\ Attended']_vars => [Next]_vars
    OBVIOUS
  <2>. QED  BY <2>1, FailureStep
<1>3. FailureInv => FailureSettlesOutputs
  BY DEF FailureInv
<1>. QED  BY <1>1, <1>2, <1>3, Grouped, PTL DEF AttendedSpec

-----------------------------------------------------------------------------
(* No client has read of an instance before it is launched.                *)
LEMMA LaunchStep ==
  ASSUME TypeOK, CoreInv, LaunchInv, [Next]_vars
  PROVE  LaunchInv'
<1>0. /\ launched \in Nat /\ live \subseteq Instances /\ \A g \in Instances : g \in Nat
      /\ \A c \in Requests : cinst[c] \in Nat
      /\ ClientTypeOK
  BY DEF TypeOK, MailboxTypeOK, ClientTypeOK, SupervisorTypeOK, MaybeInstance, Instances
<1>1. ASSUME UNCHANGED <<cinst, launched>>, spc' \in Launching => spc \in Launching
      PROVE  LaunchInv'
  BY <1>1 DEF LaunchInv
<1>2. CASE UNCHANGED vars
  BY <1>1, <1>2 DEF vars, clientVars, supervisorVars
<1>3. ASSUME NEW c \in Requests, ClientNext(c) \/ Abandon(c),
             UNCHANGED <<workerVars, supervisorVars>>
      PROVE  LaunchInv'
  <2>1. CASE cinst' = cinst
    BY <1>1, <1>3, <2>1 DEF supervisorVars
  <2>2. CASE Moves(c) /\ Ready /\ cinst' = [cinst EXCEPT ![c] = state.inst]
    <3>1. state.inst \in live
      BY <2>2 DEF Ready
    <3>2. state.inst <= launched /\ (spc \in Launching => state.inst # launched)
      BY <3>1 DEF CoreInv
    <3>. QED  BY <1>0, <1>3, <2>2, <3>2 DEF LaunchInv, supervisorVars, ClientTypeOK
  <2>. QED
    BY <1>3, <2>1, <2>2, ClientShape DEF Ends, End, Publish, WriteCancel, Moves
<1>4. ASSUME NEW g \in Instances, WorkerAny(g), UNCHANGED <<clientVars, supervisorVars>>
      PROVE  LaunchInv'
  BY <1>1, <1>4 DEF clientVars, supervisorVars
<1>5. CASE TryLaunch(Holders) /\ UNCHANGED clientVars
  <2>1. launched' = launched + 1 /\ cinst' = cinst
    BY <1>5 DEF TryLaunch, clientVars
  <2>. QED  BY <1>0, <2>1 DEF LaunchInv
<1>6. CASE SupervisorAny /\ UNCHANGED clientVars /\ ~TryLaunch(Holders)
  <2>1. launched' = launched /\ (spc' \in Launching => spc \in Launching)
    BY <1>6 DEF SupervisorAny, SupervisorLocal, StartController, LaunchRefused, WriteLoading,
         WriteOwner, ReportLoading, RecoverCancelled, RecoverFailed, BeginRecover, ReportReady,
         FailCommand, FailReceipts, RecordFailure, WriteStopped, LaunchFails, ControllerDies,
         Shutdown, LaunchGroup, Popen, ReapGroup, ClearGroups, StopGroup, ReapWorker, ClearGPUs,
         Step, Launching
  <2>. QED  BY <1>1, <1>6, <2>1 DEF clientVars
<1>. QED  BY <1>2, <1>3, <1>4, <1>5, <1>6, NextShape

(* A request has no result before it is published.                         *)
LEMMA FreshStep ==
  ASSUME TypeOK, CoreInv, AddressInv, FreshInv, [Next]_vars
  PROVE  FreshInv'
<1>0. ClientTypeOK /\ Main \in Ranks /\ 0 \notin Instances
  BY WorkerAssumption DEF TypeOK, Instances
<1>1. CASE UNCHANGED vars
  BY <1>1 DEF vars, mailVars, clientVars, FreshInv, Fresh
<1>2. ASSUME NEW c \in Requests, ClientNext(c) \/ Abandon(c)  PROVE FreshInv'
  <2>1. results' = results
    BY <1>2, ClientFrame
  <2>2. \A d \in Requests : cpc'[d] \in FreshPCs => cpc[d] \in FreshPCs
    <3>1. CASE Ends(c)
      BY <1>0, <3>1 DEF Ends, End, FreshPCs, ClientTypeOK
    <3>2. CASE Publish(c) \/ WriteCancel(c)
      BY <1>0, <3>2 DEF Publish, WriteCancel, Goto, FreshPCs, ClientTypeOK
    <3>3. CASE Moves(c)
      BY <1>0, <3>3 DEF Moves, Fresh, FreshPCs, ClientTypeOK
    <3>. QED  BY <1>2, <3>1, <3>2, <3>3, ClientShape
  <2>. QED  BY <2>1, <2>2 DEF FreshInv, Fresh
<1>3. ASSUME NEW g \in Instances, WorkerAny(g), UNCHANGED <<clientVars, supervisorVars>>
      PROVE  FreshInv'
  <2>1. ASSUME NEW t \in Requests, Fresh(t)
        PROVE  /\ outputs[g][t] # "encoding"
               /\ ~(last[g][Main] = t /\ rpc[g][Main] \in {"finish", "reporting"})
    BY <1>0, <2>1 DEF AddressInv, Sent, Engaged, Serving
  <2>2. ASSUME NEW t \in Requests, Fresh(t)  PROVE results'[t] = "none"
    BY <1>3, <2>1, <2>2, WorkerWrites DEF FreshInv
  <2>. QED  BY <1>3, <2>2 DEF FreshInv, Fresh, clientVars
<1>4. CASE SupervisorAny /\ UNCHANGED clientVars
  <2>1. ASSUME NEW t \in Requests, Fails(t), instance # 0  PROVE ~Fresh(t)
    BY <2>1, MailboxAssumption DEF Fails, AddressInv, Sent
  <2>2. ASSUME NEW t \in Requests, Fresh(t)  PROVE results'[t] = "none"
    BY <1>4, <2>1, <2>2, SupervisorShape DEF FreshInv
  <2>. QED  BY <1>4, <2>2 DEF FreshInv, Fresh, clientVars
<1>. QED  BY <1>1, <1>2, <1>3, <1>4, NextShape

(* The main rank leaves its request alone once the receipt is written, and *)
(* takes another one only from the command.                                *)
LEMMA MainKeeps ==
  ASSUME TypeOK, NEW g \in Instances, WorkerAny(g), "disk" \notin Faults
  PROVE  /\ rpc[g][Main] = "receipt" => rpc'[g][Main] \notin Busy
         /\ g \in live' => last'[g][Main] \in {last[g][Main], command.token}
<1>0. Main \in Ranks /\ WorkerTypeOK
  BY WorkerAssumption DEF TypeOK
<1>1. CASE LoadModels(g) \/ Loaded(g) \/ RunCompletes(g)
  BY <1>0, <1>1 DEF LoadModels, Loaded, RunCompletes
<1>2. CASE Reserve(g) \/ ReportIdle(g) \/ WriteResult(g) \/ SubmitOutput(g) \/ WriteReceipt(g)
  BY <1>0, <1>2 DEF Reserve, ReportIdle, WriteResult, SubmitOutput, WriteReceipt, RankStep,
                    WorkerTypeOK, Busy, Engaged, Serving
<1>3. CASE ReportFailedState(g) \/ WriteFailedResult(g)
  BY <1>0, <1>3 DEF ReportFailedState, WriteFailedResult, RankStep
<1>4. CASE GroupExits(g)
  BY <1>0, <1>4 DEF GroupExits, KillRanks, AllOff, Busy, Engaged, Serving
<1>5. ASSUME NEW r \in Ranks, ReadLaunch(g, r) \/ Accept(g, r) \/ WriteError(g, r) \/ Exit(g, r)
      PROVE  /\ rpc[g][Main] = "receipt" => rpc'[g][Main] = "receipt"
             /\ last'[g][Main] \in {last[g][Main], command.token}
  BY <1>0, <1>5 DEF ReadLaunch, Accept, WriteError, Exit, RankStep, WorkerTypeOK
<1>6. ASSUME NEW r \in Ranks, RankRaises(g, r) \/ RankDies(g, r)
      PROVE  /\ rpc[g][Main] = "receipt" => rpc'[g][Main] \in {"receipt", "down"}
             /\ last' = last
  BY <1>0, <1>6 DEF RankRaises, RankDies, WorkerTypeOK
<1>7. CASE \E t \in Requests : ReleaseSlot(g, t) \/ \E v \in Verdicts : CompleteOutput(g, t, v)
  BY <1>7 DEF ReleaseSlot, CompleteOutput, Busy
<1>. QED
  BY <1>1, <1>2, <1>3, <1>4, <1>5, <1>6, <1>7 DEF WorkerAny, WorkerNext, Busy, Engaged, Serving

(* What the main rank serves, and what it is about to serve, is open: a    *)
(* step of a group settles only requests sent to it, a step of the         *)
(* controller only requests sent to a group that is dead.                  *)
LEMMA ServeStep ==
  ASSUME TypeOK, CoreInv, GroupInv, AddressInv, LaunchInv, FreshInv, ServeInv,
         "disk" \notin Faults, [Next]_vars
  PROVE  ServeInv'
<1>0. Main \in Ranks /\ MailboxTypeOK /\ WorkerTypeOK /\ 0 \notin Instances
  BY WorkerAssumption DEF TypeOK, Instances
<1>1. /\ \A g \in Instances : \A t \in Requests : outputs[g][t] # "none" => Sent(t, g)
      /\ \A g \in Instances : rpc[g][Main] \in Busy => Sent(last[g][Main], g)
      /\ \A g \in Instances : command.inst = g => Sent(command.token, g)
  BY <1>0 DEF AddressInv, Busy
<1>2. ASSUME NEW g \in Instances, NEW h \in Instances, NEW t, Sent(t, g), Sent(t, h)
      PROVE  g = h
  BY <1>2 DEF Sent
<1>3. ASSUME NEW g \in Instances, command' = command, live' \subseteq live,
             rpc'[g] = rpc[g], last'[g] = last[g], outputs'[g] = outputs[g],
             \A t \in Requests : Sent(t, g) => results'[t] = results[t] \/ g \notin live
      PROVE  /\ \A t \in Requests : outputs'[g][t] = "encoding" => results'[t] = "none"
             /\ rpc'[g][Main] \in Busy => Open(g, last[g][Main])'
             /\ g \in live' /\ command'.inst = g /\ command'.token # last'[g][Main] =>
                  Open(g, command.token)'
  <2>1. CASE g \in live
    <3>1. \A t \in Requests : outputs[g][t] = "encoding" => results'[t] = "none"
      BY <1>1, <1>3, <2>1 DEF ServeInv
    <3>2. rpc[g][Main] \in Busy =>
            results'[last[g][Main]] = "none" /\ outputs'[g][last[g][Main]] = "none"
      BY <1>1, <1>3, <2>1 DEF ServeInv, Open, Sent
    <3>3. command.inst = g /\ command.token # last[g][Main] =>
            results'[command.token] = "none" /\ outputs'[g][command.token] = "none"
      BY <1>1, <1>3, <2>1 DEF ServeInv, Open, Sent
    <3>. QED  BY <1>3, <3>1, <3>2, <3>3 DEF Open
  <2>2. CASE g \notin live
    <3>1. rpc'[g] = AllOff /\ outputs'[g] = NoOutputs /\ g \notin live'
      BY <1>3, <2>2 DEF CoreInv
    <3>. QED  BY <1>0, <3>1 DEF AllOff, NoOutputs, Busy, Engaged, Serving
  <2>. QED  BY <2>1, <2>2
<1>4. CASE UNCHANGED vars
  BY <1>4 DEF vars, mailVars, workerVars, ServeInv, Open
<1>5. ASSUME NEW c \in Requests, ClientNext(c) \/ Abandon(c),
             UNCHANGED <<workerVars, supervisorVars>>
      PROVE  ServeInv'
  <2>1. UNCHANGED <<results, live, rpc, last, outputs>>
    BY <1>5, ClientFrame DEF workerVars
  <2>2. CASE command' = command
    BY <2>1, <2>2 DEF ServeInv, Open
  <2>3. CASE Publish(c)
    <3>1. command'.token = c /\ Fresh(c)
      BY <2>3 DEF Publish, Goto, Fresh, FreshPCs
    <3>2. results[c] = "none" /\ \A g \in Instances : outputs[g][c] = "none"
      BY <1>1, <3>1 DEF FreshInv, Sent
    <3>. QED  BY <2>1, <3>1, <3>2 DEF ServeInv, Open
  <2>. QED
    BY <1>5, <2>2, <2>3, ClientShape DEF Ends, End, WriteCancel, Moves, mailVars
<1>6. ASSUME NEW g \in Instances, WorkerAny(g), UNCHANGED <<clientVars, supervisorVars>>
      PROVE  ServeInv'
  <2>0. g \in live /\ Frame(g) /\ command' = command /\ live' \subseteq live
    BY <1>6, WorkerShape DEF Frame, GroupExits
  <2>1. ASSUME NEW t \in Requests, results'[t] # results[t]
        PROVE  /\ Sent(t, g)
               /\ \/ outputs[g][t] = "encoding" /\ outputs'[g][t] = "written"
                  \/ /\ last[g][Main] = t /\ rpc[g][Main] \in Busy
                     /\ rpc'[g][Main] \in {"poll", "exiting"}
    <3>1. \/ outputs[g][t] = "encoding" /\ outputs'[g][t] = "written"
          \/ /\ last[g][Main] = t /\ rpc[g][Main] \in Busy
             /\ rpc'[g][Main] \in {"poll", "exiting"}
      BY <1>6, <2>1, WorkerWrites DEF Busy, Engaged, Serving
    <3>. QED  BY <1>1, <3>1
  <2>2. ASSUME NEW h \in Instances \ {g}
        PROVE  /\ \A t \in Requests : outputs'[h][t] = "encoding" => results'[t] = "none"
               /\ rpc'[h][Main] \in Busy => Open(h, last[h][Main])'
               /\ h \in live' /\ command'.inst = h /\ command'.token # last'[h][Main] =>
                    Open(h, command.token)'
    BY <1>2, <1>3, <2>0, <2>1 DEF Frame
  <2>3. ASSUME NEW t \in Requests, outputs'[g][t] = "encoding"  PROVE results'[t] = "none"
    <3>1. \/ outputs[g][t] = "encoding"
          \/ last[g][Main] = t /\ rpc[g][Main] = "finish" /\ rpc'[g][Main] = "receipt"
      BY <1>6, <2>3, WorkerWrites
    <3>2. CASE outputs[g][t] = "encoding"
      <4>1. results[t] = "none" /\ ~(last[g][Main] = t /\ rpc[g][Main] \in Busy)
        BY <3>2 DEF ServeInv, Open
      <4>. QED  BY <2>1, <2>3, <4>1
    <3>3. CASE last[g][Main] = t /\ rpc[g][Main] = "finish" /\ rpc'[g][Main] = "receipt"
      <4>1. results[t] = "none" /\ outputs[g][t] = "none"
        BY <3>3 DEF ServeInv, Open, Busy, Engaged, Serving
      <4>. QED  BY <2>1, <3>3, <4>1
    <3>. QED  BY <3>1, <3>2, <3>3
  <2>4. ASSUME NEW t \in Requests, Open(g, t),
               ~(last[g][Main] = t /\ rpc[g][Main] \in Busy) \/ rpc'[g][Main] \in Busy
        PROVE  Open(g, t)'
    <3>1. results[t] = "none" /\ outputs[g][t] = "none"
      BY <2>4 DEF Open
    <3>2. results'[t] = "none"
      BY <2>1, <2>4, <3>1 DEF Busy, Engaged, Serving
    <3>3. outputs'[g][t] = "none"
      BY <1>6, <2>4, <3>1, WorkerWrites DEF Busy, Engaged, Serving
    <3>. QED  BY <3>2, <3>3 DEF Open
  <2>5. ASSUME command.inst = g, command.token # last[g][Main]
        PROVE  Open(g, command.token)'
    <3>1. Open(g, command.token) /\ command.token \in Requests
      BY <1>1, <2>0, <2>5 DEF ServeInv, Sent
    <3>2. Open(g, command.token)' = (results'[command.token] = "none"
                                       /\ outputs'[g][command.token] = "none")
      BY <2>0 DEF Open
    <3>. QED  BY <2>4, <2>5, <3>1, <3>2 DEF Open
  <2>6. ASSUME rpc'[g][Main] \in Busy  PROVE Open(g, last[g][Main])'
    <3>1. CASE rpc[g][Main] \in Engaged /\ last'[g][Main] = last[g][Main]
      <4>1. rpc[g][Main] \in Busy
        BY <1>6, <2>6, <3>1, MainKeeps DEF Busy
      <4>2. Open(g, last[g][Main]) /\ last[g][Main] \in Requests
        BY <1>1, <4>1 DEF ServeInv, Sent
      <4>3. results'[last[g][Main]] = "none" /\ outputs'[g][last[g][Main]] = "none"
        BY <2>4, <2>6, <4>2 DEF Open
      <4>. QED  BY <3>1, <4>3 DEF Open
    <3>2. CASE Takes(g, Main)
      <4>1. command.inst = g /\ command.token # last[g][Main] /\ last'[g][Main] = command.token
        BY <1>0, <3>2 DEF Takes, GroupInv, Knowing
      <4>. QED  BY <2>0, <2>5, <4>1 DEF Open
    <3>. QED
      BY <1>0, <1>6, <2>6, <3>1, <3>2, WorkerTakes DEF Busy
  <2>7. ASSUME g \in live', command.inst = g, command.token # last'[g][Main]
        PROVE  Open(g, command.token)'
    BY <1>6, <2>5, <2>7, MainKeeps
  <2>. QED  BY <2>0, <2>2, <2>3, <2>6, <2>7 DEF ServeInv
<1>7. CASE SupervisorAny /\ UNCHANGED clientVars
  <2>0. command' = command
    BY <1>7, SupervisorShape
  <2>1. CASE UNCHANGED workerVars /\ live' \subseteq live
    <3>1. ASSUME NEW t \in Requests, NEW g \in Instances, Sent(t, g), results'[t] # results[t]
          PROVE  g \notin live
      <4>1. instance # 0 /\ instance \notin live /\ Fails(t)
        BY <1>7, <3>1, SupervisorShape
      <4>2. Sent(t, instance)
        BY <4>1, MailboxAssumption DEF Fails, AddressInv
      <4>. QED  BY <3>1, <4>1, <4>2 DEF Sent
    <3>2. ASSUME NEW g \in Instances
          PROVE  /\ \A t \in Requests : outputs'[g][t] = "encoding" => results'[t] = "none"
                 /\ rpc'[g][Main] \in Busy => Open(g, last[g][Main])'
                 /\ g \in live' /\ command'.inst = g /\ command'.token # last'[g][Main] =>
                      Open(g, command.token)'
      BY <1>3, <2>0, <2>1, <3>1 DEF workerVars
    <3>. QED  BY <3>2 DEF ServeInv
  <2>2. ASSUME NEW dead, KillRanks(dead), live' = live \ dead, results' = results
        PROVE  ServeInv'
    <3>1. ASSUME NEW g \in Instances, g \notin dead
          PROVE  rpc'[g] = rpc[g] /\ last'[g] = last[g] /\ outputs'[g] = outputs[g]
      BY <2>2, <3>1 DEF KillRanks
    <3>2. ASSUME NEW g \in Instances, g \in dead
          PROVE  rpc'[g] = AllOff /\ outputs'[g] = NoOutputs /\ g \notin live'
      BY <2>2, <3>2 DEF KillRanks
    <3>3. ASSUME NEW g \in Instances
          PROVE  /\ \A t \in Requests : outputs'[g][t] = "encoding" => results'[t] = "none"
                 /\ rpc'[g][Main] \in Busy => Open(g, last[g][Main])'
                 /\ g \in live' /\ command'.inst = g /\ command'.token # last'[g][Main] =>
                      Open(g, command.token)'
      <4>1. CASE g \in dead
        BY <1>0, <3>2, <4>1 DEF AllOff, NoOutputs, Busy, Engaged, Serving
      <4>2. CASE g \notin dead
        BY <1>3, <2>0, <2>2, <3>1, <4>2
      <4>. QED  BY <4>1, <4>2
    <3>. QED  BY <3>3 DEF ServeInv
  <2>3. CASE LaunchGroup
    <3>0. /\ results' = results /\ live' = live \union {launched} /\ spc \in Launching
          /\ outputs' = outputs /\ last' = last
          /\ \A g \in Instances \ {launched} : rpc'[g] = rpc[g]
          /\ launched \in Instances =>
               rpc'[launched][Main] = "starting" /\ outputs[launched] = NoOutputs
      BY <1>0, <2>3 DEF LaunchGroup, Popen, StartRanks, Step, Launching, WorkerTypeOK, CoreInv
    <3>1. command.inst # launched \/ launched \notin Instances
      BY <1>1, <3>0 DEF Sent, LaunchInv
    <3>. QED
      BY <2>0, <3>0, <3>1 DEF ServeInv, Open, NoOutputs, Busy, Engaged, Serving
  <2>4. \/ UNCHANGED workerVars /\ live' \subseteq live
        \/ \E dead : KillRanks(dead) /\ live' = live \ dead /\ results' = results
        \/ LaunchGroup
    BY <1>7, SupervisorShape
  <2>. QED  BY <2>1, <2>2, <2>3, <2>4
<1>. QED  BY <1>4, <1>5, <1>6, <1>7, NextShape

(* The inductive invariant of what is said about results.                  *)
IInv ==
  TypeOK /\ CoreInv /\ GroupInv /\ AddressInv /\ LaunchInv /\ FreshInv /\ ServeInv /\ AnswerInv

(* A caller is told of success only when its request has succeeded: the    *)
(* step of the induction.                                                  *)
LEMMA AnswerStep ==
  ASSUME TypeOK, AnswerInv, [Next]_vars
  PROVE  AnswerInv'
<1>0. ClientTypeOK
  BY DEF TypeOK
<1>1. CASE UNCHANGED clientVars
  BY <1>1 DEF clientVars, AnswerInv
<1>2. ASSUME NEW c \in Requests, ClientNext(c) \/ Abandon(c)  PROVE AnswerInv'
  <2>1. CASE Ends(c)
    BY <1>0, <2>1 DEF Ends, End, AnswerInv, ClientTypeOK
  <2>2. CASE Publish(c) \/ WriteCancel(c)
    BY <1>0, <2>2 DEF Publish, WriteCancel, Goto, AnswerInv, ClientTypeOK
  <2>3. CASE Moves(c)
    BY <1>0, <2>3 DEF Moves, AnswerInv, ClientTypeOK
  <2>. QED  BY <1>2, <2>1, <2>2, <2>3, ClientShape
<1>. QED  BY <1>1, <1>2, NextShape DEF vars

(* The invariant about results is inductive, as long as receipts can be    *)
(* written.                                                                *)
LEMMA Inductive ==
  ASSUME "disk" \notin Faults
  PROVE  AttendedSpec => []IInv
<1>1. Init => IInv
  <2> SUFFICES ASSUME Init PROVE IInv
    OBVIOUS
  <2>1. LaunchInv
    BY DEF Init, ClientInit, SupervisorInit, LaunchInv, Launching
  <2>2. FreshInv /\ AnswerInv
    BY DEF Init, MailboxInit, ClientInit, FreshInv, AnswerInv
  <2>3. ServeInv
    <3>1. /\ live = {} /\ Main \in Ranks
          /\ \A g \in Instances : rpc[g] = AllOff /\ outputs[g] = NoOutputs
      BY WorkerAssumption DEF Init, MailboxInit, WorkerInit
    <3>. QED  BY <3>1 DEF ServeInv, AllOff, NoOutputs, Busy, Engaged, Serving
  <2>. QED  BY <2>1, <2>2, <2>3, CoreInit, GroupInit, AddressInit DEF IInv
<1>2. IInv /\ [Next /\ Attended']_vars => IInv'
  <2>1. [Next /\ Attended']_vars => [Next]_vars
    OBVIOUS
  <2>. QED
    BY <2>1, TypeStep, CoreStep, GroupStep, AddressStep, LaunchStep, FreshStep, ServeStep,
       AnswerStep DEF IInv
<1>. QED  BY <1>1, <1>2, PTL DEF AttendedSpec

(* A step never changes a result that is there.                            *)
LEMMA FinalStep ==
  ASSUME IInv, [Next]_vars, NEW t \in Requests, results[t] # "none"
  PROVE  results'[t] = results[t]
<1>0. TypeOK /\ CoreInv
  BY DEF IInv
<1>1. CASE UNCHANGED vars
  BY <1>1 DEF vars, mailVars
<1>2. ASSUME NEW c \in Requests, ClientNext(c) \/ Abandon(c)  PROVE results' = results
  BY <1>0, <1>2, ClientFrame
<1>3. ASSUME NEW g \in Instances, WorkerAny(g)  PROVE results'[t] = results[t]
  <2>1. outputs[g][t] # "encoding"
    BY DEF IInv, ServeInv
  <2>2. ~(last[g][Main] = t /\ rpc[g][Main] \in {"finish", "reporting"})
    BY DEF IInv, ServeInv, Open, Busy, Engaged, Serving
  <2>. QED  BY <1>0, <1>3, <2>1, <2>2, WorkerWrites
<1>4. CASE SupervisorAny
  BY <1>0, <1>4, SupervisorShape DEF Fails
<1>. QED  BY <1>0, <1>1, <1>2, <1>3, <1>4, NextShape

(* No result is ever written twice, as long as receipts can be written.    *)
THEOREM Final ==
  ASSUME "disk" \notin Faults
  PROVE  AttendedSpec => ResultsAreFinal
<1>1. IInv /\ [Next /\ Attended']_vars
        => [\A t \in Requests : results[t] # "none" => results'[t] = results[t]]_vars
  <2>1. [Next /\ Attended']_vars => [Next]_vars
    OBVIOUS
  <2>. QED  BY <2>1, FinalStep
<1>. QED  BY <1>1, Inductive, PTL DEF AttendedSpec, ResultsAreFinal

(* Every step of the service settles requests that had no verdict, or      *)
(* answers one caller, or changes neither.                                 *)
LEMMA LedgerStep ==
  ASSUME IInv, [Next]_vars
  PROVE  [Ledger!Next]_(Ledger!ledgerVars)
<1>0. TypeOK /\ CoreInv /\ TypeOK' /\ AnswerInv
  BY TypeStep DEF IInv
<1>1. ASSUME outcome' = outcome  PROVE Ledger!Next
  <2>1. Ledger!Settle
    BY <1>0, <1>1, FinalStep DEF TypeOK, MailboxTypeOK, Ledger!Settle, Ledger!Verdict, Verdicts
  <2>. QED  BY <2>1 DEF Ledger!Next
<1>2. ASSUME NEW c \in Requests, ClientNext(c) \/ Abandon(c)  PROVE Ledger!Next
  <2>1. results' = results
    BY <1>0, <1>2, ClientFrame
  <2>2. ASSUME NEW v \in Verdicts, v = "ok" => results[c] = "ok", cpc[c] # "done",
               outcome' = [outcome EXCEPT ![c] = v]
        PROVE  Ledger!Next
    <3>1. outcome[c] = "none"
      BY <1>0, <2>2 DEF AnswerInv
    <3>2. Ledger!Answer(c)
      BY <2>1, <2>2, <3>1 DEF Ledger!Answer, Ledger!Verdict, Verdicts
    <3>. QED  BY <3>2 DEF Ledger!Next
  <2>3. CASE Ends(c)
    BY <2>2, <2>3 DEF Ends, End
  <2>4. CASE WriteCancel(c)
    BY <2>2, <2>4 DEF WriteCancel, Goto, Verdicts
  <2>5. CASE Publish(c) \/ Moves(c)
    BY <1>1, <2>5 DEF Publish, Moves
  <2>. QED  BY <1>0, <1>2, <2>3, <2>4, <2>5, ClientShape
<1>3. CASE UNCHANGED clientVars
  BY <1>1, <1>3 DEF clientVars
<1>4. CASE UNCHANGED vars
  BY <1>4 DEF vars, mailVars, clientVars, Ledger!ledgerVars
<1>. QED  BY <1>0, <1>2, <1>3, <1>4, NextShape

(* The service implements the ledger of Ledger.tla, as long as receipts    *)
(* can be written: a request gets at most one verdict, and its caller is   *)
(* told of success only if that verdict is success.                        *)
THEOREM Refinement ==
  ASSUME "disk" \notin Faults
  PROVE  AttendedSpec => RefinesLedger
<1>1. Init => Ledger!Init
  BY DEF Init, MailboxInit, ClientInit, Ledger!Init
<1>2. IInv /\ [Next /\ Attended']_vars => [Ledger!Next]_(Ledger!ledgerVars)
  <2>1. [Next /\ Attended']_vars => [Next]_vars
    OBVIOUS
  <2>. QED  BY <2>1, LedgerStep
<1>. QED  BY <1>1, <1>2, Inductive, PTL DEF AttendedSpec, RefinesLedger, Ledger!Spec

-----------------------------------------------------------------------------
(* The completions of a group, and what it still owes a result: the        *)
(* receipts that wait for one.                                             *)
Held(g) == {t \in Requests : outputs[g][t] # "none"}
Owed(g) == {t \in Requests : gpu_results[t] = g /\ results[t] = "none"}

(* The main rank may still take a slot, or give it to a completion.        *)
InLoop == {"starting", "joining", "loading", "poll"} \union Serving
BeforeSubmit == {"slot", "run", "ran", "finish"}
Gone == {"off", "down"}

(* Slots are free, held by completions or about to be handed to one; a     *)
(* group that is not alive has all of them.                                *)
Reserved(g) == IF HoldsSlot(g) THEN 1 ELSE 0
Sums(g) ==
  /\ IsFiniteSet(Held(g))
  /\ slots[g] + Cardinality(Held(g)) <= Capacity
  /\ rpc[g][Main] \in InLoop => slots[g] + Cardinality(Held(g)) + Reserved(g) = Capacity
  /\ g \notin live => slots[g] = Capacity

(* As long as the main rank is there, a receipt without a result has its   *)
(* completion under way; so has the receipt that is about to be written.   *)
Promised(g) ==
  /\ rpc[g][Main] \notin Gone => \A t \in Owed(g) : outputs[g][t] = "encoding"
  /\ rpc[g][Main] = "receipt" /\ results[last[g][Main]] = "none" =>
       outputs[g][last[g][Main]] = "encoding"

(* A request is never submitted twice: what the main rank serves, and what *)
(* it is about to accept, has no completion.                               *)
Unsubmitted(g) ==
  /\ rpc[g][Main] = "slot" => last[g][Main] \in Deferred
  /\ rpc[g][Main] \in BeforeSubmit => outputs[g][last[g][Main]] = "none"
  /\ rpc[g][Main] \in InLoop /\ command.inst = g /\ command.token # last[g][Main] =>
       outputs[g][command.token] = "none"

Bounded(g) == IsFiniteSet(Unfinished(g)) /\ Cardinality(Unfinished(g)) <= Capacity

SlotInv ==
  \A g \in Instances : Sums(g) /\ Promised(g) /\ Unsubmitted(g) /\ Bounded(g)

-----------------------------------------------------------------------------
(* Results are only added, and receipts of a group only by the group: what *)
(* a group owes only shrinks.                                              *)
Settles(g) ==
  /\ \A t \in Requests : results[t] # "none" => results'[t] # "none"
  /\ \A t \in Requests : gpu_results'[t] = g => gpu_results[t] = g

(* What shrinks stays within the bound.                                    *)
LEMMA BoundShrinks ==
  ASSUME NEW g \in Instances, Capacity \in Nat, Bounded(g), Settles(g),
         Held(g)' \subseteq Held(g)
  PROVE  Bounded(g)'
<1>1. Unfinished(g)' \subseteq Unfinished(g)
  BY DEF Unfinished, Settles, Held
<1>2. /\ IsFiniteSet(Unfinished(g)')
      /\ Cardinality(Unfinished(g)') <= Cardinality(Unfinished(g))
      /\ Cardinality(Unfinished(g)) \in Nat /\ Cardinality(Unfinished(g)') \in Nat
  BY <1>1, FS_Subset, FS_CardinalityType DEF Bounded
<1>. QED  BY <1>2 DEF Bounded

(* A step that does not touch a group keeps its slots.                     *)
LEMMA SlotsKept ==
  ASSUME TypeOK, AddressInv, NEW g \in Instances, Settles(g),
         Sums(g), Promised(g), Unsubmitted(g), Bounded(g),
         slots'[g] = slots[g], outputs'[g] = outputs[g], rpc'[g] = rpc[g], last'[g] = last[g],
         g \notin live' => g \notin live,
         command' = command \/ outputs[g][command'.token] = "none"
  PROVE  Sums(g)' /\ Promised(g)' /\ Unsubmitted(g)' /\ Bounded(g)'
<1>1. Held(g)' = Held(g) /\ Owed(g)' \subseteq Owed(g) /\ Reserved(g)' = Reserved(g)
  BY DEF Held, Owed, Settles, Reserved, HoldsSlot
<1>2. Sums(g)' /\ Unsubmitted(g)'
  BY <1>1 DEF Sums, Unsubmitted
<1>3. Promised(g)'
  <2>1. rpc[g][Main] = "receipt" => last[g][Main] \in Requests
    BY WorkerAssumption DEF AddressInv, Sent, Engaged, Serving
  <2>2. rpc[g][Main] = "receipt" /\ results'[last[g][Main]] = "none" =>
          results[last[g][Main]] = "none"
    BY <2>1 DEF Settles
  <2>. QED  BY <1>1, <2>2 DEF Promised
<1>4. Bounded(g)'
  BY <1>1, BoundShrinks, WorkerAssumption
<1>. QED  BY <1>2, <1>3, <1>4

(* SIGKILL takes the completions of a group and gives a new one all slots. *)
LEMMA SlotsOfDead ==
  ASSUME TypeOK, NEW g \in Instances, NEW dead, g \in dead, KillRanks(dead), Settles(g),
         Bounded(g)
  PROVE  Sums(g)' /\ Promised(g)' /\ Unsubmitted(g)' /\ Bounded(g)'
<1>0. Main \in Ranks /\ Capacity \in Nat
  BY WorkerAssumption
<1>1. rpc'[g] = AllOff /\ outputs'[g] = NoOutputs /\ slots'[g] = Capacity
  BY DEF KillRanks
<1>2. Held(g)' = {} /\ rpc'[g][Main] = "off"
  BY <1>0, <1>1 DEF Held, NoOutputs, AllOff
<1>3. Sums(g)'
  BY <1>0, <1>1, <1>2, FS_EmptySet DEF Sums, InLoop, Serving
<1>4. Promised(g)' /\ Unsubmitted(g)'
  BY <1>2 DEF Promised, Unsubmitted, Gone, InLoop, BeforeSubmit, Serving
<1>. QED  BY <1>0, <1>2, <1>3, <1>4, BoundShrinks

(* A step of a group: it settles nothing of another group's receipts.      *)
LEMMA WorkerSettles ==
  ASSUME TypeOK, CoreInv, GroupInv, NEW g \in Instances, WorkerAny(g), NEW h \in Instances \ {g}
  PROVE  Settles(h)
<1>1. \A t \in Requests : results[t] # "none" => results'[t] # "none"
  BY WorkerWrites DEF Verdicts
<1>2. \A t \in Requests : gpu_results'[t] \in {gpu_results[t], g}
  BY WorkerWrites, WorkerAssumption DEF GroupInv, Knowing, Serving
<1>. QED  BY <1>1, <1>2 DEF Settles

(* The main rank moves on, or is on its way out, and touches no slot.      *)
Advances(g) ==
  /\ \/ rpc'[g][Main] = rpc[g][Main]
     \/ rpc[g][Main] = "starting" /\ rpc'[g][Main] = "joining"
     \/ rpc[g][Main] = "joining" /\ rpc'[g][Main] = "loading"
     \/ rpc[g][Main] = "loading" /\ rpc'[g][Main] = "poll"
     \/ rpc[g][Main] = "run" /\ rpc'[g][Main] = "ran"
     \/ rpc[g][Main] = "ran" /\ rpc'[g][Main] = "finish"
     \/ rpc[g][Main] \notin Gone
        /\ rpc'[g][Main] \in {"raising", "reporting", "exiting", "leaving", "down"}
  /\ last'[g][Main] = last[g][Main]
  /\ UNCHANGED <<outputs, slots, results, gpu_results, command, live>>

LEMMA SlotsAdvance ==
  ASSUME TypeOK, NEW g \in Instances, g \in live, Advances(g),
         Sums(g), Promised(g), Unsubmitted(g), Bounded(g)
  PROVE  Sums(g)' /\ Promised(g)' /\ Unsubmitted(g)' /\ Bounded(g)'
<1>1. Held(g)' = Held(g) /\ Owed(g)' = Owed(g) /\ Settles(g)
  BY DEF Held, Owed, Settles, Advances
<1>2. rpc'[g][Main] \in InLoop => rpc[g][Main] \in InLoop /\ Reserved(g)' = Reserved(g)
  BY DEF Advances, InLoop, Serving, Reserved, HoldsSlot
<1>3. Sums(g)'
  BY <1>1, <1>2 DEF Sums, Advances
<1>4. Promised(g)'
  <2>1. rpc'[g][Main] \notin Gone => rpc[g][Main] \notin Gone
    BY DEF Advances, Gone
  <2>2. rpc'[g][Main] = "receipt" => rpc[g][Main] = "receipt"
    BY DEF Advances
  <2>. QED  BY <1>1, <2>1, <2>2 DEF Promised, Advances
<1>5. Unsubmitted(g)'
  <2>1. rpc'[g][Main] \in BeforeSubmit => rpc[g][Main] \in BeforeSubmit
    BY DEF Advances, BeforeSubmit
  <2>2. rpc'[g][Main] = "slot" => rpc[g][Main] = "slot"
    BY DEF Advances
  <2>. QED  BY <1>2, <2>1, <2>2 DEF Unsubmitted, Advances
<1>6. Bounded(g)'
  BY <1>1, BoundShrinks, WorkerAssumption
<1>. QED  BY <1>3, <1>4, <1>5, <1>6

(* A step of the main rank, or of the pool, on the slots of its own group. *)
LEMMA SlotsOfGroup ==
  ASSUME TypeOK, CoreInv, GroupInv, AddressInv, NEW g \in Instances, WorkerAny(g),
         Sums(g), Promised(g), Unsubmitted(g), Bounded(g)
  PROVE  Sums(g)' /\ Promised(g)' /\ Unsubmitted(g)' /\ Bounded(g)'
<1> DEFINE Kept == Sums(g)' /\ Promised(g)' /\ Unsubmitted(g)' /\ Bounded(g)'
<1>0. /\ Main \in Ranks /\ Capacity \in Nat /\ MailboxTypeOK /\ WorkerTypeOK
      /\ slots[g] \in Nat /\ Cardinality(Held(g)) \in Nat /\ 0 \notin Instances
  BY WorkerAssumption, FS_CardinalityType DEF TypeOK, WorkerTypeOK, Sums, Instances
<1>a. /\ rpc[g][Main] \in Serving => last[g][Main] \in Requests /\ ident[g][Main] = g
      /\ rpc[g][Main] = "poll" => ident[g][Main] = g
      /\ command.inst = g => command.token \in Requests
  BY <1>0 DEF AddressInv, GroupInv, Sent, Engaged, Knowing
<1>b. g \in live /\ (GroupExits(g) \/ live' = live) /\ command' = command
  BY WorkerShape DEF Frame
<1>c. \A t \in Requests : results[t] # "none" => results'[t] # "none"
  BY WorkerWrites DEF Verdicts
<1>d. ASSUME Sums(g)', Promised(g)', rpc'[g][Main] \notin Gone, slots'[g] \in Nat
      PROVE  Bounded(g)'
  <2>1. Unfinished(g)' = Held(g)'
    BY <1>d DEF Unfinished, Held, Owed, Promised
  <2>2. Cardinality(Held(g)') \in Nat
    BY <1>d, FS_CardinalityType DEF Sums
  <2>. QED  BY <1>0, <1>d, <2>1, <2>2 DEF Bounded, Sums
<1>1. CASE LoadModels(g) \/ Loaded(g) \/ RunCompletes(g)
  <2>1. Advances(g)
    BY <1>0, <1>1 DEF LoadModels, Loaded, RunCompletes, mailVars, Advances, WorkerTypeOK
  <2>. QED  BY <1>b, <2>1, SlotsAdvance
<1>2. CASE ReportIdle(g) \/ ReportFailedState(g) \/ ReceiptWriteFails(g)
  <2>1. Advances(g)
    BY <1>0, <1>2 DEF ReportIdle, ReportFailedState, ReceiptWriteFails, RankStep, mailVars,
       Advances, Gone, WorkerTypeOK
  <2>. QED  BY <1>b, <2>1, SlotsAdvance
<1>3. ASSUME NEW r \in Ranks, ReadLaunch(g, r) \/ WriteError(g, r) \/ Exit(g, r)
                                \/ RankRaises(g, r)
      PROVE  Kept
  <2>1. Advances(g)
    BY <1>0, <1>3 DEF ReadLaunch, WriteError, Exit, RankRaises, RankStep, mailVars,
       Advances, Gone, WorkerTypeOK
  <2>. QED  BY <1>b, <2>1, SlotsAdvance
<1>4. ASSUME NEW r \in Ranks, Accept(g, r)  PROVE Kept
  <2>1. CASE r # Main
    <3>1. Advances(g)
      BY <1>0, <1>4, <1>b, <2>1 DEF Accept, RankStep, Advances, WorkerTypeOK
    <3>. QED  BY <1>b, <3>1, SlotsAdvance
  <2>2. CASE r = Main
    <3>0. /\ rpc[g][Main] = "poll" /\ command.token \in Requests
          /\ command.inst = g /\ command.token # last[g][Main]
          /\ rpc'[g][Main] = IF command.token \in Deferred THEN "slot" ELSE "run"
          /\ last'[g][Main] = command.token
          /\ UNCHANGED <<command, outputs, slots, results, gpu_results, live>>
      BY <1>0, <1>4, <1>a, <1>b, <2>2 DEF Accept, RankStep, WorkerTypeOK
    <3>1. Held(g)' = Held(g) /\ Owed(g)' = Owed(g) /\ Reserved(g) = 0 /\ Reserved(g)' = 0
      BY <3>0 DEF Held, Owed, Reserved, HoldsSlot
    <3>2. outputs[g][command.token] = "none"
      BY <3>0 DEF Unsubmitted, InLoop
    <3>3. Sums(g)'
      BY <3>0, <3>1 DEF Sums, InLoop
    <3>4. Promised(g)' /\ rpc'[g][Main] \notin Gone
      BY <3>0, <3>1 DEF Promised, Gone
    <3>5. Unsubmitted(g)'
      BY <3>0, <3>2 DEF Unsubmitted
    <3>. QED  BY <1>0, <1>d, <3>0, <3>3, <3>4, <3>5
  <2>. QED  BY <2>1, <2>2
<1>5. CASE Reserve(g)
  <2>0. /\ rpc[g][Main] = "slot" /\ rpc'[g][Main] = "run" /\ last'[g][Main] = last[g][Main]
        /\ slots'[g] = slots[g] - 1 /\ slots[g] > 0
        /\ UNCHANGED <<command, outputs, results, gpu_results, live>>
    BY <1>0, <1>5 DEF Reserve, RankStep, mailVars, WorkerTypeOK
  <2>1. /\ Held(g)' = Held(g) /\ Owed(g)' = Owed(g)
        /\ last[g][Main] \in Deferred /\ Reserved(g) = 0 /\ Reserved(g)' = 1
    BY <2>0 DEF Held, Owed, Reserved, HoldsSlot, Unsubmitted
  <2>2. Sums(g)'
    BY <1>0, <1>b, <2>0, <2>1 DEF Sums, InLoop, Serving
  <2>3. Promised(g)' /\ rpc'[g][Main] \notin Gone
    BY <2>0, <2>1 DEF Promised, Gone
  <2>4. Unsubmitted(g)'
    BY <2>0 DEF Unsubmitted, BeforeSubmit, InLoop, Serving
  <2>. QED  BY <1>0, <1>d, <2>0, <2>2, <2>3, <2>4
<1>6. CASE WriteResult(g) \/ WriteFailedResult(g)
  <2>0. /\ \/ rpc[g][Main] = "finish" /\ last[g][Main] \notin Deferred /\ rpc'[g][Main] = "poll"
           \/ rpc[g][Main] = "reporting" /\ rpc'[g][Main] = "exiting"
        /\ UNCHANGED <<last, command, slots, outputs, gpu_results, live>>
    BY <1>0, <1>6 DEF WriteResult, WriteFailedResult, RankStep, WorkerTypeOK
  <2>1. /\ Held(g)' = Held(g) /\ Owed(g)' \subseteq Owed(g)
        /\ rpc'[g][Main] \in InLoop => Reserved(g)' = Reserved(g)
    BY <1>c, <2>0 DEF Held, Owed, Reserved, HoldsSlot, InLoop, Serving
  <2>2. Sums(g)'
    BY <1>0, <2>0, <2>1 DEF Sums, InLoop, Serving
  <2>3. Promised(g)' /\ rpc'[g][Main] \notin Gone
    BY <2>0, <2>1 DEF Promised, Gone
  <2>4. Unsubmitted(g)'
    BY <2>0 DEF Unsubmitted, BeforeSubmit, InLoop, Serving
  <2>. QED  BY <1>0, <1>d, <2>0, <2>2, <2>3, <2>4
<1>7. CASE SubmitOutput(g)
  <2> DEFINE t == last[g][Main]
  <2>0. /\ rpc[g][Main] = "finish" /\ rpc'[g][Main] = "receipt"
        /\ t \in Deferred /\ t \in Requests /\ last'[g][Main] = t
        /\ outputs'[g][t] = "encoding"
        /\ \A u \in Requests \ {t} : outputs'[g][u] = outputs[g][u]
        /\ UNCHANGED <<command, slots, results, gpu_results, live>>
    BY <1>0, <1>7, <1>a DEF SubmitOutput, RankStep, mailVars, Serving, WorkerTypeOK
  <2>1. /\ outputs[g][t] = "none" /\ Held(g)' = Held(g) \union {t} /\ t \notin Held(g)
        /\ Owed(g)' = Owed(g) /\ Reserved(g) = 1 /\ Reserved(g)' = 0
    BY <2>0 DEF Held, Owed, Reserved, HoldsSlot, Unsubmitted, BeforeSubmit
  <2>2. IsFiniteSet(Held(g)') /\ Cardinality(Held(g)') = Cardinality(Held(g)) + 1
    BY <2>1, FS_AddElement, SMTT(30) DEF Sums
  <2>3. Sums(g)'
    BY <1>0, <1>b, <2>0, <2>1, <2>2 DEF Sums, InLoop, Serving
  <2>4. Promised(g)' /\ rpc'[g][Main] \notin Gone
    BY <2>0, <2>1 DEF Promised, Owed, Gone
  <2>5. Unsubmitted(g)'
    BY <1>a, <2>0 DEF Unsubmitted, BeforeSubmit, InLoop, Serving
  <2>. QED  BY <1>0, <1>d, <2>0, <2>3, <2>4, <2>5
<1>8. CASE WriteReceipt(g)
  <2> DEFINE t == last[g][Main]
  <2>0. /\ rpc[g][Main] = "receipt" /\ rpc'[g][Main] = "poll" /\ last'[g][Main] = t
        /\ \A u \in Requests \ {t} : gpu_results'[u] = gpu_results[u]
        /\ UNCHANGED <<command, slots, outputs, results, live>>
    BY <1>0, <1>8 DEF WriteReceipt, RankStep, WorkerTypeOK, MailboxTypeOK
  <2>1. /\ Held(g)' = Held(g) /\ Owed(g)' \subseteq Owed(g) \union {t}
        /\ Reserved(g) = 0 /\ Reserved(g)' = 0
    BY <2>0 DEF Held, Owed, Reserved, HoldsSlot
  <2>2. Sums(g)'
    BY <2>0, <2>1 DEF Sums, InLoop, Serving
  <2>3. Promised(g)' /\ rpc'[g][Main] \notin Gone
    BY <2>0, <2>1 DEF Promised, Owed, Gone
  <2>4. Unsubmitted(g)'
    BY <2>0 DEF Unsubmitted, BeforeSubmit, InLoop, Serving
  <2>. QED  BY <1>0, <1>d, <2>0, <2>2, <2>3, <2>4
<1>9. ASSUME NEW t \in Requests, NEW v \in Verdicts, CompleteOutput(g, t, v)
      PROVE  Kept
  <2>0. /\ outputs[g][t] = "encoding" /\ outputs'[g][t] = "written" /\ results'[t] # "none"
        /\ \A u \in Requests \ {t} : outputs'[g][u] = outputs[g][u] /\ results'[u] = results[u]
        /\ UNCHANGED <<command, slots, rpc, last, gpu_results, live>>
    BY <1>0, <1>9 DEF CompleteOutput, Verdicts, WorkerTypeOK, MailboxTypeOK
  <2>1. /\ Held(g)' = Held(g) /\ Owed(g)' \subseteq Owed(g) \ {t} /\ Reserved(g)' = Reserved(g)
        /\ rpc[g][Main] \notin Gone
    BY <1>0, <2>0 DEF Held, Owed, Reserved, HoldsSlot, GroupInv, NoOutputs, Gone
  <2>2. Sums(g)'
    BY <2>0, <2>1 DEF Sums
  <2>3. Promised(g)'
    BY <1>a, <2>0, <2>1 DEF Promised, Owed, Serving
  <2>4. Unsubmitted(g)'
    BY <1>a, <2>0 DEF Unsubmitted, BeforeSubmit, Serving
  <2>. QED  BY <1>0, <1>d, <2>0, <2>1, <2>2, <2>3, <2>4
<1>10. ASSUME NEW t \in Requests, ReleaseSlot(g, t)  PROVE Kept
  <2>0. /\ outputs[g][t] = "written" /\ outputs'[g][t] = "none" /\ slots'[g] = slots[g] + 1
        /\ \A u \in Requests \ {t} : outputs'[g][u] = outputs[g][u]
        /\ UNCHANGED <<command, rpc, last, results, gpu_results, live>>
    BY <1>0, <1>10 DEF ReleaseSlot, mailVars, WorkerTypeOK
  <2>1. /\ Held(g)' = Held(g) \ {t} /\ t \in Held(g) /\ Owed(g)' = Owed(g)
        /\ Reserved(g)' = Reserved(g) /\ rpc[g][Main] \notin Gone
    BY <1>0, <2>0 DEF Held, Owed, Reserved, HoldsSlot, GroupInv, NoOutputs, Gone
  <2>2. IsFiniteSet(Held(g)') /\ Cardinality(Held(g)') = Cardinality(Held(g)) - 1
    BY <2>1, FS_RemoveElement DEF Sums
  <2>3. Reserved(g) \in Nat
    BY DEF Reserved
  <2>4. Sums(g)'
    BY <1>0, <1>b, <2>0, <2>1, <2>2, <2>3 DEF Sums
  <2>5. Promised(g)'
    BY <1>a, <2>0, <2>1 DEF Promised, Owed, Serving
  <2>6. Unsubmitted(g)'
    BY <1>a, <2>0 DEF Unsubmitted, BeforeSubmit, Serving
  <2>. QED  BY <1>0, <1>d, <2>0, <2>1, <2>4, <2>5, <2>6
<1>11. CASE GroupExits(g)
  <2>1. KillRanks({g}) /\ Settles(g)
    BY <1>11 DEF GroupExits, Settles
  <2>. QED  BY <2>1, SlotsOfDead
<1>12. ASSUME NEW r \in Ranks, RankDies(g, r)  PROVE Kept
  <2>1. CASE r # Main
    <3>1. Advances(g)
      BY <1>0, <1>12, <2>1 DEF RankDies, mailVars, Advances, WorkerTypeOK
    <3>. QED  BY <1>b, <3>1, SlotsAdvance
  <2>2. CASE r = Main
    <3>0. /\ rpc'[g][Main] = "down" /\ outputs'[g] = NoOutputs /\ slots'[g] = slots[g]
          /\ UNCHANGED <<results, gpu_results, live>>
      BY <1>0, <1>12, <2>2 DEF RankDies, mailVars, WorkerTypeOK
    <3>1. Held(g)' = {} /\ Settles(g)
      BY <3>0 DEF Held, NoOutputs, Settles
    <3>2. Sums(g)'
      BY <1>0, <1>b, <3>0, <3>1, FS_EmptySet DEF Sums, InLoop, Serving
    <3>3. Promised(g)' /\ Unsubmitted(g)'
      BY <3>0 DEF Promised, Unsubmitted, Gone, InLoop, BeforeSubmit, Serving
    <3>. QED  BY <1>0, <3>1, <3>2, <3>3, BoundShrinks
  <2>. QED  BY <2>1, <2>2
<1>. QED
  BY <1>1, <1>2, <1>3, <1>4, <1>5, <1>6, <1>7, <1>8, <1>9, <1>10, <1>11, <1>12
     DEF WorkerAny, WorkerNext

(* The slots of every group add up: the step of the induction.  A group    *)
(* that starts has all its slots, and nobody has a receipt of it yet.      *)
LEMMA SlotStep ==
  ASSUME TypeOK, CoreInv, GroupInv, AddressInv, LaunchInv, SlotInv, [Next]_vars
  PROVE  SlotInv'
<1>0. /\ Main \in Ranks /\ WorkerTypeOK /\ 0 \notin Instances
      /\ \A g \in Instances : command.inst = g => command.token \in Requests
  BY WorkerAssumption DEF TypeOK, Instances, AddressInv, Sent
<1>1. CASE UNCHANGED vars
  <2>1. UNCHANGED <<slots, outputs, rpc, last, results, gpu_results, live, command>>
    BY <1>1 DEF vars, mailVars, workerVars
  <2>2. \A g \in Instances : Settles(g)
    BY <2>1 DEF Settles
  <2>. QED  BY <2>1, <2>2, SlotsKept DEF SlotInv
<1>2. ASSUME NEW c \in Requests, ClientNext(c) \/ Abandon(c),
             UNCHANGED <<workerVars, supervisorVars>>
      PROVE  SlotInv'
  <2>1. UNCHANGED <<slots, outputs, rpc, last, results, gpu_results, live>>
    BY <1>2, ClientFrame DEF workerVars
  <2>2. command' = command \/ \A g \in Instances : outputs[g][command'.token] = "none"
    <3>1. CASE Publish(c)
      <4>1. command'.token = c /\ Fresh(c)
        BY <3>1 DEF Publish, Goto, Fresh, FreshPCs
      <4>. QED  BY <4>1 DEF AddressInv, Sent
    <3>. QED
      BY <1>2, <3>1, ClientShape DEF Ends, End, WriteCancel, Moves, mailVars
  <2>3. \A g \in Instances : Settles(g)
    BY <2>1 DEF Settles
  <2>. QED  BY <2>1, <2>2, <2>3, SlotsKept DEF SlotInv
<1>3. ASSUME NEW g \in Instances, WorkerAny(g)  PROVE SlotInv'
  <2>1. Frame(g) /\ g \in live
    BY <1>3, WorkerShape
  <2>2. ASSUME NEW h \in Instances \ {g}
        PROVE  Sums(h)' /\ Promised(h)' /\ Unsubmitted(h)' /\ Bounded(h)'
    <3>1. Settles(h) /\ (h \notin live' => h \notin live)
      BY <1>3, <2>1, WorkerSettles DEF Frame, GroupExits
    <3>. QED  BY <2>1, <3>1, SlotsKept DEF Frame, SlotInv
  <2>. QED  BY <1>3, <2>2, SlotsOfGroup DEF SlotInv
<1>4. CASE SupervisorAny /\ UNCHANGED clientVars
  <2>0. /\ UNCHANGED <<command, gpu_results>>
        /\ \A g \in Instances : Settles(g)
    BY <1>4, SupervisorShape DEF Settles, Fails
  <2>1. CASE UNCHANGED <<workerVars, live>>
    BY <2>0, <2>1, SlotsKept DEF SlotInv, workerVars
  <2>2. ASSUME NEW dead, KillRanks(dead), live' = live \ dead  PROVE SlotInv'
    <3>1. ASSUME NEW g \in Instances, g \notin dead
          PROVE  Sums(g)' /\ Promised(g)' /\ Unsubmitted(g)' /\ Bounded(g)'
      BY <2>0, <2>2, <3>1, SlotsKept DEF KillRanks, SlotInv
    <3>2. ASSUME NEW g \in Instances, g \in dead
          PROVE  Sums(g)' /\ Promised(g)' /\ Unsubmitted(g)' /\ Bounded(g)'
      BY <2>0, <2>2, <3>2, SlotsOfDead DEF SlotInv
    <3>. QED  BY <3>1, <3>2 DEF SlotInv
  <2>3. CASE LaunchGroup
    <3>0. /\ results' = results /\ live' = live \union {launched} /\ launched \notin live
          /\ spc \in Launching /\ UNCHANGED <<outputs, last, slots>>
          /\ \A g \in Instances \ {launched} : rpc'[g] = rpc[g]
          /\ launched \in Instances =>
               rpc'[launched][Main] = "starting" /\ outputs[launched] = NoOutputs
      BY <1>0, <2>3 DEF LaunchGroup, Popen, StartRanks, Step, Launching, WorkerTypeOK, CoreInv
    <3>1. ASSUME NEW g \in Instances \ {launched}
          PROVE  Sums(g)' /\ Promised(g)' /\ Unsubmitted(g)' /\ Bounded(g)'
      BY <2>0, <3>0, SlotsKept DEF SlotInv
    <3>2. ASSUME launched \in Instances, NEW g, g = launched
          PROVE  Sums(g)' /\ Promised(g)' /\ Unsubmitted(g)' /\ Bounded(g)'
      <4>1. Owed(g) = {}
        BY <3>0, <3>2 DEF Owed, AddressInv, Sent, LaunchInv, Instances
      <4>2. Owed(g)' = {} /\ Held(g)' = {} /\ Unfinished(g)' = {} /\ slots[g] = Capacity
        BY <2>0, <3>0, <3>2, <4>1 DEF Owed, Held, Unfinished, NoOutputs, SlotInv, Sums
      <4>3. Sums(g)' /\ Bounded(g)'
        BY <3>0, <3>2, <4>2, FS_EmptySet, WorkerAssumption
           DEF Sums, Bounded, Reserved, HoldsSlot
      <4>4. Promised(g)' /\ Unsubmitted(g)'
        BY <1>0, <2>0, <3>0, <3>2, <4>2 DEF Promised, Unsubmitted, BeforeSubmit, NoOutputs
      <4>. QED  BY <4>3, <4>4
    <3>. QED  BY <3>1, <3>2 DEF SlotInv
  <2>. QED  BY <1>4, <2>1, <2>2, <2>3, SupervisorShape
<1>. QED  BY <1>1, <1>2, <1>3, <1>4, NextShape

(* Initially every slot is free.                                           *)
LEMMA SlotInit == Init => LaunchInv /\ SlotInv
<1> SUFFICES ASSUME Init PROVE LaunchInv /\ SlotInv
  OBVIOUS
<1>1. LaunchInv
  BY DEF Init, ClientInit, SupervisorInit, LaunchInv, Launching
<1>2. ASSUME NEW g \in Instances
      PROVE  Sums(g) /\ Promised(g) /\ Unsubmitted(g) /\ Bounded(g)
  <2>1. /\ Main \in Ranks /\ Capacity \in Nat /\ rpc[g][Main] = "off" /\ slots[g] = Capacity
        /\ \A t \in Requests : outputs[g][t] = "none" /\ gpu_results[t] # g
    BY WorkerAssumption DEF Init, MailboxInit, WorkerInit, AllOff, NoOutputs, Instances
  <2>2. Held(g) = {} /\ Unfinished(g) = {}
    BY <2>1 DEF Held, Unfinished
  <2>3. Sums(g) /\ Bounded(g)
    BY <2>1, <2>2, FS_EmptySet DEF Sums, Bounded, InLoop, Serving
  <2>4. Promised(g) /\ Unsubmitted(g)
    BY <2>1 DEF Promised, Unsubmitted, Gone, InLoop, BeforeSubmit, Serving
  <2>. QED  BY <2>3, <2>4
<1>. QED  BY <1>1, <1>2 DEF SlotInv

(* A group never has more unfinished outputs than slots, receipts that     *)
(* wait for their result included, and no slot is lost while its main rank *)
(* is in the loop: whatever fails, a receipt that cannot be written        *)
(* included.                                                               *)
THEOREM SlotsAddUp == AttendedSpec => []SlotAccounting
<1>1. TypeOK /\ SlotInv => SlotAccounting
  <2> SUFFICES ASSUME TypeOK, SlotInv, NEW g \in live
               PROVE  /\ Cardinality(Unfinished(g)) <= Capacity
                      /\ rpc[g][Main] \in {"poll"} \union Serving =>
                           slots[g] + Cardinality({t \in Requests : outputs[g][t] # "none"})
                             + (IF HoldsSlot(g) THEN 1 ELSE 0) = Capacity
    BY DEF SlotAccounting
  <2>1. g \in Instances
    BY DEF TypeOK, MailboxTypeOK
  <2>. QED  BY <2>1 DEF SlotInv, Bounded, Sums, Held, Reserved, InLoop
<1>2. TypeOK /\ CoreInv /\ GroupInv /\ AddressInv /\ LaunchInv /\ SlotInv
      /\ [Next /\ Attended']_vars => LaunchInv' /\ SlotInv'
  <2>1. [Next /\ Attended']_vars => [Next]_vars
    OBVIOUS
  <2>. QED  BY <2>1, LaunchStep, SlotStep
<1>. QED  BY <1>1, <1>2, SlotInit, Addressed, PTL DEF AttendedSpec

-----------------------------------------------------------------------------
Seen == \E c \in Requests : cinst[c] = launched

(* gpu.lock is held by the one call between taking and dropping it, and    *)
(* that call has looked at the health after all the others.                *)
LockInv ==
  /\ \A c \in Requests : cpc[c] \in Holding => gpu_lock = c
  /\ \A c \in Requests : cinst[c] <= owner
  /\ \A c, d \in Requests : cpc[c] \in Holding \ {"health"} => cinst[d] <= cinst[c]

(* What supervisor.json and owner.json say of the group launched last:     *)
(* nothing before the launch is complete, and that it is supervised only   *)
(* while the controller polls it.                                          *)
AtLaunch == Launching \union {"owner", "report"}
Ending == {"recovering", "stopped"}

RecordInv ==
  /\ owner <= launched /\ supervisor.inst <= launched /\ state.inst <= launched
  /\ spc \in AtLaunch \ {"report"} => owner < launched /\ instance < launched
  /\ spc \in {"report", "poll"} => instance = launched
  /\ spc \in AtLaunch => supervisor.inst < launched /\ \A c \in Requests : cinst[c] < launched
  /\ spc = "state" => state.inst < launched
  /\ spc = "popen" => state.status = "loading"
  /\ supervisor.status = "absent" => supervisor.inst = 0 /\ spc = "down"
  /\ supervisor.ctrl = 0 => supervisor.inst = 0
  /\ spc = "down" <=> controller = 0
  /\ spc # "down" => supervisor.ctrl = controller
  /\ spc = "poll" => supervisor.inst = instance /\ supervisor.status \notin Ending
  /\ spc \notin {"poll", "down"} /\ supervisor.inst = launched /\ launched # 0 =>
       supervisor.status \in Ending

(* A group has a future while it is alive and polled by the controller,    *)
(* and nothing says that it failed or is to be stopped.                    *)
HasFuture ==
  /\ launched \in live /\ launched \notin errors /\ cancel.inst # launched
  /\ ~(state.inst = launched /\ state.status = "failed")
  /\ spc = "poll"

(* What state.json says of the group launched last: ready and busy once    *)
(* its main rank has loaded the models, failed only when it is on its way  *)
(* out; and a call that has seen it ready would see it so again, while the *)
(* group has a future.                                                     *)
Before == {"starting", "joining", "loading"}
After == {"off", "reporting", "exiting", "leaving", "down"}

StateInv ==
  /\ launched # 0 /\ state.inst = launched =>
       /\ state.status \in {"ready", "busy", "failed"} => rpc[launched][Main] \notin Before
       /\ state.status = "failed" => rpc[launched][Main] \in After
  /\ launched # 0 /\ Seen /\ HasFuture =>
       state.inst = launched /\ state.status \in {"ready", "busy"}

(* The ranks of the group launched last that serve a request serve the     *)
(* published one.  Once the main rank has passed the last barrier of that  *)
(* request all ranks have served it, and its call lets the lock go only    *)
(* after that, or when the group has no future.                            *)
AtEnd == {"ran", "finish", "receipt"}

Answered(t) == results[t] # "none" \/ gpu_results[t] # 0

Passed(g, t) ==
  \/ Answered(t) \/ outputs[g][t] # "none"
  \/ last[g][Main] = t /\ rpc[g][Main] \in AtEnd

Published(g) == command.inst = g /\ command.token # NoToken
Serves(g, r) == rpc[g][r] \in {"slot", "run"}

Agreement ==
  /\ \A r \in Ranks : Serves(launched, r) =>
       Published(launched) /\ last[launched][r] = command.token
  /\ Published(launched) /\ Passed(launched, command.token) =>
       \A r \in Ranks : last[launched][r] = command.token /\ ~Serves(launched, r)
  /\ Published(launched) /\ cpc[command.token] \notin Holding => Answered(command.token)
  /\ rpc[launched][Main] # "reporting"

AgreeInv == launched # 0 /\ HasFuture => Agreement

-----------------------------------------------------------------------------
(* What a step of a client does to the lock and to what it has read.       *)
LEMMA LockShape ==
  ASSUME TypeOK, LockInv, NEW c \in Requests, ClientNext(c) \/ Abandon(c)
  PROVE  /\ \A d \in Requests \ {c} : cpc'[d] = cpc[d] /\ cinst'[d] = cinst[d]
         /\ \/ gpu_lock' = gpu_lock
            \/ gpu_lock' = c /\ gpu_lock = NoToken
            \/ gpu_lock = c /\ cpc'[c] \notin Holding
         /\ cpc'[c] \in Holding => gpu_lock' = c
         /\ \/ cinst' = cinst /\ (cpc'[c] \in Holding \ {"health"} => cpc[c] \in Holding \ {"health"})
            \/ cpc[c] = "health" /\ Ready /\ cinst'[c] = state.inst /\ cpc'[c] = "publish"
<1>0. ClientTypeOK /\ c # NoToken /\ (cpc[c] \in Holding => gpu_lock = c)
  BY MailboxAssumption DEF TypeOK, LockInv
<1>1. ASSUME NEW v, End(c, v)
      PROVE  /\ \A d \in Requests \ {c} : cpc'[d] = cpc[d] /\ cinst'[d] = cinst[d]
             /\ cpc'[c] = "done" /\ cinst' = cinst
             /\ gpu_lock' = gpu_lock \/ gpu_lock = c
  BY <1>0, <1>1 DEF End, ClientTypeOK
<1>2. CASE InterruptWhileQueued(c) \/ WaitExpires(c) \/ Abandon(c)
  BY <1>1, <1>2 DEF InterruptWhileQueued, WaitExpires, Abandon, Holding
<1>3. CASE Submit(c) \/ AcquireLock(c)
  BY <1>0, <1>3 DEF Submit, AcquireLock, Goto, Holding, ClientTypeOK
<1>4. CASE ReadHealth(c)
  BY <1>0, <1>1, <1>4 DEF ReadHealth, Goto, Holding, ClientTypeOK
<1>5. CASE Publish(c) \/ WriteCancel(c)
  BY <1>0, <1>5 DEF Publish, WriteCancel, Goto, Holding, ClientTypeOK
<1>6. CASE ReadResult(c) \/ WaitResult(c)
  BY <1>0, <1>1, <1>6 DEF ReadResult, WaitResult, Goto, Holding, ClientTypeOK
<1>7. CASE ReadReceipt(c)
  BY <1>0, <1>7 DEF ReadReceipt, Goto, Holding, ClientTypeOK
<1>8. CASE CheckHealth(c) \/ WaitHealth(c) \/ DecideCancel(c)
  BY <1>0, <1>1, <1>8 DEF CheckHealth, WaitHealth, DecideCancel, Goto, Holding, ClientTypeOK
<1>9. CASE \E why \in Reasons : WantCancel(c, why)
  BY <1>0, <1>9 DEF WantCancel, Goto, Holding, ClientTypeOK
<1>. QED
  BY <1>2, <1>3, <1>4, <1>5, <1>6, <1>7, <1>8, <1>9 DEF ClientNext

(* What a step of a group does to state.json: only the main rank of the    *)
(* group launched last writes it, where it stands.                         *)
Writes(g, from, to, status) ==
  /\ rpc[g][Main] \in from /\ rpc'[g][Main] \in to
  /\ state' = [inst |-> g, status |-> status]

LEMMA StateShape ==
  ASSUME TypeOK, CoreInv, GroupInv, NEW g \in Instances, WorkerAny(g)
  PROVE  /\ \/ state' = state /\ (rpc'[g][Main] \in Before => rpc[g][Main] \in Before)
            \/ Writes(g, {"joining"}, {"loading"}, "loading")
            \/ Writes(g, {"loading"}, {"poll"}, "ready")
            \/ Writes(g, {"ran"}, {"finish"}, "ready")
            \/ Writes(g, {"poll"}, {"slot", "run"}, "busy")
            \/ Writes(g, {"raising"}, {"reporting"}, "failed")
         /\ rpc[g][Main] \in After => rpc'[g][Main] \in After
<1>0. Main \in Ranks /\ WorkerTypeOK
  BY WorkerAssumption DEF TypeOK
<1>1. \A r \in Ranks : rpc[g][r] \in Knowing => ident[g][r] = g
  BY DEF GroupInv
<1>2. CASE LoadModels(g) \/ Loaded(g) \/ RunCompletes(g)
  BY <1>0, <1>1, <1>2 DEF LoadModels, Loaded, RunCompletes, WriteState, Writes, WorkerTypeOK,
     Before, After, Knowing, Serving, mailVars
<1>3. CASE Reserve(g) \/ ReportIdle(g) \/ WriteResult(g) \/ SubmitOutput(g) \/ WriteReceipt(g)
  BY <1>0, <1>1, <1>3 DEF Reserve, ReportIdle, WriteResult, SubmitOutput, WriteReceipt, RankStep,
     WriteState, Writes, WorkerTypeOK, Before, After, Knowing, Serving, mailVars
<1>4. CASE ReportFailedState(g) \/ WriteFailedResult(g) \/ ReceiptWriteFails(g)
  BY <1>0, <1>1, <1>4 DEF ReportFailedState, WriteFailedResult, ReceiptWriteFails, RankStep,
     WriteState, Writes, WorkerTypeOK, Before, After, Knowing, Serving, mailVars
<1>5. CASE GroupExits(g)
  BY <1>0, <1>5 DEF GroupExits, KillRanks, AllOff, Before, After
<1>6. ASSUME NEW r \in Ranks, ReadLaunch(g, r) \/ WriteError(g, r) \/ Exit(g, r)
                                \/ RankRaises(g, r) \/ RankDies(g, r)
      PROVE  /\ state' = state /\ (rpc'[g][Main] \in Before => rpc[g][Main] \in Before)
             /\ rpc[g][Main] \in After => rpc'[g][Main] \in After
  BY <1>0, <1>6 DEF ReadLaunch, WriteError, Exit, RankRaises, RankDies, RankStep,
     WorkerTypeOK, Before, After, mailVars
<1>7. ASSUME NEW r \in Ranks, Accept(g, r)
      PROVE  /\ \/ state' = state /\ (rpc'[g][Main] \in Before => rpc[g][Main] \in Before)
                \/ Writes(g, {"poll"}, {"slot", "run"}, "busy")
             /\ rpc[g][Main] \in After => rpc'[g][Main] \in After
  BY <1>0, <1>1, <1>7 DEF Accept, RankStep, WriteState, Writes, WorkerTypeOK, Before, After,
     Knowing, Serving
<1>8. CASE \E t \in Requests : ReleaseSlot(g, t) \/ \E v \in Verdicts : CompleteOutput(g, t, v)
  BY <1>8 DEF ReleaseSlot, CompleteOutput, mailVars
<1>. QED
  BY <1>2, <1>3, <1>4, <1>5, <1>6, <1>7, <1>8 DEF WorkerAny, WorkerNext

-----------------------------------------------------------------------------
(* The lock, and the order in which calls have looked at the health.       *)
LEMMA LockStep ==
  ASSUME TypeOK, CoreInv, LockInv, RecordInv, [Next]_vars
  PROVE  LockInv'
<1>0. /\ ClientTypeOK /\ launched \in Nat /\ owner \in Nat /\ owner <= launched
      /\ \A c \in Requests : cinst[c] \in Nat /\ c # NoToken
  BY MailboxAssumption DEF TypeOK, MailboxTypeOK, ClientTypeOK, SupervisorTypeOK, MaybeInstance,
     RecordInv
<1>1. CASE UNCHANGED vars
  BY <1>1 DEF vars, clientVars, mailVars, LockInv
<1>2. ASSUME NEW c \in Requests, ClientNext(c) \/ Abandon(c)
      PROVE  LockInv'
  <2>1. owner' = owner /\ (Ready => state.inst = owner)
    BY <1>2, ClientFrame DEF Ready
  <2>2. \A d \in Requests : cpc'[d] \in Holding => gpu_lock' = d
    BY <1>0, <1>2, LockShape DEF LockInv
  <2>3. \A d \in Requests : cinst'[d] <= owner'
    BY <1>0, <1>2, <2>1, LockShape DEF LockInv
  <2>4. ASSUME NEW d \in Requests, NEW e \in Requests, cpc'[d] \in Holding \ {"health"}
        PROVE  cinst'[e] <= cinst'[d]
    <3>1. CASE /\ cinst' = cinst
               /\ cpc'[c] \in Holding \ {"health"} => cpc[c] \in Holding \ {"health"}
      <4>1. cpc[d] \in Holding \ {"health"}
        BY <1>2, <2>4, <3>1, LockShape
      <4>. QED  BY <3>1, <4>1 DEF LockInv
    <3>2. CASE cpc[c] = "health" /\ Ready /\ cinst'[c] = state.inst
      <4>1. d = c
        <5>1. gpu_lock = c /\ gpu_lock' = d
          BY <2>2, <2>4, <3>2 DEF LockInv, Holding
        <5>. QED  BY <1>0, <1>2, <2>4, <5>1, LockShape DEF LockInv
      <4>. QED  BY <2>1, <2>3, <3>2, <4>1
    <3>. QED  BY <1>2, <3>1, <3>2, LockShape
  <2>. QED  BY <2>2, <2>3, <2>4 DEF LockInv
<1>3. CASE UNCHANGED <<cpc, cinst, gpu_lock, owner>>
  BY <1>3 DEF LockInv
<1>4. ASSUME NEW g \in Instances, WorkerAny(g), UNCHANGED clientVars
      PROVE  UNCHANGED <<cpc, cinst, gpu_lock, owner>>
  BY <1>4, WorkerShape DEF Frame, clientVars
<1>5. CASE SupervisorAny /\ UNCHANGED clientVars
  <2>1. owner' \in {owner, launched}
    BY <1>5 DEF SupervisorAny, SupervisorLocal, StartController, TryLaunch, LaunchRefused,
       WriteLoading, WriteOwner, ReportLoading, RecoverCancelled, RecoverFailed, BeginRecover,
       ReportReady, FailCommand, FailReceipts, RecordFailure, WriteStopped, LaunchFails,
       ControllerDies, Shutdown, LaunchGroup, Popen, ReapGroup, ClearGroups, StopGroup,
       ReapWorker, ClearGPUs
  <2>. QED  BY <1>0, <1>5, <2>1 DEF LockInv, clientVars
<1>. QED  BY <1>1, <1>2, <1>3, <1>4, <1>5, NextShape

(* What is said of the group launched last follows the controller: it is   *)
(* about an older group until the launch is complete, and a controller     *)
(* that stops to poll says so first.                                       *)
LEMMA RecordStep ==
  ASSUME TypeOK, CoreInv, GroupInv, LockInv, RecordInv, [Next]_vars
  PROVE  RecordInv'
<1>0. /\ launched \in Nat /\ owner \in Nat /\ supervisor.inst \in Nat /\ state.inst \in Nat
      /\ instance \in Nat /\ instance <= launched /\ started \in Nat /\ 0 \notin Instances
      /\ \A c \in Requests : cinst[c] \in Nat /\ cinst[c] <= owner
  BY DEF TypeOK, MailboxTypeOK, ClientTypeOK, SupervisorTypeOK, MaybeInstance, CoreInv, LockInv,
     Instances
<1>1. CASE UNCHANGED vars
  BY <1>1 DEF vars, clientVars, mailVars, supervisorVars, RecordInv
<1>2. ASSUME NEW c \in Requests, ClientNext(c) \/ Abandon(c),
             UNCHANGED <<workerVars, supervisorVars>>
      PROVE  RecordInv'
  <2>1. /\ UNCHANGED <<owner, supervisor, state, controller>>
        /\ UNCHANGED <<spc, instance, launched>>
    BY <1>2, ClientFrame DEF supervisorVars
  <2>2. ASSUME spc \in AtLaunch, NEW d \in Requests  PROVE cinst'[d] < launched
    <3>1. Ready => state.inst < launched
      BY <1>0, <2>2 DEF Ready, SupervisionAgrees, RecordInv, AtLaunch, Launching
    <3>2. cinst[d] < launched
      BY <2>2 DEF RecordInv
    <3>. QED  BY <1>2, <3>1, <3>2, LockShape
  <2>. QED  BY <2>1, <2>2 DEF RecordInv
<1>3. ASSUME NEW g \in Instances, WorkerAny(g), UNCHANGED <<clientVars, supervisorVars>>
      PROVE  RecordInv'
  <2>1. UNCHANGED <<owner, supervisor, controller, cinst, spc, instance, launched>>
    BY <1>3, WorkerShape DEF Frame, clientVars, supervisorVars
  <2>2. state' = state \/ (state'.inst = launched /\ spc \notin Launching)
    <3>1. CASE state' # state
      <4>1. state'.inst = g /\ Active(g)
        BY <1>3, <3>1, StateShape, WorkerAssumption DEF Writes, Active
      <4>. QED  BY <4>1 DEF GroupInv
    <3>. QED  BY <3>1
  <2>. QED  BY <1>0, <2>1, <2>2 DEF RecordInv, Launching
<1>4. CASE SupervisorAny /\ UNCHANGED clientVars
  <2>0. UNCHANGED cinst
    BY <1>4 DEF clientVars
  <2>1. CASE StartController
    BY <1>0, <2>0, <2>1 DEF StartController, Step, RecordInv, AtLaunch, Launching, Ending
  <2>2. CASE TryLaunch(Holders)
    BY <1>0, <2>0, <2>2 DEF TryLaunch, Step, RecordInv, AtLaunch, Launching, Ending
  <2>3. CASE LaunchRefused(Holders) \/ LaunchFails
    BY <1>0, <2>0, <2>3 DEF LaunchRefused, LaunchFails, Step, Report, RecordInv, AtLaunch,
       Launching, Ending
  <2>4. CASE WriteLoading
    BY <1>0, <2>0, <2>4 DEF WriteLoading, Step, RecordInv, AtLaunch, Launching, Ending
  <2>5. CASE WriteOwner
    BY <1>0, <2>0, <2>5 DEF WriteOwner, Step, RecordInv, AtLaunch, Launching, Ending
  <2>6. CASE ReportLoading \/ RecoverCancelled \/ RecoverFailed(Silent)
    BY <1>0, <2>0, <2>6 DEF ReportLoading, RecoverCancelled, RecoverFailed, BeginRecover, Step,
       Report, RecordInv, AtLaunch, Launching, Ending
  <2>7. CASE ReportReady \/ Shutdown
    BY <1>0, <2>0, <2>7 DEF ReportReady, Shutdown, Report, RecordInv, AtLaunch, Launching, Ending
  <2>8. CASE FailCommand \/ FailReceipts \/ RecordFailure
    BY <1>0, <2>0, <2>8 DEF FailCommand, FailReceipts, RecordFailure, Step, RecordInv, AtLaunch,
       Launching, Ending
  <2>9. CASE WriteStopped \/ ControllerDies
    BY <1>0, <2>0, <2>9 DEF WriteStopped, ControllerDies, Step, RecordInv, AtLaunch, Launching,
       Ending
  <2>10. CASE LaunchGroup
    BY <1>0, <2>0, <2>10 DEF LaunchGroup, Popen, Step, RecordInv, AtLaunch, Launching, Ending
  <2>11. CASE ReapGroup \/ ClearGroups
    BY <1>0, <2>0, <2>11 DEF ReapGroup, StopGroup, ReapWorker, ClearGroups, ClearGPUs, Step,
       RecordInv, AtLaunch, Launching, Ending
  <2>. QED
    BY <1>4, <2>1, <2>2, <2>3, <2>4, <2>5, <2>6, <2>7, <2>8, <2>9, <2>10, <2>11
       DEF SupervisorAny, SupervisorLocal
<1>. QED  BY <1>1, <1>2, <1>3, <1>4, NextShape

-----------------------------------------------------------------------------
(* The controller begins to poll only when it has launched a group.        *)
LEMMA SupervisorPolls ==
  ASSUME SupervisorAny, spc' = "poll"
  PROVE  /\ spc \in {"poll", "report"}
         /\ UNCHANGED <<workerVars, launched, state, command, results, gpu_results, cancel,
                       errors, live>>
<1>1. ~(LaunchGroup \/ ReapGroup \/ ClearGroups)
  BY DEF LaunchGroup, Popen, ReapGroup, StopGroup, ReapWorker, ClearGroups, ClearGPUs, Step
<1>2. ~(LaunchFails \/ ControllerDies \/ Shutdown)
  BY DEF LaunchFails, ControllerDies, Shutdown
<1>3. ~(StartController \/ TryLaunch(Holders) \/ LaunchRefused(Holders) \/ WriteLoading
          \/ WriteOwner \/ RecoverCancelled \/ RecoverFailed(Silent))
  BY DEF StartController, TryLaunch, LaunchRefused, WriteLoading, WriteOwner, RecoverCancelled,
     RecoverFailed, BeginRecover, Step
<1>4. ~(FailCommand \/ FailReceipts \/ RecordFailure \/ WriteStopped)
  BY DEF FailCommand, FailReceipts, RecordFailure, WriteStopped, Step
<1>5. (ReportLoading \/ ReportReady) /\ UNCHANGED workerVars
  BY <1>1, <1>2, <1>3, <1>4 DEF SupervisorAny, SupervisorLocal
<1>. QED  BY <1>5 DEF ReportLoading, ReportReady, Step

(* Only the group launched last writes state.json.                         *)
LEMMA LastWrites ==
  ASSUME TypeOK, CoreInv, GroupInv, NEW g \in Instances, WorkerAny(g), state' # state
  PROVE  g = launched
<1>1. Active(g)
  BY StateShape, WorkerAssumption DEF Writes, Active
<1>. QED  BY <1>1 DEF GroupInv

(* A group that some call has seen ready never regains its future.         *)
LEMMA FutureStays ==
  ASSUME TypeOK, CoreInv, GroupInv, LockInv, RecordInv, StateInv, [Next]_vars,
         launched' = launched, launched # 0, Seen, HasFuture'
  PROVE  HasFuture
<1>0. launched \in Nat /\ owner \in Nat /\ \A c \in Requests : cinst[c] \in Nat
  BY DEF TypeOK, MailboxTypeOK, ClientTypeOK, SupervisorTypeOK, MaybeInstance
<1>1. CASE UNCHANGED vars
  BY <1>1 DEF vars, mailVars, supervisorVars, HasFuture
<1>2. ASSUME NEW c \in Requests, ClientNext(c) \/ Abandon(c),
             UNCHANGED <<workerVars, supervisorVars>>
      PROVE  HasFuture
  <2>1. UNCHANGED <<live, errors, state, spc>>
    BY <1>2, ClientFrame DEF supervisorVars
  <2>2. CASE cancel' = cancel
    BY <2>1, <2>2 DEF HasFuture
  <2>3. CASE WriteCancel(c)
    <3>1. cpc[c] \in Holding \ {"health"} /\ cancel'.inst = cinst[c]
      BY <2>3 DEF WriteCancel, Goto, Holding
    <3>2. cinst[c] = launched
      <4>1. PICK d \in Requests : cinst[d] = launched
        BY DEF Seen
      <4>. QED  BY <1>0, <3>1, <4>1 DEF LockInv, RecordInv
    <3>. QED  BY <3>1, <3>2 DEF HasFuture
  <2>. QED
    BY <1>2, <2>2, <2>3, ClientShape DEF Ends, End, Publish, Moves, mailVars
<1>3. ASSUME NEW g \in Instances, WorkerAny(g), UNCHANGED <<clientVars, supervisorVars>>
      PROVE  HasFuture
  <2>1. /\ UNCHANGED <<spc, cancel>> /\ live' \subseteq live
    BY <1>3, WorkerShape DEF Frame, GroupExits, supervisorVars
  <2>2. errors \subseteq errors'
    BY <1>3 DEF WorkerAny, WorkerNext, LoadModels, Loaded, Reserve, RunCompletes, ReportIdle,
       WriteResult, SubmitOutput, WriteReceipt, ReportFailedState, WriteFailedResult, GroupExits,
       ReadLaunch, Accept, WriteError, Exit, ReleaseSlot, CompleteOutput, RankRaises, RankDies,
       ReceiptWriteFails, mailVars
  <2>3. ~(state.inst = launched /\ state.status = "failed")
    <3>1. SUFFICES ASSUME state.inst = launched, state.status = "failed", state' # state
                   PROVE  FALSE
      BY DEF HasFuture
    <3>2. g = launched /\ rpc[launched][Main] \in After
      BY <1>3, <3>1, LastWrites DEF StateInv
    <3>. QED  BY <1>3, <3>1, <3>2, StateShape DEF Writes, After
  <2>. QED  BY <2>1, <2>2, <2>3 DEF HasFuture
<1>4. CASE SupervisorAny
  <2>1. spc' = "poll"
    BY DEF HasFuture
  <2>2. spc # "report"
    BY <1>0 DEF RecordInv, AtLaunch, Seen
  <2>. QED  BY <1>4, <2>1, <2>2, SupervisorPolls DEF HasFuture
<1>. QED  BY <1>1, <1>2, <1>3, <1>4, NextShape

(* What state.json says of the group launched last: the step.              *)
LEMMA StateStep ==
  ASSUME TypeOK, CoreInv, GroupInv, LockInv, RecordInv, StateInv, [Next]_vars
  PROVE  StateInv'
<1>0. /\ launched \in Nat /\ owner \in Nat /\ state.inst \in Nat
      /\ \A c \in Requests : cinst[c] \in Nat
      /\ Main \in Ranks
      /\ launched # 0 => launched \in Instances
  BY WorkerAssumption
     DEF TypeOK, MailboxTypeOK, ClientTypeOK, SupervisorTypeOK, MaybeInstance, Instances
<1>1. CASE UNCHANGED vars
  BY <1>1 DEF vars, mailVars, clientVars, workerVars, supervisorVars, StateInv, Seen, HasFuture
<1>2. ASSUME NEW c \in Requests, ClientNext(c) \/ Abandon(c), Next,
             UNCHANGED <<workerVars, supervisorVars>>
      PROVE  StateInv'
  <2>1. UNCHANGED <<state, rpc, launched>>
    BY <1>2, ClientFrame DEF workerVars, supervisorVars
  <2>2. ASSUME Seen', HasFuture', launched # 0
        PROVE  state.inst = launched /\ state.status \in {"ready", "busy"}
    <3>1. CASE Seen
      BY <2>1, <2>2, <3>1, FutureStays DEF StateInv
    <3>2. CASE ~Seen
      BY <1>2, <2>1, <2>2, <3>2, LockShape DEF Seen, Ready
    <3>. QED  BY <3>1, <3>2
  <2>. QED  BY <2>1, <2>2 DEF StateInv
<1>3. ASSUME NEW g \in Instances, WorkerAny(g), Next, UNCHANGED <<clientVars, supervisorVars>>
      PROVE  StateInv'
  <2>1. UNCHANGED <<launched, cinst>>
    BY <1>3 DEF clientVars, supervisorVars
  <2>2. CASE g # launched
    <3>1. state' = state
      BY <1>3, <2>2, LastWrites
    <3>2. launched # 0 => rpc'[launched] = rpc[launched]
      BY <1>0, <1>3, <2>2, WorkerShape DEF Frame
    <3>3. Seen' /\ HasFuture' /\ launched # 0 => Seen /\ HasFuture
      BY <2>1, FutureStays DEF Seen
    <3>. QED  BY <2>1, <3>1, <3>2, <3>3 DEF StateInv
  <2>3. CASE g = launched
    <3>1. launched # 0 /\ state'.inst = launched =>
            /\ state'.status \in {"ready", "busy", "failed"} => rpc'[launched][Main] \notin Before
            /\ state'.status = "failed" => rpc'[launched][Main] \in After
      BY <1>3, <2>3, StateShape DEF Writes, StateInv, Before, After
    <3>2. ASSUME Seen', HasFuture', launched # 0
          PROVE  state'.inst = launched /\ state'.status \in {"ready", "busy"}
      <4>1. Seen /\ HasFuture
        BY <2>1, <3>2, FutureStays DEF Seen
      <4>2. ~(state'.inst = launched /\ state'.status = "failed")
        BY <2>1, <3>2 DEF HasFuture
      <4>. QED  BY <1>3, <2>3, <3>2, <4>1, <4>2, StateShape DEF Writes, StateInv, Before
    <3>. QED  BY <2>1, <3>1, <3>2 DEF StateInv
  <2>. QED  BY <2>2, <2>3
<1>4. CASE SupervisorAny /\ UNCHANGED clientVars
  <2>0. cinst' = cinst
    BY <1>4 DEF clientVars
  <2>1. spc' = "poll" /\ launched # 0 /\ Seen => spc = "poll"
    BY <1>0, <1>4, SupervisorPolls DEF RecordInv, AtLaunch, Seen
  <2>2. CASE spc' = "poll"
    <3>1. UNCHANGED <<rpc, state, launched, cancel, errors, live>>
      BY <1>4, <2>2, SupervisorPolls DEF workerVars
    <3>. QED  BY <2>0, <2>1, <2>2, <3>1 DEF StateInv, Seen, HasFuture
  <2>3. CASE spc' # "poll"
    <3>0. ~HasFuture'
      BY <2>3 DEF HasFuture
    <3>1. CASE TryLaunch(Holders)
      <4>1. launched' = launched + 1 /\ state' = state
        BY <3>1 DEF TryLaunch
      <4>. QED  BY <1>0, <3>0, <4>1 DEF StateInv, RecordInv
    <3>2. CASE WriteLoading \/ WriteStopped
      BY <3>0, <3>2 DEF WriteLoading, WriteStopped, StateInv
    <3>3. CASE LaunchGroup
      <4>1. state' = state /\ state.status = "loading"
        BY <3>3 DEF LaunchGroup, Popen, Step, RecordInv
      <4>. QED  BY <3>0, <4>1 DEF StateInv
    <3>4. CASE ReapGroup \/ ClearGroups
      <4>1. UNCHANGED <<launched, state>>
        BY <3>4 DEF ReapGroup, StopGroup, ReapWorker, ClearGroups, ClearGPUs
      <4>2. launched # 0 => rpc'[launched][Main] \in {rpc[launched][Main], "off"}
        BY <1>0, <3>4 DEF ReapGroup, ClearGroups, KillRanks, AllOff
      <4>. QED  BY <3>0, <4>1, <4>2 DEF StateInv, Before, After
    <3>5. ASSUME UNCHANGED <<rpc, state, launched>>  PROVE StateInv'
      BY <3>0, <3>5 DEF StateInv
    <3>6. CASE /\ \/ LaunchFails \/ ControllerDies \/ Shutdown \/ StartController
                  \/ LaunchRefused(Holders) \/ WriteOwner \/ ReportLoading
               /\ UNCHANGED workerVars
      BY <3>5, <3>6 DEF LaunchFails, ControllerDies, Shutdown, StartController, LaunchRefused,
         WriteOwner, ReportLoading, workerVars
    <3>7. CASE /\ \/ RecoverCancelled \/ RecoverFailed(Silent) \/ ReportReady \/ FailCommand
                  \/ FailReceipts \/ RecordFailure
               /\ UNCHANGED workerVars
      BY <3>5, <3>7 DEF RecoverCancelled, RecoverFailed, BeginRecover, ReportReady,
         FailCommand, FailReceipts, RecordFailure, workerVars
    <3>. QED
      BY <1>4, <3>1, <3>2, <3>3, <3>4, <3>5, <3>6, <3>7
         DEF SupervisorAny, SupervisorLocal
  <2>. QED  BY <2>2, <2>3
<1>. QED  BY <1>1, <1>2, <1>3, <1>4, NextShape

-----------------------------------------------------------------------------
(* What a step of a group does to its ranks that serve: a rank begins to   *)
(* serve only by taking the command, and main passes the last barrier of a *)
(* request only together with all others.                                  *)
LEMMA ServeShape ==
  ASSUME TypeOK, CoreInv, GroupInv, NEW g \in Instances, WorkerAny(g), g \in live'
  PROVE  /\ \A r \in Ranks :
              /\ last'[g][r] = last[g][r] \/ Takes(g, r)
              /\ Serves(g, r)' => Serves(g, r) \/ Takes(g, r)
         /\ \/ rpc'[g][Main] \notin AtEnd
            \/ rpc[g][Main] \in AtEnd
            \/ RunCompletes(g)
         /\ \/ rpc'[g][Main] # "reporting"
            \/ rpc[g][Main] = "reporting"
            \/ state' = [inst |-> g, status |-> "failed"]
<1>0. Main \in Ranks /\ WorkerTypeOK
  BY WorkerAssumption DEF TypeOK
<1>1. CASE LoadModels(g) \/ Loaded(g) \/ RunCompletes(g)
  BY <1>0, <1>1 DEF LoadModels, Loaded, RunCompletes, WorkerTypeOK, Serves, AtEnd
<1>2. CASE Reserve(g) \/ ReportIdle(g) \/ WriteResult(g) \/ SubmitOutput(g) \/ WriteReceipt(g)
  BY <1>0, <1>2 DEF Reserve, ReportIdle, WriteResult, SubmitOutput, WriteReceipt, RankStep,
     WorkerTypeOK, Serves, AtEnd
<1>3. CASE ReportFailedState(g)
  <2>1. ident[g][Main] = g
    BY <1>0, <1>3 DEF ReportFailedState, RankStep, GroupInv, Knowing
  <2>. QED
    BY <1>0, <1>3, <2>1 DEF ReportFailedState, RankStep, WriteState, WorkerTypeOK, Serves, AtEnd
<1>4. CASE WriteFailedResult(g) \/ ReceiptWriteFails(g)
  BY <1>0, <1>4 DEF WriteFailedResult, ReceiptWriteFails, RankStep, WorkerTypeOK, Serves, AtEnd
<1>5. ~GroupExits(g)
  BY DEF GroupExits
<1>6. ASSUME NEW r \in Ranks, ReadLaunch(g, r) \/ WriteError(g, r) \/ Exit(g, r)
      PROVE  /\ last' = last
             /\ \A s \in Ranks : rpc'[g][s] \in {rpc[g][s], "joining", "leaving", "down"}
  BY <1>0, <1>6 DEF ReadLaunch, WriteError, Exit, RankStep, WorkerTypeOK
<1>7. ASSUME NEW r \in Ranks, RankRaises(g, r) \/ RankDies(g, r)
      PROVE  /\ last' = last
             /\ \A s \in Ranks : rpc'[g][s] \in {rpc[g][s], "raising", "exiting", "down"}
  BY <1>0, <1>7 DEF RankRaises, RankDies, WorkerTypeOK
<1>8. ASSUME NEW r \in Ranks, Accept(g, r)
      PROVE  /\ Takes(g, r) /\ rpc'[g][r] \in {"slot", "run"}
             /\ \A s \in Ranks \ {r} : rpc'[g][s] = rpc[g][s] /\ last'[g][s] = last[g][s]
  BY <1>0, <1>8 DEF Accept, RankStep, WorkerTypeOK, Takes
<1>9. CASE \E t \in Requests : ReleaseSlot(g, t) \/ \E v \in Verdicts : CompleteOutput(g, t, v)
  BY <1>9 DEF ReleaseSlot, CompleteOutput, Serves
<1>10. CASE \E r \in Ranks : \/ ReadLaunch(g, r) \/ WriteError(g, r) \/ Exit(g, r)
                             \/ RankRaises(g, r) \/ RankDies(g, r)
  BY <1>0, <1>6, <1>7, <1>10 DEF Serves, AtEnd
<1>11. CASE \E r \in Ranks : Accept(g, r)
  BY <1>0, <1>8, <1>11 DEF Serves, AtEnd
<1>. QED
  BY <1>1, <1>2, <1>3, <1>4, <1>5, <1>9, <1>10, <1>11 DEF WorkerAny, WorkerNext

(* A call that has seen the group finds it ready while it has a future.    *)
LEMMA StaysReady ==
  ASSUME TypeOK, LockInv, RecordInv, StateInv, HasFuture, launched # 0,
         NEW c \in Requests, cinst[c] = launched
  PROVE  ~InstanceGone(c)
<1>1. owner = launched
  BY DEF LockInv, RecordInv, TypeOK, MailboxTypeOK, SupervisorTypeOK, MaybeInstance
<1>2. state.inst = launched /\ state.status \in {"ready", "busy"}
  BY DEF StateInv, Seen
<1>3. SupervisionAgrees
  BY <1>2 DEF RecordInv, HasFuture, SupervisionAgrees, Ending
<1>. QED  BY <1>1, <1>2, <1>3 DEF InstanceGone, Ready, HasFuture

(* So a published call lets the lock go only when it is answered, or       *)
(* together with the future of the group.                                  *)
LEMMA Leaves ==
  ASSUME TypeOK, LockInv, RecordInv, StateInv, HasFuture, HasFuture', launched # 0,
         launched' = launched, NEW c \in Requests, cinst[c] = launched, ClientNext(c),
         cpc[c] \in Holding, ~Fresh(c), cpc'[c] \notin Holding
  PROVE  Answered(c)
<1>0. ClientTypeOK /\ ~InstanceGone(c) /\ state.inst = cinst[c]
  BY StaysReady DEF TypeOK, StateInv, Seen
<1>1. ~(Submit(c) \/ AcquireLock(c) \/ InterruptWhileQueued(c) \/ ReadHealth(c) \/ Publish(c))
  BY DEF Submit, AcquireLock, InterruptWhileQueued, ReadHealth, Publish, Goto, Fresh, FreshPCs
<1>2. ~(WaitResult(c) \/ WaitHealth(c) \/ WaitExpires(c))
  BY DEF WaitResult, WaitHealth, WaitExpires, Goto, Holding
<1>3. ~(CheckHealth(c) \/ \E why \in Reasons : WantCancel(c, why))
  BY <1>0 DEF CheckHealth, WantCancel, Goto, Holding, ClientTypeOK
<1>4. ~WriteCancel(c)
  BY DEF WriteCancel, HasFuture
<1>5. CASE ReadResult(c)
  BY <1>0, <1>5 DEF ReadResult, Goto, Holding, ClientTypeOK, Answered
<1>6. CASE ReadReceipt(c)
  BY <1>0, <1>6 DEF ReadReceipt, Goto, Holding, ClientTypeOK, Answered
<1>7. CASE DecideCancel(c)
  BY <1>0, <1>7 DEF DecideCancel, CancelNeeded, Goto, Holding, ClientTypeOK, Answered
<1>. QED  BY <1>1, <1>2, <1>3, <1>4, <1>5, <1>6, <1>7 DEF ClientNext

-----------------------------------------------------------------------------
(* What a group serves, some call has sent after it saw the group.         *)
LEMMA SentIsSeen ==
  ASSUME AddressInv, launched \in Instances, ~Seen
  PROVE  /\ ~Published(launched)
         /\ \A r \in Ranks : rpc[launched][r] \notin Engaged
<1>. QED  BY DEF AddressInv, Published, Sent, Seen

(* Nothing of a request that is not yet published has reached a group.     *)
LEMMA FreshIsOpen ==
  ASSUME AddressInv, FreshInv, NEW c \in Requests, Fresh(c), NEW g \in Instances
  PROVE  ~Passed(g, c)
<1>1. Main \in Ranks
  BY WorkerAssumption
<1>. QED
  BY <1>1 DEF AddressInv, FreshInv, Sent, Passed, Answered, AtEnd, Engaged, Serving

(* The agreement of the ranks: a step of a client.                         *)
LEMMA AgreeClient ==
  ASSUME TypeOK, CoreInv, GroupInv, AddressInv, FreshInv, LockInv, RecordInv, StateInv,
         Seen, HasFuture, HasFuture', launched # 0, launched' = launched, Agreement,
         NEW c \in Requests, ClientNext(c), UNCHANGED workerVars
  PROVE  Agreement'
<1>0. /\ ClientTypeOK /\ c # NoToken /\ Main \in Ranks /\ launched \in Instances
      /\ UNCHANGED <<results, gpu_results, rpc, last, outputs>>
  BY ClientFrame, MailboxAssumption, WorkerAssumption
     DEF TypeOK, SupervisorTypeOK, MaybeInstance, Instances, workerVars
<1>1. CASE command' = command
  <2>1. ASSUME Published(launched), cpc'[command.token] \notin Holding
        PROVE  Answered(command.token)
    <3>1. CASE cpc[command.token] \notin Holding
      BY <2>1, <3>1 DEF Agreement
    <3>2. CASE cpc[command.token] \in Holding
      <4>1. Sent(command.token, launched)
        BY <2>1 DEF AddressInv, Published
      <4>2. command.token = c
        BY <2>1, <3>2, <4>1, LockShape DEF Sent
      <4>. QED  BY <2>1, <3>2, <4>1, <4>2, Leaves DEF Sent
    <3>. QED  BY <3>1, <3>2
  <2>. QED
    BY <1>0, <1>1, <2>1 DEF Agreement, Published, Passed, Answered, Serves
<1>2. CASE Publish(c)
  <2>1. cpc[c] = "publish" /\ Fresh(c) /\ cpc'[c] = "result"
    BY <1>0, <1>2 DEF Publish, Goto, Fresh, FreshPCs, ClientTypeOK
  <2>2. cinst[c] = launched
    <3>1. PICK d \in Requests : cinst[d] = launched
      BY DEF Seen
    <3>. QED
      BY <2>1, <3>1 DEF LockInv, RecordInv, Holding, TypeOK, MailboxTypeOK, ClientTypeOK,
         SupervisorTypeOK, MaybeInstance
  <2>3. \A r \in Ranks : ~Serves(launched, r)
    <3>1. CASE Published(launched)
      <4>1. Sent(command.token, launched)
        BY <3>1 DEF AddressInv, Published
      <4>2. cpc[command.token] \notin Holding
        BY <2>1, <4>1 DEF LockInv, Holding, Sent
      <4>. QED  BY <3>1, <4>2 DEF Agreement, Passed
    <3>. QED  BY <3>1 DEF Agreement
  <2>4. command' = [token |-> c, inst |-> launched]
    BY <1>2, <2>2 DEF Publish
  <2>5. ~Passed(launched, c)
    BY <1>0, <2>1, FreshIsOpen
  <2>6. (Published(launched) /\ Passed(launched, command.token))' => Passed(launched, c)
    BY <1>0, <2>4 DEF Passed, Answered
  <2>7. \A r \in Ranks : ~Serves(launched, r)'
    BY <1>0, <2>3 DEF Serves
  <2>8. cpc'[command'.token] \in Holding
    BY <2>1, <2>4 DEF Holding
  <2>. QED
    BY <1>0, <2>5, <2>6, <2>7, <2>8 DEF Agreement
<1>. QED
  BY <1>1, <1>2, ClientShape DEF Ends, End, WriteCancel, Moves, mailVars

(* The agreement of the ranks: a step of the group itself.                 *)
LEMMA AgreeWorker ==
  ASSUME TypeOK, CoreInv, GroupInv, AddressInv, HasFuture, HasFuture', launched # 0, Next,
         launched' = launched, Agreement, WorkerAny(launched), UNCHANGED clientVars
  PROVE  Agreement'
<1>0. /\ Main \in Ranks /\ launched \in Instances /\ launched \in live' /\ 0 \notin Instances
      /\ UNCHANGED <<command, cpc>>
  BY WorkerShape, WorkerAssumption
     DEF TypeOK, SupervisorTypeOK, MaybeInstance, Instances, HasFuture, Frame, clientVars
<1>1. ASSUME NEW r \in Ranks, Takes(launched, r)
      PROVE  Published(launched) /\ last'[launched][r] = command.token
                                /\ last[launched][r] # command.token
  <2>1. command.inst = launched
    BY <1>0, <1>1 DEF Takes, GroupInv, Knowing
  <2>. QED  BY <1>0, <1>1, <2>1 DEF Takes, Published, AddressInv
<1>2. ASSUME NEW r \in Ranks, Serves(launched, r)'
      PROVE  Published(launched)' /\ last'[launched][r] = command'.token
  BY <1>0, <1>1, <1>2, ServeShape DEF Agreement, Published
<1>3. ASSUME Published(launched)  PROVE command.token \in Requests
  BY <1>3 DEF TypeOK, MailboxTypeOK, Published
<1>4. ASSUME Published(launched), Passed(launched, command.token)'
      PROVE  \A r \in Ranks : last'[launched][r] = command.token /\ ~Serves(launched, r)'
  <2>1. CASE Passed(launched, command.token)
    BY <1>0, <1>1, <1>4, <2>1, ServeShape DEF Agreement
  <2>2. CASE ~Passed(launched, command.token)
    <3>1. Answered(command.token)' => FALSE
      BY <1>0, <1>3, <1>4, <2>2, WorkerWrites DEF Agreement, Passed, Answered, AtEnd
    <3>2. outputs'[launched][command.token] = "none"
      BY <1>0, <1>3, <1>4, <2>2, WorkerWrites DEF Passed, AtEnd
    <3>3. last'[launched][Main] = command.token /\ rpc'[launched][Main] \in AtEnd
      BY <1>0, <1>4, <3>1, <3>2 DEF Passed, AtEnd
    <3>4. RunCompletes(launched)
      <4>1. CASE rpc[launched][Main] \in AtEnd
        <5>1. ~Takes(launched, Main)
          BY <4>1 DEF Takes, AtEnd
        <5>. QED  BY <1>0, <2>2, <3>3, <4>1, <5>1, ServeShape DEF Passed, AtEnd
      <4>. QED  BY <1>0, <3>3, <4>1, ServeShape
    <3>5. \A r \in Ranks : rpc[launched][r] = "run" /\ last'[launched][r] = last[launched][r]
                            /\ rpc'[launched][r] \in {"ran", "poll"}
      BY <1>0, <3>4 DEF RunCompletes, TypeOK, WorkerTypeOK
    <3>. QED  BY <1>0, <3>5 DEF Agreement, Serves
  <2>. QED  BY <2>1, <2>2
<1>5. ASSUME Published(launched), cpc[command.token] \notin Holding
      PROVE  Answered(command.token)'
  <2>1. Answered(command.token) /\ command.token \in Requests
    BY <1>3, <1>5 DEF Agreement
  <2>2. results[command.token] # "none" => results'[command.token] # "none"
    BY <2>1, Settled
  <2>3. gpu_results[command.token] # 0 => gpu_results'[command.token] # 0
    BY <1>0, <2>1, WorkerWrites DEF GroupInv, Knowing, Serving
  <2>. QED  BY <1>0, <2>1, <2>2, <2>3 DEF Answered
<1>6. rpc'[launched][Main] # "reporting"
  BY <1>0, ServeShape DEF Agreement, HasFuture
<1>. QED
  BY <1>0, <1>2, <1>4, <1>5, <1>6 DEF Agreement, Published

(* The agreement of the ranks: the step of the induction.  Before a call   *)
(* has seen the group there is nothing to agree on; afterwards the group   *)
(* has been polled all along.                                              *)
LEMMA AgreeStep ==
  ASSUME "abandon" \notin Faults, TypeOK, CoreInv, GroupInv, AddressInv, FreshInv, LockInv,
         RecordInv, StateInv, AgreeInv, [Next]_vars
  PROVE  AgreeInv'
<1>0. /\ launched \in Nat /\ Main \in Ranks
      /\ launched # 0 => launched \in Instances
  BY WorkerAssumption DEF TypeOK, SupervisorTypeOK, MaybeInstance, Instances
<1>1. TypeOK' /\ AddressInv' /\ RecordInv'
  BY TypeStep, AddressStep, RecordStep
<1>. SUFFICES ASSUME launched' # 0, HasFuture'
              PROVE  Agreement'
  BY DEF AgreeInv
<1>2. CASE ~Seen'
  <2>1. launched' \in Instances
    BY <1>1 DEF TypeOK, SupervisorTypeOK, MaybeInstance, Instances
  <2>2. ~Published(launched)' /\ \A r \in Ranks : rpc'[launched'][r] \notin Engaged
    BY <1>1, <1>2, <2>1 DEF AddressInv, Published, Sent, Seen
  <2>. QED  BY <1>0, <2>2 DEF Agreement, Published, Serves, Engaged, Serving
<1>3. CASE Seen'
  <2>1. CASE UNCHANGED vars
    BY <2>1 DEF vars, mailVars, clientVars, workerVars, supervisorVars, AgreeInv, Agreement,
       HasFuture, Published, Passed, Answered, Serves
  <2>2. ASSUME NEW c \in Requests, ClientNext(c), Next, UNCHANGED <<workerVars, supervisorVars>>
        PROVE  Agreement'
    <3>1. launched' = launched
      BY <2>2 DEF supervisorVars
    <3>2. CASE Seen
      <4>1. HasFuture
        BY <3>1, <3>2, FutureStays
      <4>. QED  BY <2>2, <3>1, <3>2, <4>1, AgreeClient DEF AgreeInv
    <3>3. CASE ~Seen
      <4>1. ~Published(launched) /\ \A r \in Ranks : rpc[launched][r] \notin Engaged
        BY <1>0, <3>1, <3>3, SentIsSeen
      <4>2. ~Publish(c) \/ cinst[c] # launched
        BY <3>3 DEF Seen
      <4>3. ~Published(launched)'
        BY <2>2, <3>1, <4>1, <4>2, ClientShape
           DEF Published, Ends, End, Publish, WriteCancel, Moves, mailVars
      <4>. QED
        BY <1>0, <2>2, <3>1, <4>1, <4>3 DEF workerVars, Agreement, Serves, Engaged, Serving
    <3>. QED  BY <3>2, <3>3
  <2>3. ASSUME NEW g \in Instances, WorkerAny(g), Next, UNCHANGED <<clientVars, supervisorVars>>
        PROVE  Agreement'
    <3>1. launched' = launched /\ Seen
      BY <1>3, <2>3 DEF supervisorVars, clientVars, Seen
    <3>2. HasFuture /\ Agreement
      BY <3>1, FutureStays DEF AgreeInv
    <3>3. CASE g = launched
      BY <2>3, <3>1, <3>2, <3>3, AgreeWorker
    <3>4. CASE g # launched
      <4>1. rpc[g][Main] \in {"off", "down"}
        BY <1>0, <2>3, <3>4 DEF GroupInv, Active
      <4>2. \A t \in Requests : results'[t] = results[t] /\ gpu_results'[t] = gpu_results[t]
        BY <2>3, <4>1, WorkerWrites DEF GroupInv, NoOutputs
      <4>3. /\ UNCHANGED <<command, cpc, launched>>
            /\ rpc'[launched] = rpc[launched] /\ last'[launched] = last[launched]
            /\ outputs'[launched] = outputs[launched]
        BY <1>0, <2>3, <3>1, <3>4, WorkerShape DEF Frame, clientVars
      <4>4. Published(launched) => command.token \in Requests
        BY DEF TypeOK, MailboxTypeOK, Published
      <4>. QED
        BY <3>2, <4>2, <4>3, <4>4 DEF Agreement, Published, Passed, Answered, Serves
    <3>. QED  BY <3>3, <3>4
  <2>4. CASE SupervisorAny /\ UNCHANGED clientVars
    <3>1. /\ spc' = "poll" /\ spc \in {"poll", "report"}
          /\ UNCHANGED <<workerVars, launched, state, command, results, gpu_results, cancel,
                         errors, live>>
      BY <2>4, SupervisorPolls DEF HasFuture
    <3>2. Seen
      BY <1>3, <2>4, <3>1 DEF clientVars, Seen
    <3>3. HasFuture /\ Agreement
      BY <3>1, <3>2, FutureStays DEF AgreeInv
    <3>. QED
      BY <2>4, <3>1, <3>3 DEF Agreement, Published, Passed, Answered, Serves, clientVars, workerVars
  <2>. QED
    <3>1. ASSUME NEW c \in Requests  PROVE ~ClientFault(c)
      BY DEF ClientFault, Fault
    <3>2. ASSUME NEW c \in Requests, ClientStep(c)
          PROVE  ClientNext(c) /\ UNCHANGED <<workerVars, supervisorVars>>
      BY <3>2 DEF ClientStep
    <3>3. ASSUME NEW g \in Instances, WorkerStep(g) \/ WorkerFault(g)
          PROVE  WorkerAny(g) /\ UNCHANGED <<clientVars, supervisorVars>>
      BY <3>3 DEF WorkerStep, WorkerFault, WorkerAny, Fault
    <3>4. ASSUME SupervisorStep \/ JointStep \/ SupervisorFault
          PROVE  SupervisorAny /\ UNCHANGED clientVars
      BY <3>4 DEF SupervisorStep, JointStep, SupervisorFault, SupervisorAny
    <3>. QED  BY <2>1, <2>2, <2>3, <2>4, <3>1, <3>2, <3>3, <3>4 DEF Next
<1>. QED  BY <1>2, <1>3

(* Initially there is no group.                                            *)
LEMMA AgreeInit == Init => LockInv /\ RecordInv /\ StateInv /\ AgreeInv
<1>. SUFFICES ASSUME Init PROVE LockInv /\ RecordInv /\ StateInv /\ AgreeInv
  OBVIOUS
<1>1. LockInv
  BY DEF Init, MailboxInit, ClientInit, LockInv, Holding
<1>2. RecordInv
  BY DEF Init, MailboxInit, ClientInit, SupervisorInit, RecordInv, AtLaunch, Launching
<1>3. launched = 0
  BY DEF Init, SupervisorInit
<1>. QED  BY <1>1, <1>2, <1>3 DEF StateInv, AgreeInv

AgreedInv ==
  /\ TypeOK /\ CoreInv /\ GroupInv /\ AddressInv /\ FreshInv
  /\ LockInv /\ RecordInv /\ StateInv /\ AgreeInv

(* The inductive invariant of the attended service without abandoned calls. *)
LEMMA Agreed ==
  ASSUME "abandon" \notin Faults
  PROVE  AttendedSpec => []AgreedInv
<1>1. Init => AgreedInv
  <2>1. Init => FreshInv
    BY DEF Init, MailboxInit, FreshInv
  <2>. QED  BY <2>1, CoreInit, GroupInit, AddressInit, AgreeInit DEF AgreedInv
<1>2. AgreedInv /\ [Next /\ Attended']_vars => AgreedInv'
  <2>. SUFFICES ASSUME AgreedInv, [Next /\ Attended']_vars  PROVE AgreedInv'
    OBVIOUS
  <2>0. [Next]_vars
    OBVIOUS
  <2>1. TypeOK' /\ CoreInv' /\ GroupInv'
    BY <2>0, TypeStep, CoreStep, GroupStep DEF AgreedInv
  <2>2. AddressInv' /\ FreshInv'
    BY <2>0, AddressStep, FreshStep DEF AgreedInv
  <2>3. LockInv' /\ RecordInv' /\ StateInv'
    BY <2>0, LockStep, RecordStep, StateStep DEF AgreedInv
  <2>4. AgreeInv'
    BY <2>0, AgreeStep DEF AgreedInv
  <2>. QED  BY <2>1, <2>2, <2>3, <2>4 DEF AgreedInv
<1>. QED  BY <1>1, <1>2, PTL DEF AttendedSpec

(* A rank that runs a request is of the group launched last; and when that *)
(* group is not on its way out it has a future.                            *)
LEMMA RunsInFuture ==
  ASSUME AgreedInv, NEW g \in Instances, NEW r \in Ranks, Running(g, r), ~Doomed(g)
  PROVE  g = launched /\ Serves(launched, r) /\ Agreement
<1>1. g = launched /\ Serves(g, r) /\ launched # 0
  BY DEF AgreedInv, GroupInv, Active, Running, Serves, Instances
<1>2. ~(state.inst = g /\ state.status = "failed")
  BY DEF AgreedInv, TypeOK, MailboxTypeOK, Doomed
<1>3. spc = "poll"
  BY <1>1 DEF AgreedInv, RecordInv, Doomed, Ending
<1>4. HasFuture
  BY <1>1, <1>2, <1>3 DEF HasFuture, Doomed
<1>. QED  BY <1>1, <1>4 DEF AgreedInv, AgreeInv

(* Ranks that serve a request serve the same one, although they read       *)
(* command.json each for itself and their barriers carry no token: unless  *)
(* a call is abandoned, the next request is published only when the last   *)
(* one has passed its last barrier.                                        *)
THEOREM RanksInStep ==
  ASSUME "abandon" \notin Faults
  PROVE  AttendedSpec => []RanksAgree
<1>1. AgreedInv => RanksAgree
  BY RunsInFuture DEF RanksAgree, Agreement
<1>. QED  BY <1>1, Agreed, PTL

(* No rank runs a request that has succeeded.                              *)
THEOREM NothingTwice ==
  ASSUME "abandon" \notin Faults
  PROVE  AttendedSpec => []RunsOnlyUnsettled
<1>1. AgreedInv => RunsOnlyUnsettled
  BY RunsInFuture DEF RunsOnlyUnsettled, Agreement, Passed, Answered
<1>. QED  BY <1>1, Agreed, PTL
=============================================================================
