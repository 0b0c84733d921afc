------------------------------- MODULE Worker -------------------------------
(***************************************************************************)
(* A resident worker group: torchrun and its ranks.  Every rank reads      *)
(* launch.json when it starts and command.json in its main loop, on its    *)
(* own; the ranks meet only in barriers.  The rank that is main writes     *)
(* state.json, the results and the receipts, and owns the pool of CPU      *)
(* output completions (output_completion.py).                              *)
(*                                                                         *)
(* All state is indexed by the group: a group that lost its controller may *)
(* be alive next to the one launched after it.  What run() computes is     *)
(* left out; it ends when all ranks have reached its barriers, which carry *)
(* no token: ranks that run different requests match too.                  *)
(***************************************************************************)
EXTENDS Mailbox

CONSTANTS
  Main,         \* the rank with runtime.is_main
  Capacity      \* output slots: OutputCompletions(capacity)

ASSUME WorkerAssumption ==
  /\ Main \in Ranks
  /\ Capacity \in Nat \ {0}

VARIABLES
  rpc,          \* where each rank stands; "off" when the group is gone
  ident,        \* the instance each rank has read from launch.json
  last,         \* last_token of each rank
  slots,        \* free output slots
  outputs       \* CPU completions: encoding, or written with the slot still held

workerVars == <<rpc, ident, last, slots, outputs>>

Serving == {"slot", "run", "ran", "finish", "receipt"}
RankPCs == {"off", "starting", "joining", "loading", "poll", "raising", "reporting",
            "exiting", "leaving", "down"} \union Serving

AllOff == [r \in Ranks |-> "off"]
NoIdent == [r \in Ranks |-> 0]
NoLast == [r \in Ranks |-> NoToken]
NoOutputs == [t \in Requests |-> "none"]

WorkerTypeOK ==
  /\ rpc \in [Instances -> [Ranks -> RankPCs]]
  /\ ident \in [Instances -> [Ranks -> MaybeInstance]]
  /\ last \in [Instances -> [Ranks -> Requests \union {NoToken}]]
  /\ slots \in [Instances -> Nat]
  /\ outputs \in [Instances -> [Requests -> {"none", "encoding", "written"}]]

WorkerInit ==
  /\ rpc = [g \in Instances |-> AllOff]
  /\ ident = [g \in Instances |-> NoIdent]
  /\ last = [g \in Instances |-> NoLast]
  /\ slots = [g \in Instances |-> Capacity]
  /\ outputs = [g \in Instances |-> NoOutputs]

(* Mutant of Holders: a group that is still loading is not seen.           *)
LoadedHolders ==
  {g \in Instances : \E r \in Ranks : rpc[g][r] \in {"poll"} \union Serving}

(* The groups that nvidia-smi shows: a rank holds memory from the moment   *)
(* it loads the model until its process is gone.                           *)
Holders ==
  {g \in Instances : \E r \in Ranks : rpc[g][r] \notin {"off", "starting", "joining", "down"}}

(* Rank r of group g moves on.                                             *)
RankStep(g, r, from, to) ==
  /\ rpc[g][r] = from
  /\ rpc' = [rpc EXCEPT ![g][r] = to]

(* state() of the worker: only the main rank writes state.json.            *)
WriteState(g, r, status) ==
  state' = IF r = Main THEN [inst |-> ident[g][r], status |-> status] ELSE state

(* Joint with the controller's Popen: the rank processes start.            *)
StartRanks(g) ==
  /\ rpc' = [rpc EXCEPT ![g] = [r \in Ranks |-> "starting"]]
  /\ UNCHANGED <<ident, last, slots, outputs>>

(* SIGKILL reaches every process of these groups, their threads included.  *)
KillRanks(groups) ==
  /\ rpc' = [g \in Instances |-> IF g \in groups THEN AllOff ELSE rpc[g]]
  /\ ident' = [g \in Instances |-> IF g \in groups THEN NoIdent ELSE ident[g]]
  /\ last' = [g \in Instances |-> IF g \in groups THEN NoLast ELSE last[g]]
  /\ slots' = [g \in Instances |-> IF g \in groups THEN Capacity ELSE slots[g]]
  /\ outputs' = [g \in Instances |-> IF g \in groups THEN NoOutputs ELSE outputs[g]]

-----------------------------------------------------------------------------
(* A rank learns its instance from launch.json, which may by now be about  *)
(* another launch than the one that started it.                            *)
ReadLaunch(g, r) ==
  /\ RankStep(g, r, "starting", "joining")
  /\ ident' = [ident EXCEPT ![g][r] = launch]
  /\ UNCHANGED <<last, slots, outputs, mailVars>>

(* init_process_group() has joined the ranks; the model is loaded.         *)
LoadModels(g) ==
  /\ \A r \in Ranks : rpc[g][r] = "joining"
  /\ rpc' = [rpc EXCEPT ![g] = [r \in Ranks |-> "loading"]]
  /\ WriteState(g, Main, "loading")
  /\ UNCHANGED <<ident, last, slots, outputs, launch, owner, command, results, gpu_results,
                 cancel, supervisor, failures, errors, live, controller>>

(* Warm-up is complete, the last barrier before the loop: ready and idle.  *)
Loaded(g) ==
  /\ \A r \in Ranks : rpc[g][r] = "loading"
  /\ rpc' = [rpc EXCEPT ![g] = [r \in Ranks |-> "poll"]]
  /\ WriteState(g, Main, "ready")
  /\ UNCHANGED <<ident, last, slots, outputs, launch, owner, command, results, gpu_results,
                 cancel, supervisor, failures, errors, live, controller>>

(* Mutant of Accept: the command's instance is not compared.               *)
AcceptForAnyone(g, r) ==
  /\ RankStep(g, r, "poll", IF r = Main /\ command.token \in Deferred THEN "slot" ELSE "run")
  /\ command.token \notin {NoToken, last[g][r]}
  /\ last' = [last EXCEPT ![g][r] = command.token]
  /\ WriteState(g, r, "busy")
  /\ UNCHANGED <<ident, slots, outputs, launch, owner, command, results, gpu_results,
                 cancel, supervisor, failures, errors, live, controller>>

(* Mutant of Accept: the last token is not compared.                       *)
AcceptAgain(g, r) ==
  /\ RankStep(g, r, "poll", IF r = Main /\ command.token \in Deferred THEN "slot" ELSE "run")
  /\ command.inst = ident[g][r]
  /\ last' = [last EXCEPT ![g][r] = command.token]
  /\ WriteState(g, r, "busy")
  /\ UNCHANGED <<ident, slots, outputs, launch, owner, command, results, gpu_results,
                 cancel, supervisor, failures, errors, live, controller>>

(* One poll of the main loop that finds a new command for this instance.   *)
Accept(g, r) ==
  /\ RankStep(g, r, "poll", IF r = Main /\ command.token \in Deferred THEN "slot" ELSE "run")
  /\ command.inst = ident[g][r]
  /\ command.token # last[g][r]
  /\ last' = [last EXCEPT ![g][r] = command.token]
  /\ WriteState(g, r, "busy")
  /\ UNCHANGED <<ident, slots, outputs, launch, owner, command, results, gpu_results,
                 cancel, supervisor, failures, errors, live, controller>>

(* completions.reserve(): blocks while every slot is held.                 *)
Reserve(g) ==
  /\ RankStep(g, Main, "slot", "run")
  /\ slots[g] > 0
  /\ slots' = [slots EXCEPT ![g] = @ - 1]
  /\ UNCHANGED <<ident, last, outputs, mailVars>>

(* Mutant of RunCompletes: the main rank does not wait for the others.     *)
MainCompletes(g) ==
  /\ RankStep(g, Main, "run", "ran")
  /\ UNCHANGED <<ident, last, slots, outputs, mailVars>>

(* The last barrier of run(): every rank is in it.                         *)
RunCompletes(g) ==
  /\ \A r \in Ranks : rpc[g][r] = "run"
  /\ rpc' = [rpc EXCEPT ![g] = [r \in Ranks |-> IF r = Main THEN "ran" ELSE "poll"]]
  /\ UNCHANGED <<ident, last, slots, outputs, mailVars>>

(* state("ready", "idle") comes before the result or the receipt.          *)
ReportIdle(g) ==
  /\ RankStep(g, Main, "ran", "finish")
  /\ WriteState(g, Main, "ready")
  /\ UNCHANGED <<ident, last, slots, outputs, launch, owner, command, results, gpu_results,
                 cancel, supervisor, failures, errors, live, controller>>

WriteResult(g) ==
  /\ RankStep(g, Main, "finish", "poll")
  /\ last[g][Main] \notin Deferred
  /\ results' = [results EXCEPT ![last[g][Main]] = "ok"]
  /\ UNCHANGED <<ident, last, slots, outputs, state, launch, owner, command, gpu_results,
                 cancel, supervisor, failures, errors, live, controller>>

(* completions.submit() hands the output to the pool before it writes the  *)
(* receipt.                                                                *)
SubmitOutput(g) ==
  /\ RankStep(g, Main, "finish", "receipt")
  /\ last[g][Main] \in Deferred
  /\ outputs' = [outputs EXCEPT ![g][last[g][Main]] = "encoding"]
  /\ UNCHANGED <<ident, last, slots, mailVars>>

WriteReceipt(g) ==
  /\ RankStep(g, Main, "receipt", "poll")
  /\ gpu_results' = [gpu_results EXCEPT ![last[g][Main]] = ident[g][Main]]
  /\ UNCHANGED <<ident, last, slots, outputs, state, launch, owner, command, results,
                 cancel, supervisor, failures, errors, live, controller>>

(* complete() in the pool: an encoder error is a failed result of the job  *)
(* alone; the slot is released after the result is on disk.                *)
CompleteOutput(g, t, verdict) ==
  /\ outputs[g][t] = "encoding"
  /\ results' = [results EXCEPT ![t] = verdict]
  /\ outputs' = [outputs EXCEPT ![g][t] = "written"]
  /\ UNCHANGED <<rpc, ident, last, slots, state, launch, owner, command, gpu_results,
                 cancel, supervisor, failures, errors, live, controller>>

(* Mutant of ReleaseSlot: the slot is released twice.                      *)
ReleaseSlotTwice(g, t) ==
  /\ outputs[g][t] = "written"
  /\ outputs' = [outputs EXCEPT ![g][t] = "none"]
  /\ slots' = [slots EXCEPT ![g] = @ + 2]
  /\ UNCHANGED <<rpc, ident, last, mailVars>>

ReleaseSlot(g, t) ==
  /\ outputs[g][t] = "written"
  /\ outputs' = [outputs EXCEPT ![g][t] = "none"]
  /\ slots' = [slots EXCEPT ![g] = @ + 1]
  /\ UNCHANGED <<rpc, ident, last, mailVars>>

-----------------------------------------------------------------------------
(* A rank raises before its main loop, or in run(), main also after the    *)
(* last barrier.  While it serves a request, the main rank writes          *)
(* state.json and the result before it lets the exception go.              *)
RankRaises(g, r) ==
  /\ rpc[g][r] \in {"starting", "joining", "loading", "run", "ran"}
  /\ rpc' = [rpc EXCEPT ![g][r] =
               IF r = Main /\ rpc[g][r] \in Serving THEN "raising" ELSE "exiting"]
  /\ UNCHANGED <<ident, last, slots, outputs, mailVars>>

(* Writing the receipt fails (a full disk): the exception handler runs     *)
(* although the completion is already on its way.                          *)
ReceiptWriteFails(g) ==
  /\ RankStep(g, Main, "receipt", "raising")
  /\ UNCHANGED <<ident, last, slots, outputs, mailVars>>

ReportFailedState(g) ==
  /\ RankStep(g, Main, "raising", "reporting")
  /\ WriteState(g, Main, "failed")
  /\ UNCHANGED <<ident, last, slots, outputs, launch, owner, command, results, gpu_results,
                 cancel, supervisor, failures, errors, live, controller>>

WriteFailedResult(g) ==
  /\ RankStep(g, Main, "reporting", "exiting")
  /\ results' = [results EXCEPT ![last[g][Main]] = "failed"]
  /\ UNCHANGED <<ident, last, slots, outputs, state, launch, owner, command, gpu_results,
                 cancel, supervisor, failures, errors, live, controller>>

(* Mutant of WriteError: filed under the identity the rank has read, even  *)
(* if it has not read any.                                                 *)
WriteOwnError(g, r) ==
  /\ RankStep(g, r, "exiting", "leaving")
  /\ errors' = errors \union {ident[g][r]}
  /\ UNCHANGED <<ident, last, slots, outputs, state, launch, owner, command, results,
                 gpu_results, cancel, supervisor, failures, live, controller>>

(* __main__: the traceback is filed under the instance launch.json names   *)
(* now, which need not be the rank's own.                                  *)
WriteError(g, r) ==
  /\ RankStep(g, r, "exiting", "leaving")
  /\ errors' = errors \union {launch}
  /\ UNCHANGED <<ident, last, slots, outputs, state, launch, owner, command, results,
                 gpu_results, cancel, supervisor, failures, live, controller>>

(* The interpreter exits; it joins the threads of the pool first.          *)
Exit(g, r) ==
  /\ RankStep(g, r, "leaving", "down")
  /\ r = Main => outputs[g] = NoOutputs
  /\ UNCHANGED <<ident, last, slots, outputs, mailVars>>

(* A rank dies without a Python exception (OOM killer, segfault).          *)
RankDies(g, r) ==
  /\ rpc[g][r] \notin {"off", "down"}
  /\ rpc' = [rpc EXCEPT ![g][r] = "down"]
  /\ outputs' = [outputs EXCEPT ![g] = IF r = Main THEN NoOutputs ELSE @]
  /\ UNCHANGED <<ident, last, slots, mailVars>>

(* torchrun sees a rank exit, kills the others and exits itself.           *)
GroupExits(g) ==
  /\ g \in live
  /\ \E r \in Ranks : rpc[g][r] = "down"
  /\ live' = live \ {g}
  /\ KillRanks({g})
  /\ UNCHANGED <<state, launch, owner, command, results, gpu_results,
                 cancel, supervisor, failures, errors, controller>>

WorkerNext(g) ==
  \/ LoadModels(g) \/ Loaded(g) \/ Reserve(g) \/ RunCompletes(g) \/ ReportIdle(g)
  \/ WriteResult(g) \/ SubmitOutput(g) \/ WriteReceipt(g)
  \/ ReportFailedState(g) \/ WriteFailedResult(g) \/ GroupExits(g)
  \/ \E r \in Ranks : ReadLaunch(g, r) \/ Accept(g, r) \/ WriteError(g, r) \/ Exit(g, r)
  \/ \E t \in Requests : ReleaseSlot(g, t) \/ \E v \in Verdicts : CompleteOutput(g, t, v)
=============================================================================
