----------------------------- MODULE JobRecords -----------------------------
(***************************************************************************)
(* The records of REST jobs (jobs.py) and the three kinds of thread that   *)
(* update them: the HTTP loop (api.py, business_api.py), the prompt worker *)
(* of ComfyUI that runs the task's node (nodes.py), and the pool of output *)
(* finalizers.  jobs.update_job reads a record and writes it back merged   *)
(* with the changes, so it is two steps, and every thread keeps what it    *)
(* has read.  The HTTP handlers of one process run one at a time between   *)
(* two awaits: one request is being answered at any moment.                *)
(*                                                                         *)
(* The queue and its history live in the API process and are lost with it; *)
(* the records survive.  What generate() does is Resident's: here it       *)
(* raises or returns a pending output, which then succeeds or fails.       *)
(***************************************************************************)
EXTENDS Naturals, FiniteSets

CONSTANTS
  Jobs,         \* job ids
  NoJob,
  PoolSize,     \* _OUTPUT_FINALIZERS: max_workers
  MaxProcess    \* bound: API processes started

ASSUME JobsAssumption ==
  /\ NoJob \notin Jobs
  /\ PoolSize \in Nat \ {0}
  /\ MaxProcess \in Nat \ {0}

VARIABLES
  record,       \* api/jobs/{job}.json: status, phase and output_owner
  output,       \* jobs whose video and metrics are on disk
  process,      \* the running API process, 0 when there is none
  started,      \* API processes started so far
  queue,        \* PromptQueue: where each job is
  number,       \* its queue number, and server.number
  next_number,
  history,      \* PromptQueue history of this process
  hpc, hjob, hread, hchange,   \* the HTTP loop, inside current_job
  wpc, wjob, wread,            \* the prompt worker
  fpc, fread                   \* the finalizer of each job

queueVars == <<queue, number, next_number, history>>
httpVars == <<hpc, hjob, hread, hchange>>
workerVars == <<wpc, wjob, wread>>
finalVars == <<fpc, fread>>
vars == <<record, output, process, started, queueVars, httpVars, workerVars, finalVars>>

Terminal == {"succeeded", "failed", "interrupted"}
Statuses == {"none", "queued", "running"} \union Terminal
Phases == {"queued", "working", "encoding_output", "complete", "failed"}
Processes == 0 .. MaxProcess
Records == [status: Statuses, phase: Phases, owner: Processes]

HttpPCs == {"idle", "history", "queue", "read", "write"}
WorkerPCs == {"idle", "guard", "begin", "begin_write", "generate", "encode", "encode_write",
              "submit", "fail", "fail_write", "done", "error"}
FinalPCs == {"none", "waiting", "finish", "succeed", "succeed_write", "fail", "fail_write", "over"}

NoRecord == [status |-> "none", phase |-> "queued", owner |-> 0]

TypeOK ==
  /\ record \in [Jobs -> Records]
  /\ output \subseteq Jobs
  /\ process \in Processes
  /\ started \in Processes
  /\ queue \in [Jobs -> {"out", "pending", "running"}]
  /\ number \in [Jobs -> Nat]
  /\ next_number \in Nat
  /\ history \in [Jobs -> {"none", "success", "error"}]
  /\ hpc \in HttpPCs
  /\ hjob \in Jobs \union {NoJob}
  /\ hread \in Records
  /\ hchange \in {"failed", "interrupted"}
  /\ wpc \in WorkerPCs
  /\ wjob \in Jobs \union {NoJob}
  /\ wread \in Records
  /\ fpc \in [Jobs -> FinalPCs]
  /\ fread \in [Jobs -> Records]

Init ==
  /\ record = [j \in Jobs |-> NoRecord]
  /\ output = {}
  /\ process = 0
  /\ started = 0
  /\ queue = [j \in Jobs |-> "out"]
  /\ number = [j \in Jobs |-> 0]
  /\ next_number = 0
  /\ history = [j \in Jobs |-> "none"]
  /\ hpc = "idle" /\ hjob = NoJob /\ hread = NoRecord /\ hchange = "failed"
  /\ wpc = "idle" /\ wjob = NoJob /\ wread = NoRecord
  /\ fpc = [j \in Jobs |-> "none"]
  /\ fread = [j \in Jobs |-> NoRecord]

-----------------------------------------------------------------------------
(* The HTTP loop.  submit() creates the record and queues the task without *)
(* an await in between; put() may raise.                                   *)
Submit(j) ==
  /\ process # 0 /\ hpc = "idle"
  /\ record[j].status = "none"
  /\ record' = [record EXCEPT ![j].status = "queued"]
  /\ queue' = [queue EXCEPT ![j] = "pending"]
  /\ number' = [number EXCEPT ![j] = next_number]
  /\ next_number' = next_number + 1
  /\ UNCHANGED <<output, process, started, history, httpVars, workerVars, finalVars>>

SubmitFails(j) ==
  /\ process # 0 /\ hpc = "idle"
  /\ record[j].status = "none"
  /\ record' = [record EXCEPT ![j].status = "failed"]
  /\ next_number' = next_number + 1
  /\ UNCHANGED <<output, process, started, queue, number, history, httpVars, workerVars, finalVars>>

Encoding(r) == r.phase = "encoding_output" /\ r.status = "running"

(* Mutant of Query: the owner of an output is not asked for.               *)
QueryTrustsOwner(j) ==
  /\ process # 0 /\ hpc = "idle"
  /\ hjob' = j
  /\ ~Encoding(record[j])
  /\ record[j].status \notin Terminal \union {"none"}
  /\ hpc' = "history"
  /\ UNCHANGED <<record, output, process, started, queueVars, hread, hchange, workerVars, finalVars>>

(* current_job(): the record is read first.  While the output is encoded   *)
(* only the life of its owner counts; otherwise the history and the queue  *)
(* are looked at, one after the other.                                     *)
Query(j) ==
  /\ process # 0 /\ hpc = "idle"
  /\ hjob' = j
  /\ \/ /\ Encoding(record[j])
        /\ record[j].owner # process
        /\ hpc' = "read"
        /\ hchange' = "interrupted"
     \/ /\ ~Encoding(record[j])
        /\ record[j].status \notin Terminal \union {"none"}
        /\ hpc' = "history"
        /\ UNCHANGED hchange
  /\ UNCHANGED <<record, output, process, started, queueVars, hread, workerVars, finalVars>>

ReadHistory ==
  /\ hpc = "history"
  /\ \/ history[hjob] = "error" /\ hpc' = "read" /\ hchange' = "failed"
     \/ history[hjob] # "error" /\ hpc' = "queue" /\ UNCHANGED hchange
  /\ UNCHANGED <<record, output, process, started, queueVars, hjob, hread, workerVars, finalVars>>

(* Mutant of ReadQueue: pending tasks are overlooked.                      *)
ReadRunning ==
  /\ hpc = "queue"
  /\ \/ queue[hjob] # "running" /\ hpc' = "read" /\ hchange' = "interrupted"
     \/ queue[hjob] = "running" /\ hpc' = "idle" /\ UNCHANGED hchange
  /\ UNCHANGED <<record, output, process, started, queueVars, hjob, hread, workerVars, finalVars>>

ReadQueue ==
  /\ hpc = "queue"
  /\ \/ queue[hjob] = "out" /\ hpc' = "read" /\ hchange' = "interrupted"
     \/ queue[hjob] # "out" /\ hpc' = "idle" /\ UNCHANGED hchange
  /\ UNCHANGED <<record, output, process, started, queueVars, hjob, hread, workerVars, finalVars>>

HttpRead ==
  /\ hpc = "read"
  /\ hpc' = "write"
  /\ hread' = record[hjob]
  /\ UNCHANGED <<record, output, process, started, queueVars, hjob, hchange, workerVars, finalVars>>

HttpWrite ==
  /\ hpc = "write"
  /\ hpc' = "idle"
  /\ record' = [record EXCEPT ![hjob] = [hread EXCEPT !.status = hchange]]
  /\ UNCHANGED <<output, process, started, queueVars, hjob, hread, hchange, workerVars, finalVars>>

(* A user takes a pending task out of ComfyUI's queue.                     *)
Remove(j) ==
  /\ process # 0
  /\ queue[j] = "pending"
  /\ queue' = [queue EXCEPT ![j] = "out"]
  /\ UNCHANGED <<record, output, process, started, number, next_number, history, httpVars,
                 workerVars, finalVars>>

-----------------------------------------------------------------------------
(* The prompt worker takes the pending task with the least number.         *)
Take(j) ==
  /\ process # 0 /\ wpc = "idle"
  /\ queue[j] = "pending"
  /\ \A k \in Jobs : queue[k] = "pending" => number[j] <= number[k]
  /\ queue' = [queue EXCEPT ![j] = "running"]
  /\ wpc' = "guard"
  /\ wjob' = j
  /\ UNCHANGED <<record, output, process, started, number, next_number, history, httpVars,
                 wread, finalVars>>

WorkerGoes(from, to) ==
  /\ wpc = from
  /\ wpc' = to
  /\ UNCHANGED <<wjob, output, process, started, queueVars, httpVars, fread>>

WorkerReads(from, to) ==
  WorkerGoes(from, to) /\ wread' = record[wjob] /\ UNCHANGED <<record, fpc>>

WorkerWrites(from, to, new) ==
  WorkerGoes(from, to) /\ record' = [record EXCEPT ![wjob] = new] /\ UNCHANGED <<wread, fpc>>

(* The node of a task runs only while its record says queued.              *)
Guard ==
  /\ WorkerGoes("guard", IF record[wjob].status = "queued" THEN "begin" ELSE "error")
  /\ UNCHANGED <<record, wread, fpc>>

(* update_job(running): before generate(), and from its progress callback. *)
BeginRead == WorkerReads("begin", "begin_write")
BeginWrite ==
  WorkerWrites("begin_write", "generate", [wread EXCEPT !.status = "running", !.phase = "working"])
Progress == WorkerGoes("generate", "begin") /\ UNCHANGED <<record, wread, fpc>>

(* generate() raises, or returns the pending output.                       *)
GenerateFails == WorkerGoes("generate", "fail") /\ UNCHANGED <<record, wread, fpc>>

(* Mutant of GenerateReturns: the finalizer is submitted first.            *)
FinalizerFirst ==
  /\ WorkerGoes("generate", "encode")
  /\ fpc' = [fpc EXCEPT ![wjob] = "waiting"]
  /\ UNCHANGED <<record, wread>>

GenerateReturns == WorkerGoes("generate", "encode") /\ UNCHANGED <<record, wread, fpc>>

EncodeRead == WorkerReads("encode", "encode_write")
EncodeWrite ==
  WorkerWrites("encode_write", "submit",
    [wread EXCEPT !.status = "running", !.phase = "encoding_output", !.owner = process])

SubmitFinalizer ==
  /\ WorkerGoes("submit", "done")
  /\ fpc' = [fpc EXCEPT ![wjob] = "waiting"]
  /\ UNCHANGED <<record, wread>>

FailRead == WorkerReads("fail", "fail_write")
FailWrite == WorkerWrites("fail_write", "error", [wread EXCEPT !.status = "failed"])

(* task_done(): out of the running tasks and into the history, in one step *)
(* under the mutex of the queue.                                           *)
TaskDone ==
  /\ wpc \in {"done", "error"}
  /\ wpc' = "idle"
  /\ queue' = [queue EXCEPT ![wjob] = "out"]
  /\ history' = [history EXCEPT ![wjob] = IF wpc = "done" THEN "success" ELSE "error"]
  /\ UNCHANGED <<record, output, process, started, number, next_number, httpVars, wjob, wread,
                 finalVars>>

-----------------------------------------------------------------------------
(* The finalizers: complete() of a job, in the order of submission, on one *)
(* of the threads of the pool.                                             *)
InPool(j) == fpc[j] \notin {"none", "waiting", "over"}

FinalGoes(j, from, to) ==
  /\ fpc[j] = from
  /\ fpc' = [fpc EXCEPT ![j] = to]
  /\ UNCHANGED <<process, started, queueVars, httpVars, workerVars>>

StartFinal(j) ==
  /\ FinalGoes(j, "waiting", "finish")
  /\ Cardinality({k \in Jobs : InPool(k)}) < PoolSize
  /\ \A k \in Jobs : fpc[k] = "waiting" => number[j] <= number[k]
  /\ UNCHANGED <<record, output, fread>>

(* result.finish() and the metrics files, then update_job(succeeded).      *)
OutputFinished(j) ==
  /\ FinalGoes(j, "finish", "succeed")
  /\ output' = output \union {j}
  /\ UNCHANGED <<record, fread>>

(* Mutant of OutputFails: the error is swallowed.                          *)
SwallowError(j) == FinalGoes(j, "finish", "succeed") /\ UNCHANGED <<record, output, fread>>

OutputFails(j) == FinalGoes(j, "finish", "fail") /\ UNCHANGED <<record, output, fread>>

FinalReads(j, from, to) ==
  FinalGoes(j, from, to) /\ fread' = [fread EXCEPT ![j] = record[j]] /\ UNCHANGED <<record, output>>

FinalWrites(j, from, status, phase) ==
  /\ FinalGoes(j, from, "over")
  /\ record' = [record EXCEPT ![j] = [fread[j] EXCEPT !.status = status, !.phase = phase]]
  /\ UNCHANGED <<output, fread>>

SucceedRead(j) == FinalReads(j, "succeed", "succeed_write")
SucceedWrite(j) == FinalWrites(j, "succeed_write", "succeeded", "complete")
FinalFailRead(j) == FinalReads(j, "fail", "fail_write")
FinalFailWrite(j) == FinalWrites(j, "fail_write", "failed", "failed")

-----------------------------------------------------------------------------
StartProcess ==
  /\ process = 0
  /\ started < MaxProcess
  /\ started' = started + 1
  /\ process' = started + 1
  /\ UNCHANGED <<record, output, queueVars, httpVars, workerVars, finalVars>>

(* The API process goes, with its queue, its history and its threads.      *)
ProcessDies ==
  /\ process # 0
  /\ process' = 0
  /\ queue' = [j \in Jobs |-> "out"]
  /\ number' = [j \in Jobs |-> 0]
  /\ next_number' = 0
  /\ history' = [j \in Jobs |-> "none"]
  /\ hpc' = "idle" /\ hjob' = NoJob /\ hread' = NoRecord /\ hchange' = "failed"
  /\ wpc' = "idle" /\ wjob' = NoJob /\ wread' = NoRecord
  /\ fpc' = [j \in Jobs |-> "none"]
  /\ fread' = [j \in Jobs |-> NoRecord]
  /\ UNCHANGED <<record, output, started>>

HttpAnswers == ReadHistory \/ ReadQueue \/ HttpRead \/ HttpWrite

WorkerProceeds ==
  \/ \E j \in Jobs : Take(j)
  \/ Guard \/ BeginRead \/ BeginWrite \/ EncodeRead \/ EncodeWrite
  \/ SubmitFinalizer \/ FailRead \/ FailWrite \/ TaskDone

FinalProceeds(j) ==
  \/ StartFinal(j) \/ OutputFinished(j) \/ OutputFails(j)
  \/ SucceedRead(j) \/ SucceedWrite(j) \/ FinalFailRead(j) \/ FinalFailWrite(j)

Next ==
  \/ \E j \in Jobs : Submit(j) \/ SubmitFails(j) \/ Query(j) \/ Remove(j) \/ FinalProceeds(j)
  \/ HttpAnswers
  \/ WorkerProceeds \/ Progress \/ GenerateFails \/ GenerateReturns
  \/ StartProcess \/ ProcessDies

Spec == Init /\ [][Next]_vars

(* Fairness: the threads of a process run, generate() and finish() end     *)
(* (Resident: EveryCallEnds), and callers go on asking about their jobs.   *)
FairSpec ==
  /\ Spec
  /\ WF_vars(HttpAnswers)
  /\ WF_vars(WorkerProceeds)
  /\ SF_vars(GenerateFails \/ GenerateReturns)
  /\ \A j \in Jobs : WF_vars(FinalProceeds(j)) /\ SF_vars(Query(j))

-----------------------------------------------------------------------------
(* A task that succeeded has its video and its metrics on disk, whoever    *)
(* wrote the record last: "only after the MP4 and the timing records are   *)
(* on disk does a task enter succeeded" (README).                          *)
OutputBeforeSuccess == \A j \in Jobs : record[j].status = "succeeded" => j \in output

(* A task that was reported over is never reported as queued or running    *)
(* again, although three threads write back what they have read before.    *)
NeverReopened ==
  [][\A j \in Jobs : record[j].status \in Terminal => record'[j].status \in Terminal]_vars

(* A task the API has queued is never refused as "unavailable or already   *)
(* executed": no query marks it before its turn.                           *)
NeverRefused == wpc = "guard" => record[wjob].status = "queued"

(* No task whose node has returned is marked "Job removed from queue or    *)
(* server restarted" (api.current_job).                                    *)
InterruptedTruthfully ==
  [][\A j \in Jobs :
       record[j].status # "interrupted" /\ record'[j].status = "interrupted"
         => history[j] # "success"]_vars

(* A task whose callers go on asking is settled, in this process or, when  *)
(* that one dies, in a later one.                                          *)
EveryTaskSettles ==
  \A j \in Jobs :
    record[j].status # "none" /\ process # 0 ~> record[j].status \in Terminal \/ process = 0
=============================================================================
