-------------------------- MODULE JobRecordsProofs --------------------------
(***************************************************************************)
(* Theorems about the job records, for any number of jobs, finalizers and  *)
(* API processes: type correctness, a success has its output, a task that  *)
(* is over is never reopened, and no task is refused.                      *)
(***************************************************************************)
EXTENDS JobRecords, TLAPS

(* The worker may still write "running" over the record of its task.       *)
Early == {"guard", "begin", "begin_write", "generate", "encode", "encode_write",
          "submit", "fail", "fail_write"}
Before == Early \ {"submit"}

(* Task j is waiting for the worker, or the worker still updates it.       *)
Open(j) == queue[j] = "pending" \/ (queue[j] = "running" /\ wpc \in Early)

(* The HTTP loop has decided to end its task.                              *)
Deciding(j) == hpc \in {"read", "write"} /\ hjob = j

(* Nothing runs without a process, and the worker has the running task.    *)
ThreadInv ==
  /\ process = 0 =>
       /\ hpc = "idle" /\ wpc = "idle"
       /\ \A j \in Jobs : queue[j] = "out" /\ fpc[j] = "none" /\ history[j] = "none"
  /\ wpc # "idle" => wjob \in Jobs /\ queue[wjob] = "running"
  /\ \A j \in Jobs : queue[j] = "running" => wpc # "idle" /\ wjob = j
  /\ hpc # "idle" => hjob \in Jobs /\ record[hjob].status # "none"
  /\ \A j \in Jobs : history[j] # "none" \/ fpc[j] # "none" \/ queue[j] # "out"
                       => record[j].status # "none"

(* Whoever ends a task does so when it is not open any more, and only the  *)
(* process that encodes an output is its owner.                            *)
RecordInv ==
  /\ \A j \in Jobs : Open(j) =>
       record[j].status \notin Terminal /\ fpc[j] = "none" /\ ~Deciding(j) /\ history[j] = "none"
  /\ \A j \in Jobs : queue[j] = "pending" =>
       record[j].status = "queued" /\ record[j].phase = "queued"
  /\ \A j \in Jobs : record[j].status = "none" => record[j].phase = "queued"
  /\ wpc = "guard" => record[wjob].status = "queued"
  /\ wpc \in Before => record[wjob].phase \in {"queued", "working"}
  /\ wpc \in {"begin_write", "encode_write", "fail_write"} => wread.phase \in {"queued", "working"}
  /\ wpc = "submit" => Encoding(record[wjob]) /\ record[wjob].owner = process

OutputInv ==
  /\ \A j \in Jobs : fpc[j] \in {"succeed", "succeed_write"} => j \in output
  /\ OutputBeforeSuccess

JobInv == TypeOK /\ ThreadInv /\ RecordInv /\ OutputInv

-----------------------------------------------------------------------------
(* What update_job merges into a record leaves a record.                   *)
LEMMA RecordUpdates ==
  ASSUME NEW r \in Records, NEW s \in Statuses, NEW p \in Phases, NEW o \in Processes
  PROVE  /\ [r EXCEPT !.status = s] \in Records
         /\ [r EXCEPT !.status = s, !.phase = p] \in Records
         /\ [r EXCEPT !.status = s, !.phase = p, !.owner = o] \in Records
BY DEF Records

(* The statuses and phases that the code writes.                           *)
LEMMA Names ==
  /\ {"queued", "running", "succeeded", "failed", "interrupted"} \subseteq Statuses
  /\ {"queued", "working", "encoding_output", "complete", "failed"} \subseteq Phases
  /\ NoRecord \in Records
BY JobsAssumption DEF Statuses, Terminal, Phases, NoRecord, Records, Processes

(* The invariant holds at the start: nothing runs, nothing is recorded.    *)
LEMMA InitInv ==
  ASSUME Init
  PROVE  JobInv
<1>1. TypeOK
  BY Names, JobsAssumption DEF Init, TypeOK, Processes, HttpPCs, WorkerPCs, FinalPCs
<1>2. ThreadInv
  BY DEF Init, ThreadInv
<1>3. RecordInv
  BY DEF Init, RecordInv, Open, Deciding, Terminal, NoRecord, Early, Before
<1>4. OutputInv
  BY DEF Init, OutputInv, OutputBeforeSuccess, NoRecord
<1>. QED
  BY <1>1, <1>2, <1>3, <1>4 DEF JobInv

-----------------------------------------------------------------------------
(* Steps keep the types: a thread inside a function holds a job.           *)
LEMMA TypesStep ==
  ASSUME TypeOK, ThreadInv, [Next]_vars
  PROVE  TypeOK'
<1>. USE DEF TypeOK, ThreadInv, queueVars, httpVars, workerVars, finalVars, WorkerGoes,
             WorkerReads, WorkerWrites, FinalGoes, FinalReads, FinalWrites
<1>1. ASSUME NEW i \in Jobs, Submit(i)
      PROVE  TypeOK'
  <2>1. record' \in [Jobs -> Records]
    BY <1>1, RecordUpdates, Names DEF Submit
  <2>. QED
    BY <1>1, <2>1 DEF Submit, HttpPCs, WorkerPCs, FinalPCs
<1>2. ASSUME NEW i \in Jobs, SubmitFails(i)
      PROVE  TypeOK'
  <2>1. record' \in [Jobs -> Records]
    BY <1>2, RecordUpdates, Names DEF SubmitFails
  <2>. QED
    BY <1>2, <2>1 DEF SubmitFails, HttpPCs, WorkerPCs, FinalPCs
<1>3. ASSUME NEW i \in Jobs, Query(i)
      PROVE  TypeOK'
  BY <1>3, Names, JobsAssumption DEF Query, HttpPCs, WorkerPCs, FinalPCs, Processes
<1>4. ASSUME NEW i \in Jobs, Remove(i)
      PROVE  TypeOK'
  BY <1>4, Names, JobsAssumption DEF Remove, HttpPCs, WorkerPCs, FinalPCs, Processes
<1>5. ASSUME NEW i \in Jobs, Take(i)
      PROVE  TypeOK'
  BY <1>5, Names, JobsAssumption DEF Take, HttpPCs, WorkerPCs, FinalPCs, Processes
<1>6. CASE ReadHistory
  BY <1>6, Names, JobsAssumption DEF ReadHistory, HttpPCs, WorkerPCs, FinalPCs, Processes
<1>7. CASE ReadQueue
  BY <1>7, Names, JobsAssumption DEF ReadQueue, HttpPCs, WorkerPCs, FinalPCs, Processes
<1>8. CASE HttpRead
  BY <1>8, Names, JobsAssumption DEF HttpRead, HttpPCs, WorkerPCs, FinalPCs, Processes
<1>9. CASE HttpWrite
  <2>1. record' \in [Jobs -> Records]
    BY <1>9, RecordUpdates, Names DEF HttpWrite
  <2>. QED
    BY <1>9, <2>1 DEF HttpWrite, HttpPCs, WorkerPCs, FinalPCs
<1>10. CASE Guard
  BY <1>10, Names, JobsAssumption DEF Guard, HttpPCs, WorkerPCs, FinalPCs, Processes
<1>11. CASE BeginRead \/ EncodeRead \/ FailRead
  BY <1>11, Names, JobsAssumption DEF BeginRead, EncodeRead, FailRead, HttpPCs, WorkerPCs,
       FinalPCs, Processes
<1>12. CASE BeginWrite
  <2>1. record' \in [Jobs -> Records]
    BY <1>12, RecordUpdates, Names DEF BeginWrite
  <2>. QED
    BY <1>12, <2>1 DEF BeginWrite, HttpPCs, WorkerPCs, FinalPCs
<1>13. CASE EncodeWrite
  <2>1. record' \in [Jobs -> Records]
    BY <1>13, RecordUpdates, Names DEF EncodeWrite
  <2>. QED
    BY <1>13, <2>1 DEF EncodeWrite, HttpPCs, WorkerPCs, FinalPCs
<1>14. CASE FailWrite
  <2>1. record' \in [Jobs -> Records]
    BY <1>14, RecordUpdates, Names DEF FailWrite
  <2>. QED
    BY <1>14, <2>1 DEF FailWrite, HttpPCs, WorkerPCs, FinalPCs
<1>15. CASE Progress \/ GenerateFails \/ GenerateReturns
  BY <1>15, Names, JobsAssumption DEF Progress, GenerateFails, GenerateReturns, HttpPCs,
       WorkerPCs, FinalPCs, Processes
<1>16. CASE SubmitFinalizer
  BY <1>16, Names, JobsAssumption DEF SubmitFinalizer, HttpPCs, WorkerPCs, FinalPCs,
       Processes
<1>17. CASE TaskDone
  BY <1>17, Names, JobsAssumption DEF TaskDone, HttpPCs, WorkerPCs, FinalPCs, Processes
<1>18. ASSUME NEW i \in Jobs, StartFinal(i)
      PROVE  TypeOK'
  BY <1>18, Names, JobsAssumption DEF StartFinal, HttpPCs, WorkerPCs, FinalPCs, Processes
<1>19. ASSUME NEW i \in Jobs, OutputFinished(i)
      PROVE  TypeOK'
  BY <1>19, Names, JobsAssumption DEF OutputFinished, HttpPCs, WorkerPCs, FinalPCs,
       Processes
<1>20. ASSUME NEW i \in Jobs, OutputFails(i)
      PROVE  TypeOK'
  BY <1>20, Names, JobsAssumption DEF OutputFails, HttpPCs, WorkerPCs, FinalPCs, Processes
<1>21. ASSUME NEW i \in Jobs, SucceedRead(i) \/ FinalFailRead(i)
      PROVE  TypeOK'
  BY <1>21, Names, JobsAssumption DEF SucceedRead, FinalFailRead, HttpPCs, WorkerPCs,
       FinalPCs, Processes
<1>22. ASSUME NEW i \in Jobs, SucceedWrite(i)
      PROVE  TypeOK'
  <2>1. record' \in [Jobs -> Records]
    BY <1>22, RecordUpdates, Names DEF SucceedWrite
  <2>. QED
    BY <1>22, <2>1 DEF SucceedWrite, HttpPCs, WorkerPCs, FinalPCs
<1>23. ASSUME NEW i \in Jobs, FinalFailWrite(i)
      PROVE  TypeOK'
  <2>1. record' \in [Jobs -> Records]
    BY <1>23, RecordUpdates, Names DEF FinalFailWrite
  <2>. QED
    BY <1>23, <2>1 DEF FinalFailWrite, HttpPCs, WorkerPCs, FinalPCs
<1>24. CASE StartProcess
  BY <1>24, Names, JobsAssumption DEF StartProcess, HttpPCs, WorkerPCs, FinalPCs, Processes
<1>25. CASE ProcessDies
  BY <1>25, Names, JobsAssumption DEF ProcessDies, HttpPCs, WorkerPCs, FinalPCs, Processes
<1>26. CASE UNCHANGED vars
  BY <1>26 DEF vars
<1>. QED
  BY <1>1, <1>2, <1>3, <1>4, <1>5, <1>6, <1>7, <1>8, <1>9, <1>10, <1>11, <1>12, <1>13,
     <1>14, <1>15, <1>16, <1>17, <1>18, <1>19, <1>20, <1>21, <1>22, <1>23, <1>24, <1>25,
     <1>26
  DEF Next, HttpAnswers, WorkerProceeds, FinalProceeds

(* Steps keep what a thread has at hand.                                   *)
LEMMA ThreadStep ==
  ASSUME TypeOK, ThreadInv, [Next]_vars
  PROVE  ThreadInv'
<1>. USE DEF TypeOK, ThreadInv, Records, Terminal, NoRecord, queueVars, httpVars,
             workerVars, finalVars, WorkerGoes, WorkerReads, WorkerWrites, FinalGoes,
             FinalReads, FinalWrites
<1>1. ASSUME NEW i \in Jobs, Submit(i)
      PROVE  ThreadInv'
  BY <1>1 DEF Submit
<1>2. ASSUME NEW i \in Jobs, SubmitFails(i)
      PROVE  ThreadInv'
  BY <1>2 DEF SubmitFails
<1>3. ASSUME NEW i \in Jobs, Query(i)
      PROVE  ThreadInv'
  <2>1. process # 0 /\ record[i].status # "none"
    BY <1>3 DEF Query, Encoding
  <2>. QED
    BY <1>3, <2>1 DEF Query
<1>4. ASSUME NEW i \in Jobs, Remove(i)
      PROVE  ThreadInv'
  BY <1>4 DEF Remove
<1>5. ASSUME NEW i \in Jobs, Take(i)
      PROVE  ThreadInv'
  BY <1>5 DEF Take
<1>6. CASE ReadHistory
  BY <1>6 DEF ReadHistory
<1>7. CASE ReadQueue
  BY <1>7 DEF ReadQueue
<1>8. CASE HttpRead
  BY <1>8 DEF HttpRead
<1>9. CASE HttpWrite
  BY <1>9 DEF HttpWrite
<1>10. CASE Guard
  BY <1>10 DEF Guard
<1>11. CASE BeginRead \/ EncodeRead \/ FailRead
  BY <1>11 DEF BeginRead, EncodeRead, FailRead
<1>12. CASE BeginWrite
  BY <1>12 DEF BeginWrite
<1>13. CASE EncodeWrite
  BY <1>13 DEF EncodeWrite
<1>14. CASE FailWrite
  BY <1>14 DEF FailWrite
<1>15. CASE Progress \/ GenerateFails \/ GenerateReturns
  BY <1>15 DEF Progress, GenerateFails, GenerateReturns
<1>16. CASE SubmitFinalizer
  BY <1>16 DEF SubmitFinalizer
<1>17. CASE TaskDone
  BY <1>17 DEF TaskDone
<1>18. ASSUME NEW i \in Jobs, StartFinal(i)
      PROVE  ThreadInv'
  BY <1>18 DEF StartFinal
<1>19. ASSUME NEW i \in Jobs, OutputFinished(i)
      PROVE  ThreadInv'
  BY <1>19 DEF OutputFinished
<1>20. ASSUME NEW i \in Jobs, OutputFails(i)
      PROVE  ThreadInv'
  BY <1>20 DEF OutputFails
<1>21. ASSUME NEW i \in Jobs, SucceedRead(i) \/ FinalFailRead(i)
      PROVE  ThreadInv'
  BY <1>21 DEF SucceedRead, FinalFailRead
<1>22. ASSUME NEW i \in Jobs, SucceedWrite(i)
      PROVE  ThreadInv'
  BY <1>22 DEF SucceedWrite
<1>23. ASSUME NEW i \in Jobs, FinalFailWrite(i)
      PROVE  ThreadInv'
  BY <1>23 DEF FinalFailWrite
<1>24. CASE StartProcess
  BY <1>24 DEF StartProcess
<1>25. CASE ProcessDies
  BY <1>25 DEF ProcessDies
<1>26. CASE UNCHANGED vars
  BY <1>26 DEF vars
<1>. QED
  BY <1>1, <1>2, <1>3, <1>4, <1>5, <1>6, <1>7, <1>8, <1>9, <1>10, <1>11, <1>12, <1>13,
     <1>14, <1>15, <1>16, <1>17, <1>18, <1>19, <1>20, <1>21, <1>22, <1>23, <1>24, <1>25,
     <1>26
  DEF Next, HttpAnswers, WorkerProceeds, FinalProceeds

(* Steps keep the division of labour: who may still end which task.        *)
LEMMA RecordStep ==
  ASSUME TypeOK, ThreadInv, RecordInv, [Next]_vars
  PROVE  RecordInv'
<1>. USE DEF TypeOK, ThreadInv, RecordInv, Records, Terminal, NoRecord, Open, Deciding,
             Early, Before, Encoding, queueVars, httpVars, workerVars, finalVars,
             WorkerGoes, WorkerReads, WorkerWrites, FinalGoes, FinalReads, FinalWrites
<1>1. ASSUME NEW i \in Jobs, Submit(i)
      PROVE  RecordInv'
  <2>1. queue[i] = "out" /\ fpc[i] = "none" /\ history[i] = "none" /\ record'[i].status = "queued"
    BY <1>1 DEF Submit
  <2>2. \A j \in Jobs \ {i} : record'[j] = record[j] /\ queue'[j] = queue[j]
    BY <1>1 DEF Submit
  <2>3. hpc' = "idle" /\ UNCHANGED <<wpc, wjob, wread, fpc, history, process>>
    BY <1>1 DEF Submit
  <2>4. wpc # "idle" => wjob # i
    BY <2>1
  <2>5. record'[i].phase = "queued"
    BY <1>1 DEF Submit
  <2>. QED
    BY <1>1, <2>1, <2>2, <2>3, <2>4, <2>5 DEF Submit
<1>2. ASSUME NEW i \in Jobs, SubmitFails(i)
      PROVE  RecordInv'
  BY <1>2 DEF SubmitFails
<1>3. ASSUME NEW i \in Jobs, Query(i)
      PROVE  RecordInv'
  BY <1>3 DEF Query
<1>4. ASSUME NEW i \in Jobs, Remove(i)
      PROVE  RecordInv'
  BY <1>4 DEF Remove
<1>5. ASSUME NEW i \in Jobs, Take(i)
      PROVE  RecordInv'
  BY <1>5 DEF Take
<1>6. CASE ReadHistory
  BY <1>6 DEF ReadHistory
<1>7. CASE ReadQueue
  BY <1>7 DEF ReadQueue
<1>8. CASE HttpRead
  BY <1>8 DEF HttpRead
<1>9. CASE HttpWrite
  BY <1>9 DEF HttpWrite
<1>10. CASE Guard
  BY <1>10 DEF Guard
<1>11. CASE BeginRead \/ EncodeRead \/ FailRead
  BY <1>11 DEF BeginRead, EncodeRead, FailRead
<1>12. CASE BeginWrite
  BY <1>12 DEF BeginWrite
<1>13. CASE EncodeWrite
  BY <1>13 DEF EncodeWrite
<1>14. CASE FailWrite
  BY <1>14 DEF FailWrite
<1>15. CASE Progress \/ GenerateFails \/ GenerateReturns
  BY <1>15 DEF Progress, GenerateFails, GenerateReturns
<1>16. CASE SubmitFinalizer
  BY <1>16 DEF SubmitFinalizer
<1>17. CASE TaskDone
  BY <1>17 DEF TaskDone
<1>18. ASSUME NEW i \in Jobs, StartFinal(i)
      PROVE  RecordInv'
  BY <1>18 DEF StartFinal
<1>19. ASSUME NEW i \in Jobs, OutputFinished(i)
      PROVE  RecordInv'
  BY <1>19 DEF OutputFinished
<1>20. ASSUME NEW i \in Jobs, OutputFails(i)
      PROVE  RecordInv'
  BY <1>20 DEF OutputFails
<1>21. ASSUME NEW i \in Jobs, SucceedRead(i) \/ FinalFailRead(i)
      PROVE  RecordInv'
  BY <1>21 DEF SucceedRead, FinalFailRead
<1>22. ASSUME NEW i \in Jobs, SucceedWrite(i)
      PROVE  RecordInv'
  BY <1>22 DEF SucceedWrite
<1>23. ASSUME NEW i \in Jobs, FinalFailWrite(i)
      PROVE  RecordInv'
  BY <1>23 DEF FinalFailWrite
<1>24. CASE StartProcess
  BY <1>24 DEF StartProcess
<1>25. CASE ProcessDies
  BY <1>25 DEF ProcessDies
<1>26. CASE UNCHANGED vars
  BY <1>26 DEF vars
<1>. QED
  BY <1>1, <1>2, <1>3, <1>4, <1>5, <1>6, <1>7, <1>8, <1>9, <1>10, <1>11, <1>12, <1>13,
     <1>14, <1>15, <1>16, <1>17, <1>18, <1>19, <1>20, <1>21, <1>22, <1>23, <1>24, <1>25,
     <1>26
  DEF Next, HttpAnswers, WorkerProceeds, FinalProceeds

(* Steps keep the output of every success.                                 *)
LEMMA OutputStep ==
  ASSUME TypeOK, ThreadInv, OutputInv, [Next]_vars
  PROVE  OutputInv'
<1>. USE DEF TypeOK, ThreadInv, OutputInv, OutputBeforeSuccess, Records, NoRecord,
             queueVars, httpVars, workerVars, finalVars, WorkerGoes, WorkerReads,
             WorkerWrites, FinalGoes, FinalReads, FinalWrites
<1>1. ASSUME NEW i \in Jobs, Submit(i)
      PROVE  OutputInv'
  BY <1>1 DEF Submit
<1>2. ASSUME NEW i \in Jobs, SubmitFails(i)
      PROVE  OutputInv'
  BY <1>2 DEF SubmitFails
<1>3. ASSUME NEW i \in Jobs, Query(i)
      PROVE  OutputInv'
  BY <1>3 DEF Query
<1>4. ASSUME NEW i \in Jobs, Remove(i)
      PROVE  OutputInv'
  BY <1>4 DEF Remove
<1>5. ASSUME NEW i \in Jobs, Take(i)
      PROVE  OutputInv'
  BY <1>5 DEF Take
<1>6. CASE ReadHistory
  BY <1>6 DEF ReadHistory
<1>7. CASE ReadQueue
  BY <1>7 DEF ReadQueue
<1>8. CASE HttpRead
  BY <1>8 DEF HttpRead
<1>9. CASE HttpWrite
  BY <1>9 DEF HttpWrite
<1>10. CASE Guard
  BY <1>10 DEF Guard
<1>11. CASE BeginRead \/ EncodeRead \/ FailRead
  BY <1>11 DEF BeginRead, EncodeRead, FailRead
<1>12. CASE BeginWrite
  BY <1>12 DEF BeginWrite
<1>13. CASE EncodeWrite
  BY <1>13 DEF EncodeWrite
<1>14. CASE FailWrite
  BY <1>14 DEF FailWrite
<1>15. CASE Progress \/ GenerateFails \/ GenerateReturns
  BY <1>15 DEF Progress, GenerateFails, GenerateReturns
<1>16. CASE SubmitFinalizer
  BY <1>16 DEF SubmitFinalizer
<1>17. CASE TaskDone
  BY <1>17 DEF TaskDone
<1>18. ASSUME NEW i \in Jobs, StartFinal(i)
      PROVE  OutputInv'
  BY <1>18 DEF StartFinal
<1>19. ASSUME NEW i \in Jobs, OutputFinished(i)
      PROVE  OutputInv'
  BY <1>19 DEF OutputFinished
<1>20. ASSUME NEW i \in Jobs, OutputFails(i)
      PROVE  OutputInv'
  BY <1>20 DEF OutputFails
<1>21. ASSUME NEW i \in Jobs, SucceedRead(i) \/ FinalFailRead(i)
      PROVE  OutputInv'
  BY <1>21 DEF SucceedRead, FinalFailRead
<1>22. ASSUME NEW i \in Jobs, SucceedWrite(i)
      PROVE  OutputInv'
  BY <1>22 DEF SucceedWrite
<1>23. ASSUME NEW i \in Jobs, FinalFailWrite(i)
      PROVE  OutputInv'
  BY <1>23 DEF FinalFailWrite
<1>24. CASE StartProcess
  BY <1>24 DEF StartProcess
<1>25. CASE ProcessDies
  BY <1>25 DEF ProcessDies
<1>26. CASE UNCHANGED vars
  BY <1>26 DEF vars
<1>. QED
  BY <1>1, <1>2, <1>3, <1>4, <1>5, <1>6, <1>7, <1>8, <1>9, <1>10, <1>11, <1>12, <1>13,
     <1>14, <1>15, <1>16, <1>17, <1>18, <1>19, <1>20, <1>21, <1>22, <1>23, <1>24, <1>25,
     <1>26
  DEF Next, HttpAnswers, WorkerProceeds, FinalProceeds

(* No step takes a task back from its end.                                 *)
LEMMA EndStep ==
  ASSUME TypeOK, ThreadInv, RecordInv, [Next]_vars,
         NEW j \in Jobs, record[j].status \in Terminal
  PROVE  record'[j].status \in Terminal
<1>. USE DEF TypeOK, ThreadInv, RecordInv, Records, Terminal, Open, Early, Before,
             queueVars, httpVars, workerVars, finalVars, WorkerGoes, WorkerReads,
             WorkerWrites, FinalGoes, FinalReads, FinalWrites
<1>1. ASSUME NEW i \in Jobs, Submit(i)
      PROVE  record'[j].status \in Terminal
  BY <1>1 DEF Submit
<1>2. ASSUME NEW i \in Jobs, SubmitFails(i)
      PROVE  record'[j].status \in Terminal
  BY <1>2 DEF SubmitFails
<1>3. ASSUME NEW i \in Jobs, Query(i)
      PROVE  record'[j].status \in Terminal
  BY <1>3 DEF Query
<1>4. ASSUME NEW i \in Jobs, Remove(i)
      PROVE  record'[j].status \in Terminal
  BY <1>4 DEF Remove
<1>5. ASSUME NEW i \in Jobs, Take(i)
      PROVE  record'[j].status \in Terminal
  BY <1>5 DEF Take
<1>6. CASE ReadHistory
  BY <1>6 DEF ReadHistory
<1>7. CASE ReadQueue
  BY <1>7 DEF ReadQueue
<1>8. CASE HttpRead
  BY <1>8 DEF HttpRead
<1>9. CASE HttpWrite
  BY <1>9 DEF HttpWrite
<1>10. CASE Guard
  BY <1>10 DEF Guard
<1>11. CASE BeginRead \/ EncodeRead \/ FailRead
  BY <1>11 DEF BeginRead, EncodeRead, FailRead
<1>12. CASE BeginWrite
  BY <1>12 DEF BeginWrite
<1>13. CASE EncodeWrite
  BY <1>13 DEF EncodeWrite
<1>14. CASE FailWrite
  BY <1>14 DEF FailWrite
<1>15. CASE Progress \/ GenerateFails \/ GenerateReturns
  BY <1>15 DEF Progress, GenerateFails, GenerateReturns
<1>16. CASE SubmitFinalizer
  BY <1>16 DEF SubmitFinalizer
<1>17. CASE TaskDone
  BY <1>17 DEF TaskDone
<1>18. ASSUME NEW i \in Jobs, StartFinal(i)
      PROVE  record'[j].status \in Terminal
  BY <1>18 DEF StartFinal
<1>19. ASSUME NEW i \in Jobs, OutputFinished(i)
      PROVE  record'[j].status \in Terminal
  BY <1>19 DEF OutputFinished
<1>20. ASSUME NEW i \in Jobs, OutputFails(i)
      PROVE  record'[j].status \in Terminal
  BY <1>20 DEF OutputFails
<1>21. ASSUME NEW i \in Jobs, SucceedRead(i) \/ FinalFailRead(i)
      PROVE  record'[j].status \in Terminal
  BY <1>21 DEF SucceedRead, FinalFailRead
<1>22. ASSUME NEW i \in Jobs, SucceedWrite(i)
      PROVE  record'[j].status \in Terminal
  BY <1>22 DEF SucceedWrite
<1>23. ASSUME NEW i \in Jobs, FinalFailWrite(i)
      PROVE  record'[j].status \in Terminal
  BY <1>23 DEF FinalFailWrite
<1>24. CASE StartProcess
  BY <1>24 DEF StartProcess
<1>25. CASE ProcessDies
  BY <1>25 DEF ProcessDies
<1>26. CASE UNCHANGED vars
  BY <1>26 DEF vars
<1>. QED
  BY <1>1, <1>2, <1>3, <1>4, <1>5, <1>6, <1>7, <1>8, <1>9, <1>10, <1>11, <1>12, <1>13,
     <1>14, <1>15, <1>16, <1>17, <1>18, <1>19, <1>20, <1>21, <1>22, <1>23, <1>24, <1>25,
     <1>26
  DEF Next, HttpAnswers, WorkerProceeds, FinalProceeds

-----------------------------------------------------------------------------
(* The invariant of the job records.                                       *)
THEOREM JobInvariant == Spec => []JobInv
<1>1. JobInv /\ [Next]_vars => JobInv'
  BY TypesStep, ThreadStep, RecordStep, OutputStep DEF JobInv
<1>. QED
  BY InitInv, <1>1, PTL DEF Spec

(* Every record, queue entry and thread keeps its type.                    *)
THEOREM JobTypes == Spec => []TypeOK
<1>1. JobInv => TypeOK
  BY DEF JobInv
<1>. QED
  BY JobInvariant, <1>1, PTL

(* A task that succeeded has its video and its metrics on disk, in every   *)
(* interleaving of update_job's reads and writes.                          *)
THEOREM OutputFirst == Spec => []OutputBeforeSuccess
<1>1. JobInv => OutputBeforeSuccess
  BY DEF JobInv, OutputInv
<1>. QED
  BY JobInvariant, <1>1, PTL

(* The worker finds every queued task with its record still "queued".      *)
THEOREM NothingRefused == Spec => []NeverRefused
<1>1. JobInv => NeverRefused
  BY DEF JobInv, RecordInv, NeverRefused
<1>. QED
  BY JobInvariant, <1>1, PTL

(* No stale write takes a task back from its end: whoever writes "running" *)
(* does so while nobody else may end the task.                             *)
THEOREM NothingReopened == Spec => NeverReopened
<1>1. JobInv /\ [Next]_vars
        => [\A j \in Jobs : record[j].status \in Terminal => record'[j].status \in Terminal]_vars
  BY EndStep DEF JobInv
<1>. QED
  BY JobInvariant, <1>1, PTL DEF Spec, NeverReopened
=============================================================================
