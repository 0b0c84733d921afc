# Verification of ref2va

TLA+ models of the resident video service: its processes and files, the records
of its REST jobs, the output of a video, deployments from several terminals,
what a group knows from one start to the next, its watchdog, and the parts of a
worker that one request goes through. With them come the TLC configurations
that check them on small instances, and theorems that TLAPS proves for every
value of the constants. Paths below are relative to the repository.

## The system

ref2va keeps a video model resident on a group of GPUs and serves requests to
it. Nothing listens on a socket between the parts: they are separate processes
that talk through small JSON files under `.runtime/backend`, each replaced
atomically.

| part | state | operations | talks to |
| --- | --- | --- | --- |
| clients: `openvdn_comfy/runner.py`, `backend.py` (ComfyUI nodes, REST, CLI) | gpu.lock, the call's own position | `generate`, `call_worker`, `wait_output` | writes command.json and cancel.json, reads results, receipts and health |
| worker group: `scripts/resident_worker.py`, `openvdn_comfy/output_completion.py` | per rank: identity, last token; main rank: output slots and a thread pool | start, warm-up, main loop, `run`, completions, error path | reads launch.json and command.json; main writes state.json, results, receipts; every rank writes errors and heartbeats |
| controller: `scripts/serve.py`, `openvdn_comfy/supervision.py`, `gpu_check.py`, `gpu_cleanup.py` | handle and instance of the group, watchdog, back-off | launch, poll, `recover`, `fail_pending`, shutdown | writes launch.json, owner.json, supervisor.json, failures, failed results; stops processes |
| job records: `openvdn_comfy/api.py`, `nodes.py`, `jobs.py`, `business_api.py` | one record per job, the ComfyUI queue | submit, cancel, reconcile | call `generate` |
| output: `openvdn_comfy/streaming_output.py`, `fast_output.py` | queue of pixel blocks, encoding thread, audio future | submit, seal, abort, finish | main rank of the worker |
| parallel VAE: `openvdn_comfy/parallel_vae.py`, `vae_batch.py`, `vae_tiles.py` | clips of a video spread over ranks | decode, send, receive, blend | the ranks |
| block cache: `openvdn_comfy/cache_dit.py` | residuals and counters | decide, reuse | all ranks must decide alike |
| request scope: `exact_runtime.py`, `dit_runtime.py`, `linear_kv.py`, `linear_acceleration.py`, `dual_stream.py`, `fine_profile.py` | rebound methods, flags, cached constants, CUDA streams | select, enter, leave, constant | every rank, around one request |
| warm start: `resident_geometry.py`, `warmup_history.py`, `compile_cache.py`, `run()` of the worker | compiled geometries, history and conditioning caches on disk | prepare, commit, remember, replay, verify | ranks, results of jobs |
| geometry: `render_plan.py`, `token_buckets.py`, `references.py`, `keyframes.py` | none | pure functions | clients and ranks |
| kernels' layouts: `communication_kernels.py`, `boundary_scan.py`, `window_attention.py`, `vae_tiles.py` | none | pack, unpack, scan, mask, blend | ranks |
| fleet: `scripts/bootstrap.py`, `fleet.py`, `service.py` | deploy.lock, fleet.lock, service.lock, manifest, instances | start, reuse, replace, roll back, stop | controllers |

### What is hard

* Ranks read command.json each on its own and meet only in collectives that
  carry no token, so they must stay in step by the protocol alone.
* A client publishes a command after a look at a health record that may be out
  of date; a controller acts on a cancellation written for an earlier request.
* The verdict of a request can come from four places: the main rank, its
  completion pool, the exception handler, and the controller after a crash.
* Groups and controllers are killed at any point; a controller can die between
  starting a group and writing down that it did.
* The GPU check before a launch looks at memory, and a group that is starting
  holds none.
* A job's record is read and written back by three kinds of thread, none of which
  holds a lock over both, and the queue that says where the job is dies with the
  API process while the record survives.
* Frames come from all ranks at once, go through a bounded queue to a thread
  that may fail, and the file must be whole under its final name or not be there.
* Deployments from two terminals share a manifest and instances; fleet.lock is
  let go while models load, and signals reach the launchers at any point.
* A start replays what was served before it from files that a crash may have
  left half written, within a budget of graphs that fail between compilation
  and use.
* Deadlines compare instants that four processes write; a hang must be found
  without a healthy group being taken down, and failures in a row must be told
  from new ones.
* A request rebinds methods in six nested scopes, any of which may fail; fast
  forms of computations run on two streams and must compute what the plain ones
  compute.
* Everything waits on something: calls on gpu.lock, main on an output slot,
  other ranks on main in a barrier, the service on recovery.

`PROJECT.json` lists each hazard at its line with the properties that would
catch it.

## Modules

| module | models |
| --- | --- |
| `Mailbox` | the files and `health()` over them, the process table as `same_process` sees it |
| `Client` | one call of `generate` per request: lock, health, publish, poll, cancel, wait for the output |
| `Worker` | the ranks of each group, output slots and completions |
| `Supervisor` | the controller |
| `Resident` | their composition, the faults, fairness and the properties |
| `Ledger` | what a caller may rely on: at most one verdict per request, never changed, and success is told only of a success |
| `MCResident` | instances for TLC |
| `ResidentProofs` | theorems about `Resident`: the mailbox, recovery, and what a group serves |
| `JobRecords` | records of REST jobs, ComfyUI's queue and history, and the HTTP loop, prompt worker and output finalizers that update them |
| `MCJobRecords`, `JobRecordsProofs` | instances and theorems |
| `StreamingMP4` | the block queue of one video, the audio future, abort, and the encoding thread `write_mp4` |
| `ParallelVae` | the ranks other than the main one in the streaming `decode_parallel` |
| `VideoOutput` | the main rank between them, from the first clip to the barrier, and the completion that awaits a deferred output |
| `MCVideoOutput`, `VideoOutputProofs` | instances and theorems |
| `Fleet` | `bootstrap.py`, `fleet.py` and `service.py` from several terminals, and the controllers they start |
| `MCFleet`, `FleetProofs` | instances and theorems |
| `WarmStart` | conditioning caches, compiled geometries and warm-up history over starts and crashes of a group |
| `MCWarmStart`, `WarmStartProofs` | instance and theorems |
| `Watchdog` | `WorkerWatchdog.check` and the loop of `serve.py` around it, on a clock |
| `MCWatchdog`, `WatchdogProofs` | instance and theorems |
| `DBCache` | the dual block cache, its decision over all ranks |
| `RequestScope` | what a request rebinds on a rank, and puts back |
| `Streams` | CUDA streams and events, with the programs of `dual_stream.py` and `PinnedPixels` |
| `VaeBatch` | batches of VAE tiles and the verification of their graphs |
| `BoundaryScan` | prefix and suffix states of the linear attention at chunk boundaries |
| `Layouts` | index arithmetic: packed heads, buckets, masks, sampled tokens, seams |
| `ExactRuntime` | constants cached by address and version |
| `Parts` | the last seven together: they share no state, `part` says which one moves |
| `MCParts`, `PartsProofs`, `StreamsCopiesProofs` | instance, and theorems about six of these parts, and about `Streams` |

These groups meet at narrow places. `generate()` is an action pair in
`JobRecords` (it raises or returns) and the process `Client` in `Resident`, which
shows that every call ends. A controller is a phase in `Fleet`, a process in
`Resident` and a clocked loop in `Watchdog`, which gives the conditions of
`WatchdogFires` their times. `Fleet` starts and stops whole services; what a
service does when it is stopped is `Shutdown` in `Supervisor`. A request of
`WarmStart` and of `Parts` is what `run()` does between `Accept` and
`RunCompletes` in `Worker`. The decoding and output of a video is one step in
`Worker` (`RunCompletes`, `CompleteOutput`) and all of `VideoOutput`, which shows
that it ends, or the group does.

### Mailbox

A worker instance (a uuid per launch) is a number counted from 1; 0 stands for
"none" and for a missing file. The number also names the torchrun process that
was started for it, so `owner \in live` is `same_process(owner)`. `Ready` is
`health()["ready"]`. The profile comparison of `validate_profile` is left out
(settings that match), and so is the warm-up verdict: a worker whose warm-up is
incomplete raises before it writes ready.

### Client

`cpc` is the position of a call. Each read of another file in `call_worker` is a
step of its own: health before publishing (`ReadHealth`), the result, the
receipt, the health in the loop, the last look before cancelling
(`DecideCancel`) and the write of cancel.json (`WriteCancel`). The one
exception is `health()` itself, which reads three files: it is one step.
`interrupt()` raising and the request deadline are both `WantCancel`, at the top
of the loop; a call that leaves without cancelling (its process dies, or
`progress()` raises) is the fault `Abandon`. A request with `defer_output` ends
its GPU phase on a receipt, releases the lock and polls in `wait_output`
(`WaitResult`, `WaitHealth`, `WaitExpires`).

### Worker

Indexed by group, since a group that lost its controller can be alive beside the
one launched after it. A rank goes through `starting` (interpreter),
`joining` (has read launch.json), `loading`, `poll` (main loop), and while it
serves a request through `slot`, `run`, `ran`, `finish`, `receipt` (main) or
`run` (other ranks). `LoadModels` joins the ranks (`init_process_group`) and is
the moment from which the group holds GPU memory. `RunCompletes` is the last
barrier of `run()`; it takes every rank that is in `run`, whatever request it
serves there, as the real barrier does. Completions (`output_completion.py`)
run on their own: `CompleteOutput` writes the result, `ReleaseSlot` frees the
slot. An exception takes main through `raising` and `reporting`, which write
state.json and the result, and every rank through `exiting`, which files the
traceback under the instance launch.json names at that time. The interpreter
joins the pool before it exits. torchrun takes the group down once a rank is
gone (`GroupExits`).

### Supervisor

`recover()` and `launch_worker()` are split at each file they write, because
clients read the mailbox in between: `BeginRecover` (supervisor.json),
`StopGroup`, `FailCommand`, `FailReceipts`, `RecordFailure`; `TryLaunch`
(GPU check and launch.json), `WriteLoading`, `Popen`, `WriteOwner`,
`ReportLoading`. `WatchdogFires` states the conditions of `WorkerWatchdog.check`
in its order, with deadlines that may have passed whenever they are looked at.
`Shutdown` is the exception of a signal, at any point, into the `finally` block.

### JobRecords

`update_job` reads a record, merges and writes it back, so it is two steps
(`HttpRead` and `HttpWrite`, `BeginRead` and `BeginWrite`, ...), and each thread
has a variable for what it has read (`hread`, `wread`, `fread`). `current_job`
looks at the record, the history and the queue, in this order: `Query`,
`ReadHistory`, `ReadQueue`. The HTTP loop answers one request at a time, as the
handlers do not await in between (`hpc`); the worker runs one task (`wpc`); there
is a finalizer per job (`fpc`), `PoolSize` of them at work. `ProcessDies` takes
queue, history and threads; records and outputs stay. A record keeps its status,
its phase and the process that owns its output; `same_process(output_owner)`
is `owner = process`.

Left out: the health and capacity checks before a request is queued and the
validation of its payload (a request that is refused leaves no record), job
listings, and ComfyUI's own nodes that run without a record. REST requests always
defer their output, so `_execute` never returns a finished video.

### VideoOutput

A block is a pair of a clip and a part of it (8 frames). `SubmitPart` is
`StreamingMP4.put` of one block, which waits while the queue is full and raises
when the encoding thread is over (`PutFails`); the thread is `OpenFile`,
`TakeBlock`, `EncodeBlock`, `WriteAudio`, `Commit`, with `WriterFails` for any
exception in it. `abort` drains the queue and joins the thread: the drain is one
step, as a block the thread takes during it could as well have been taken
before. The other ranks send a clip without waiting (`Isend`) and wait for the
older of two sends; a send is over when the main rank has received it, since NCCL
need not buffer. The callbacks of `streamed_assembly` for a clip and for its
blended overlap are one submission here. `GroupKilled` is torchrun.

Left out: the pixels (`PinnedPixels` is in `Streams`), `threaded_pixels` (the
path without streaming), the buffered variant of `decode_parallel`, tiles
(`VaeBatch`, `Layouts`) and the parity check.

### Fleet

A command is one terminal's run of `bootstrap.py deploy` (or up, restart, start),
which calls `fleet.py ensure`, or of `fleet.py stop`. `pc` follows it: deploy.lock,
installation (one step that succeeds, asks for a repair or fails), fleet.lock,
`check` (is the manifest this configuration, and does every controller run?),
`clear`, `ports`, `up` for one instance after the other, `wait`, `rollback`. A
configuration stands for a fingerprint of code, topology and settings. A
controller is its phase, as `wait_ready` sees it in the status of the service,
with two ghosts: the configuration and the command it was started with.
`service.py` holds service.lock for a whole start or stop and takes nothing
else, so each is one step. `Signal` is SIGINT, SIGTERM or SIGHUP. `fleet.py`
handles all three and rolls back inside its `try`; `bootstrap.py` waits for it
after a Ctrl-C, but has no handler for SIGHUP.

Left out: SIGKILL of a launcher, `diagnostics`, the foreground mode, and
`status` and `logs`, which change nothing.

### WarmStart

A request is its prompt file, its render plan and its attention options;
`ShapeOf` is the geometry it is compiled for and `Identity` what
`WarmupHistory.requests` tells entries apart by. Each rank looks for the
conditioning cache on its own (`Check`); the main rank encodes between two
barriers (`Meet`, `Encode`, `Publish`) and all load (`Load`). `Denoise` is
`prepare()` and the compilation, `Finish` is `commit()` and `remember()`.
`Start` begins with the base warm-up, whose end fixes what else is run: the
variants of other durations, the newest compatible entries of jobs and history,
and all of it again when the start is to be verified. `Crash` may come anywhere;
`Lose` is somebody who removes a cache. `cut` and `lost` record the starts that
were cut short and the caches that were removed, `served` what users asked for;
`OptionsDecided` says that a prompt and plan came with one choice of options. Left out: the denoising itself and the
arithmetic of the compiler's counters.

### Watchdog

`health()` is read first in a turn of the loop, everything else later
(`turn`, `current`). Instants are kept as ages, capped where no comparison of the
code can tell them apart; a heartbeat's file is absent, as it was when it was
last looked at, or new. `Fires` states the deadlines of `check()`, `WatchPending`
and `WatchIdle` what it remembers. `Tick` is the sleep of the loop, and makes
everything older. Ghosts record when the first rank has hung, how long the group
has been ready and how long none has been there, and how many failures in a row
there are at least and at most (readiness is seen one turn late, so either may
be right for a moment).

### Parts of a worker

* `DBCache`: `run()` of one rank as `RunPrefix`, `Join` (the all-reduce of the
  statistics), `Decide`, `RunMiddle`. How far the prefix has moved is a rank's
  share of a score; that a rank has no valid residual is part of its statistics.
  `Score` is a sum over all ranks, which all of them know. `trace` lists for
  every step the parts a rank has run, so that ranks can be compared step by step.
* `RequestScope`: the scopes of `resident_worker.py`, entered in their order, each
  with the exceptions its entry can raise. A method of a branch is the set of
  the layers it was rewritten with; `Profilable` and `SampledReadouts` are the
  tables of methods prepared at start-up, and `Raise` what happens when a
  combination is not in them.
* `Streams`: the model is that of CUDA: a stream runs its operations in order,
  an operation waits for what its frontier held when it was issued, anything
  else overlaps. The programs are the instructions of `DualStream.compute` and
  `PinnedPixels`, in the order the host issues them.
* `VaeBatch`: `decode_clip()` over the tiles of a clip; `signatures` is the bounded
  OrderedDict of what was verified, as a function to the time since the last use;
  a compiler reset forgets the compiled ones.
* `BoundaryScan`: matrices are sums of words of the free algebra, so an equality
  of results holds for all matrices.
* `Layouts`: each fast index formula beside a plain reference; an input selects
  one of them, `AsReference` compares rows, masks and slices, and
  `CopiesAsReference` what is packed, unpacked and stitched.
* `ExactRuntime`: `constant()`, an allocator that reuses addresses, in-place
  writes that raise the version, autocast.

### What is abstracted in the resident service

* The clock: a deadline may have passed whenever the code looks at it; back-off
  delays are "some time later". Idle silence is tied to the ranks: only a rank
  that is not in its main loop can be silent.
* `stop_group` returns when every process of the group is dead (it kills the
  process group, and waits for torchrun). Its SIGTERM phase is not modelled.
* One poll of the controller's loop is one step, as is the loop of
  `fail_pending` over the receipts: the group is dead by then.
* The second `report("recovering", retry_at)` of `recover()` changes only a
  displayed time and is merged with the first.
* Write errors are modelled where the repository's own code reacts to them: the
  receipt and the steps of a launch.
* `REF2VA_CLEAR_GPU_APPS=0` is not modelled; the start-up clean-up stops every
  process that holds GPU memory.

## Runs

The resident service has two ranks throughout: the smallest group in which ranks
can disagree. Every configuration has `CHECK_DEADLOCK FALSE`: behaviours legitimately stop when
every call has ended, launches and controllers are used up and the fault
budget is spent.

| run | instance | what it shows |
| --- | --- | --- |
| `resident_core` | two calls with deferred outputs, one slot, two launches, one controller, one rank that raises or dies | ranks that serve a request serve the same one and never one already settled, while their group has a future; slots add up and unfinished outputs stay within the capacity; the receipts of a failed group are settled; results are final; the service implements `Ledger` |
| `resident_calls_end` | two calls, one launch; a rank dies, the launch fails or a call is abandoned | every call ends |
| `resident_recovery` | one deferred call, two launches, two controllers, any two of: a rank dies or raises, the controller is killed or shut down, the receipt cannot be written, the call is abandoned | nothing stale is run, groups load onto free GPUs, receipts of a dead group get results; recovery ends in a launch |
| `job_records` | two jobs, one finalizer thread, two API processes one after the other | a success has its output, nothing is refused or reopened, and a task somebody asks about is settled |
| `video_output` | three ranks, up to five clips of two blocks, a queue of two, deferred or not; any rank, the main one and the encoder may fail at every step | frames in order, buffers held, finished videos complete, aborts clean, every output ends |
| `fleet` | two terminals; one eight-GPU instance, two four-GPU ones, or those with newer code; Ctrl-C at any point, one controller killed, any check failing | one configuration runs at a time; no start takes down what another one waits for; a roll-back leaves nothing of its start; every command ends |
| `warm_start` | two starts of two ranks, three prompts, one of them with two attention options, the base prompt and one variant of it, graphs for four geometries, three served requests, one cache removed | only whole caches are read; graphs stay within the budget; a verification compiles nothing; what users asked for last is warm |
| `watchdog` | two ranks, all deadlines 2 ticks, back-off 1 to 3 | hung ranks are found in time, healthy groups are spared, the back-off is the one owed |
| `parts` | the seven parts, one at a time: two ranks and four steps of four blocks; every pair of successive requests with any options; two layers and four chunks; up to seven frames; all boundaries of the layouts | reuse is sound, a request computes what it asks for and leaves nothing behind, no race, batches are checked, fast forms equal plain ones, constants are current |
| `cancel_next_job`, `fleet_hangup`, `fleet_reused` | the instances of `resident_core` and `fleet`, smaller | the disagreements below |

The bounds: `MaxLaunch` 2 is the least with a group before and after recovery,
and with an orphan beside its successor; `MaxControllers` 2 the least with a
controller that inherits another's leavings; one fault is the least with every
single-failure scenario, two let a second one meet its recovery, and the invariants of the last group of theorems hold
for any number. Two calls compete for the lock and for command.json, and with
one slot the second waits for the first one's output. Launches beyond the bound
do not happen, which the liveness properties say ("unless launched = MaxLaunch").
In `job_records` the second job makes one wait for the worker and for a place in
the pool, and the second process finds the records of the first. In
`video_output` three ranks give the main one two senders to confuse, five clips
give rank 1 two of them and the main rank one after the others', and two blocks
a clip make a length end inside a clip, at its end and before the last one; a
queue of two is shorter than what two clips submit.

In `fleet` (73,266 states) two terminals are the least that can hinder each
other, three configurations the least in which instances are replaced by others
and by newer ones of the same name; one death meets every step. In `warm_start`
(3.5 million) the first start fills what the second finds; graphs for four
geometries leave room for the base, its variant and two requests, so a third
geometry rotates them, and three served requests are one more than can be
remembered; the second option of a prompt gives two geometries one identity. In `watchdog` (4.2 million, ranks being interchangeable) each
deadline is longer than a turn, so that it can pass early, late or together with
another, and the third failure in a row reaches the back-off's cap; that is
where `Bound` stops counting. `parts` (193,187) has two requests one after the
other wherever something could be left behind, four chunks, so that each of the
two pinned buffers is used twice, frames that fill a chunk, miss it by one and exceed
it, and heads that do and do not divide.

The properties of `resident_recovery` are checked under `AttendedSpec`: no group is starting that no controller supervises. That
is exactly what the GPU check cannot see. `AttendedUnlessInterrupted` proves
that the restriction excludes nothing unless the controller is killed,
interrupted or fails in the middle of a launch; what happens then is among the
observations below.

### Fairness

`FairSpec` assumes of a client that it keeps going (weak fairness of its own
steps), that flock, tried again every 0.2 s, is not missed for ever (strong
fairness of `AcquireLock`) and that time passes: a call that polls for ever
meets its deadline (strong fairness of the deadline steps, each of which is
enabled again and again on every turn of the loop). Of the controller it
assumes that its loop runs. Nothing is assumed of the worker group: it may hang
at any point, which is why the deadlines matter. Nothing is assumed of
interrupts, of faults or of who starts another controller.

`JobRecords`: the threads of a living process run, a node that keeps reporting
progress returns or raises in the end (strong fairness, the node being back at
`generate` after each report; `resident_calls_end` is the reason), a finalizer's
output succeeds or fails, and callers keep asking for a task (strong fairness of
`Query`, which is enabled whenever the HTTP loop is free). A process need not
start or stay.

`VideoOutput`: every thread of a living group runs and torchrun ends a group that
has lost a process. A thread that has something to wait for is not helped: the
encoder cannot fail while it waits for the audio, and a send does not end by
itself.

`Fleet`: a command that can go on does (its locks are waited for with a blocking
flock, by commands that all let them go), and the clock of `wait_ready` reaches
its limit (strong fairness of `Expire`, enabled after every round). Nothing is
assumed of the instances: they may load for ever.

`Parts`: a cached request and a program of streams go on as long as they can;
that every rank joins each all-reduce is what is to be shown, not assumed.

`Watchdog` needs no fairness: time passes only in `Tick`, and `HangsAreFound` is
a bound on it.

### Disagreements

Three runs end in a counterexample, each for a sentence of the repository that
the code does not keep.

* `cancel_next_job` (`CancelledGroupTakesNoJob`): a call that cancels writes
  cancel.json while it holds gpu.lock, then lets the lock go. The controller
  looks at the file every 0.3 s, and until it does health says ready (or busy,
  which counts as ready). A generation asked for after the cancellation is
  accepted, published to that group and waits there when the group is stopped.
  `README.md:41` says that cancelling the task being inferred ends the group and
  reloads it, and that generation answers 503 meanwhile ("期间生成接口返回 503");
  `README.md:58` announces failures of requests that were queued already and
  begin during recovery, which this one is not. The run has no faults, and
  `FairSpec` because the property, a box inside a box, is checked as a temporal
  one.
* `fleet_reused` (`RollbackSparesReused`): a deployment that is run again
  unchanged while one of its two instances recovers from an OOM reads
  "recovering", fails, and its roll-back stops both instances, the one that
  serves included: `started` holds every instance that was planned.
  `README.md:52` says that a failed start takes back the instances of this
  start, `README.md:97` that one group's failure leaves the other at work.
* `fleet_hangup` (`StartsAreSerial`): the terminal is closed while an instance
  loads. `fleet.py` handles SIGHUP and rolls back, `bootstrap.py` dies of it and
  frees deploy.lock; another start takes it, finds the instances running,
  reuses them and waits, and the roll-back stops them. `fleet.py:187`:
  "Bootstrap's deployment lock still serializes other unified starts."

Observed while modelling, and found again by TLC with the change of a
configuration given here:

* A receipt that cannot be written: `submit()` starts the completion before it
  writes the receipt; if that write fails, the worker's exception handler writes
  a failed result over the success the pool has published (`SuccessIsFinal` in
  `resident_core` with the fault "disk"; `README.md:131`).
* An abandoned call: one that leaves the lock without a result while its command
  is unread lets the next call replace the command, and ranks serve different
  requests (`RanksAgree` in `resident_core` with "abandon"; `backend.py:121`
  relies on the lock). The watchdog then ends the group.
* A controller killed while its group starts: the group loads after the next
  controller's clean-up, and every later launch is refused (`RecoveryRelaunches`
  in `resident_recovery` under `FairSpec`; `README.md:54`). An exception between
  Popen and the return of `launch_worker` leaves such a group too
  (`LaunchFails`): `recover()` has no handle to stop it with.
* A query that looks at the history before a task is done and at the queue
  after it finds it in neither and marks it interrupted, although its node has
  returned (`api.py:66`; `README.md:187` reserves that status for tasks a
  restart has cut short).
* A start that is cut short has remembered what it replayed: the variants of
  other durations are then the newest entries, and the next start may leave out
  what a user asked for last (`RecentIsWarm` without `cut`; `README.md:293`).
* One prompt is sent with two attention options. Each is a geometry of its own
  and has its entry in the history, but `requests()` tells entries apart by the
  prompt file, `softmax_ranks`, `linear_kv_keep_ratio` and the plan
  (`warmup_history.py:73`): only the later one is replayed, whatever the limit,
  and the next request with the other option compiles (`RecentIsWarm` without
  `OptionsDecided` in `warm_start`; `README.md:293`, and `warmup_history.py:69`
  on what the entries are told apart without).

Not a disagreement, but worth knowing: an error after the stream is sealed (the
barrier at `resident_worker.py:386`) aborts a stream whose audio is set, and the
encoder, woken by the drained queue, commits what it has under the final name.
The request has failed by then; `FinishedIsComplete` is about successes.

## Proofs

`ResidentProofs` proves the slots and layers 1 to 6 below. Everything holds for any set of requests and ranks, any number of launches,
controllers and faults, under the assumptions named in the modules
(`MailboxAssumption`, `WorkerAssumption`, `ResidentAssumption`).

The argument goes in layers, each inductive relative to those before it and each
checked with TLC first:

1. `TypeOK` and `CoreInv`: what is alive has been launched; a dead group has no
   ranks and no completions; the controller's handle, its local instance and
   its position agree; it settles requests only of a group it has stopped.
   These need no restriction (`TypeCorrect`, `CoreInvariant`).
2. `GroupInv`, under `AttendedSpec`: only the group launched last has ranks that
   do something, none while the next is being launched, and a rank past
   launch.json knows its own instance. The free-memory check of a launch sees
   every loaded group and attendance rules out the starting ones: this gives
   `FreeGPUs`.
3. `AddressInv`: a request carries the instance its client had read into the
   command, to the ranks, the receipt and the completion: `NothingStale`.
4. `FailureInv`: once a failure is recorded the instance is dead, below the
   next launch, and its receipts are settled, and no receipt of it can come any
   more: `FailureSettles`.
5. `LaunchInv`, `FreshInv`, `ServeInv`, `AnswerInv`: no call knows an instance
   before its launch, nothing is settled before it is published, and a request
   that is served, or handed to the pool, is open. With receipts that can be
   written, `Final` and the refinement of `Ledger` (`Refinement`) follow.
6. `LockInv`, `RecordInv`, `StateInv`, `AgreeInv`, when no call is abandoned: a
   group has a future (`HasFuture`) while it is alive and polled and nothing says
   that it failed or is to be stopped. The holder of gpu.lock has looked at the
   health after all other calls, so a call that cancels cancels the group launched
   last; a group that a call has seen ready never regains a lost future
   (`FutureStays`), and while it has one that call sees it ready (`StaysReady`).
   Hence a published call lets the lock go only when it is answered (`Leaves`),
   an answer comes only after the last barrier (`Passed`), and by then every rank
   has served the published request and none does any more. This gives
   `RanksInStep` and `NothingTwice`. The restriction is needed: see the abandoned
   call under the disagreements above.

The slots (`SlotsAddUp`) need no more than layer 4, and no restriction on the
faults. `SlotInv` has four parts for each group: free slots, completions and the
one slot that is about to be handed over add up to the capacity (`Sums`, with the
library's theorems on cardinalities); a receipt without a result has its
completion under way as long as the main rank is there (`Promised`); nothing is
submitted twice (`Unsubmitted`); and what is owed fits into the capacity
(`Bounded`). The last is a part of its own since a completion that dies with its
rank gives its slot back while its receipt still waits for the controller.

`ClientShape`, `WorkerShape`, `WorkerTakes`, `WorkerWrites`, `SupervisorShape`
and `NextShape` reduce the actions to the few things the invariants care about,
so that each layer argues over shapes and not over all the actions.

`JobRecordsProofs` proves its four safety properties from one invariant,
`JobInv`, for any number of jobs, finalizers and processes. Its heart is
`Open(j)`: whoever may still write "running" over the record of j, from a copy
that may be old, does so while j is open, and nobody else decides to end an open
task. Hence the copy that is written back is never older than a verdict
(`EndStep`, for `NothingReopened`), and a pending task is still "queued" when the
worker takes it (`NothingRefused`).

`VideoOutputProofs` proves four properties of a video's output from `OutputInv`,
for any number of ranks, clips, blocks and any queue. `CountInv` counts: while
the stream is open, what has been produced is in the queue, in the encoder's
hands or in the container; once sealed, so is the one End, at the end of the
queue. The encoder therefore leaves its loop with the whole video
(`FinishedComplete`) unless the stream was aborted, and then `finish` is never
called. `FileInv` and the held buffers are simple beside it (`AbortClean`,
`BuffersHeld`). `Shape` says which actions touch which of the three parts.

Its second half is the order (`TemporalOrder`). `WireInv` is the reason:
a rank's wire holds, in ascending order, exactly the clips of the rank that it
has sent and the main rank has not come to, so the one that arrives is the one
wanted. `ClipInv` ties the number of blocks sent to the clip, `BlockInv` gives
every block in container, encoder and queue its place; division and remainder
enter only where a place is read back as a clip and a part.

`FleetProofs` proves three safety properties for any terminals, instances and
configurations. Whoever is between taking and dropping a lock is its holder.
Between `clear` and the end of `up` only that command touches instances, and
what it has cleared or started is all there is (`Clearing`, `Cleared`,
`Starting`): everything that runs is of the manifest (`FleetIsOne`). `StartsInTurn`
needs that no terminal is closed, as `fleet_hangup` shows: then a start that
waits holds deploy.lock, and no other start is at work at all. `Owned` says that
what a command has started is in `begun`, or still ahead in its roll-back's loop,
hence `NothingLeft`.

`WatchdogProofs` proves the three properties of the `watchdog` run for any number
of ranks and any policy (`WatchdogAssumption`: positive numbers, a heartbeat
renewed more often than the idle deadline, and a `Bound` at which the delay has
stopped growing, 17 failures at the latest).

* `BacksOff`: the controller's count lies between the fewest and the most failures
  in a row there can be, because it sees a group ready at most one turn late
  (`Lag`); what was waited and what is left to wait add up to the delay that was
  fixed when the last group was given up (`Waited`). `DelayIsOwed` says that the
  power of two in `Policy.delay()` is the delay doubled at every failure and cut
  at its maximum. The two recursive functions get their values from the library's
  minimum of a well-founded set (`WFMin`): there is no first counterexample.
* `SparesTheHealthy`: the command the watchdog knows is the last one and not
  younger to it than it is, or up to two more were published since it looked
  (`Known`); a rank that has never beaten is about to, and what was seen of the
  others is no older than their last beat (`Beating`).
* `FindsHangs`: while the loop sleeps no deadline has passed (`InTime`), and the age
  of a hang is bounded by the clock that will end it, the rank's own or that of a
  command published meanwhile (`Overlooked`).

`WarmStartProofs` proves the four properties of the `warm_start` run.
`BudgetKept`: the compiled geometries are the recorded ones and, between
compilation and commit, the one at work, which was made room for first
(`BudgetInv`). `LoadsAreWhole`: a rank that loads has a whole cache or somebody
has removed it; the renaming makes it so for the encoder, the two barriers for
the others (`FileInv`). `NoColdVerification`: what a start has compiled and what
it still has to run fit into the budget together, so nothing is rotated out, and
every item to be verified has been compiled or stands behind one that compiles
it (`WarmInv`). `LastRequestsWarm` is about the order of the entries
(`HistoryInv`, `RecentInv`). Of each of the last requests, as many as are
replayed, an entry of its geometry is in the history or among the runs to come,
and nothing newer there is of an identity that was not asked for later (`Kept`).
Entries have different geometries and there are fewer such identities than places,
so a rotation does not reach it (`RememberKeeps`); what a start reads from job records
and history keeps the order (`NewestAll`, `SelectKeeps`), the replays put the entries
back in it (`TailKeeps`, `RunKept`), and in a start nothing is rotated out
(`NoRotation`): the geometry is compiled or among the runs to come, and compiled
when none is left.

`PartsProofs` is about six of the parts, for any ranks, blocks, steps,
requests, frames, rows, tensors and addresses.

* `CacheIsSound`, from `CacheInv` (`CacheAssumption`: the three numbers are natural).
  What a step must do is a function of the earlier records (`Must`), and so is all
  that a rank has run (`Traced`). Hence it is enough that ranks agree on the records:
  whoever knows what becomes of a step says the same (`Same`); where it was not a
  must, all ranks have joined the all-reduce (`AllJoined`); and there is one
  all-reduce at a time, whose outcome nobody knows before all are in it
  (`Reducing`). `Counted` ties the reuses in a row and the executed blocks to the
  records; with `CacheConfig.validate` it gives the fresh residual, the mandatory
  steps and the skipped blocks.
* `BatchesChecked`, from `VaeInv` (`VaeBatchAssumption`: batches have a tile, clips are
  not empty). A batch is the run of tiles just before the one that is looked at, all
  of one shape (`InBatch`), and all before it are in their places (`Placed`); what is
  remembered has been compared since it was compiled (`Compared`).
* `RequestsLeaveNothing`, from `ScopeInv`, a stack discipline: for every number of open
  scopes it says which rewritings may be in place and what is saved to be put
  back. `RequestsAreServed`, from `ServeInv`: for every number of open scopes it gives
  the methods exactly, as a function of the request's options. `RequestsApart`
  is both.
* `CurrentConstants`, from `ExactInv`: the cache keeps the tensor of an entry alive, so
  its address is not handed out again; the versions of a kept tensor only grow,
  and at the same version its content is the same.
* `BoundaryScansAgree`, from `ScanInv` (`ScanAssumption`: chunks have two frames or
  more, as `run_boundary_scans()` demands). In the free algebra of words `Times` is
  associative and distributes over sums (`TimesTimes`, `TimesSum`), so the map of a
  chunk takes a state where its frames take it one by one (`Composed`). `Before`
  turns a place of the padded grid into the number of frames before it; places
  outside the video are the identity and do not change it. Hence a chunk takes the
  sequential scan from one of its states to another, forwards and backwards
  (`ChunkForwards`, `ChunkBackwards`), and `ScanInv` says that after each step of
  the loop both chains, and all that is stored, are states of the sequential scans.
* `RowsAgree`, from `LayoutInv` (`LayoutAssumption`: sizes are natural, a video has
  frames and they have tokens), where the work is arithmetic: a prefix is filled up
  by less than one stride and only there (`PaddingIs`, `RowsAre`, `OnlyAGap`), the
  gap is seen by nobody (`GapsUnseen`), slices are what their masks select
  (`VideoSlices`, `QuerySlices`), and the samples of a frame are one of each stratum
  (`SamplesOfStrata`). `FastIsPlain` is this and `BoundaryScansAgree`.

`StreamsCopiesProofs` proves `StreamsRaceFree`, for any number of layers, chunks and chunks
taken (`StreamsAssumption`: they are natural). Its first part is about any
program, in the manner of Owicki and Gries. An order (`IsOrder`, `IsRaceFree`) says
which operations must be over before one starts, such that two operations that
touch a buffer one of them writes are ordered, and what is read was written last
by an earlier one. An outline (`IsOutline`) has an assertion for each point of the
program: what has been issued, what the host knows to be over, and what each stream
has behind it; every instruction leads from one to the next (`Leads`), and may issue
an operation only when all before it are covered. `StreamInv` says that the streams
keep to such an order: operations start only after those before them (`InOrder`),
what is issued waits for them (`Awaited`), and a buffer holds the version of the last
operation that wrote it (`Versions`); `NoRaces` draws the conclusion. Outlines are put
together instruction by instruction and along concatenations and loops
(`OutlineConcat`, `OutlineFlat`). Then come the orders and outlines of the programs:
`DualProvable` for the attention layers, with or without the linear branch, where
`project` of a layer comes after all of it and before the next one; `PixelsProvable`
for the pinned pixels, where the chunk that is copied to a host buffer comes after
the one two before it has been encoded and freed. `Torn` is -1, which no operation
writes whatever the constants, so what holds its version is not being written.

Its last part proves `CopiesAgree`, from `LayoutInv` and the rest of
`LayoutAssumption`: heads go to one rank or more; neighbouring tiles overlap, by no
more than their lengths, since a slice that ends at minus zero is empty. Everything
rests on where an element of a concatenation of sequences is (`FlatPlaces`, and
`EvenPlaces` where they have one length) and on sums of the first elements of a
sequence (`PartSums`, `SumsExist`).

* Packing: the sizes of the groups before one add up to its first head (`HeadsAre`,
  `HeadsBeforeAre`). So a head, a row, the rows of a target and the targets are where
  `pack_groups()` computes their addresses (`HeadIs`, `RowIs`, `GroupIs`, `PackIs`),
  it stores there what the native packer does (`ValueIs`), and every address has been
  stored to: the two are equal as sets.
* Unpacking: the quotients of `unpack_groups()` name the one group that the head is in
  (`TargetIs`, `GroupsGrow`), so the reference chooses the same.
* Stitching: a pixel is of its own tile or shared by the two of a seam (`TileIs`), the
  cropped tiles lie where the next one begins, and the shares of a pixel come from the
  same place and add up to one (`SeamsAreInPlace`).

A recursive function, as `ComposeChunk`, `Recurrence` and `Total` are, satisfies its
equations because a function that does exists for every length
(`RecursionExists`); where a proof needs induction it takes the least
counterexample (`ZeroAndNext`), as `WatchdogProofs` does.

No invariant of a run is model-checked only. The liveness properties are: they and
ENABLED are out of this prover's reach.

## Plan

1. (done) the resident service: `Mailbox`, `Client`, `Worker`, `Supervisor`,
   `Resident`, `Ledger`, with their proofs.
2. (done) `JobRecords`: records of jobs, the queue, reconciliation, restarts.
3. (done) `StreamingMP4`, `ParallelVae`, `VideoOutput`, with their proofs.
4. (done) `Fleet`, with its proofs.
5. (done) `WarmStart` and `Watchdog`.
6. (done) `Parts`: cache, request scope, streams, batches, scans, layouts,
   constants.
7. Left: the buffered variant of `decode_parallel` and `threaded_pixels`; the
   render plan and keyframe positions against references; SIGKILL of a launcher,
   with service.lock taken apart.
8. (done) Proofs of the slots, the watchdog, the warm start, the cache and the
   request scope.
9. (done) That what users asked for last is warm after a restart; that composed
   scans, rows of fast layouts and what is copied are those of the plain forms; that
   no program of streams has a race.
10. Proofs left: that `Watchdog` refines the conditions of `WatchdogFires`.

## Not modelled

Tensor code (attention kernels, the rewritten sampler and its parity checks,
floating-point statistics), the rewriting of upstream sources by the collective
communication, tool-chain discovery, profiling output and benchmarks, the
vendored upstream, and the wording of errors: they compute values no property
here tells apart, or are not under this repository's control. Installation and
hardware checks are one step of `Fleet` that succeeds or fails. Payload
validation of the business API is data. Of ComfyUI only its prompt queue and
worker are modelled, from how `api.py` and `nodes.py` use them. Parts still on the plan are listed there and, with their hazards, in
`PROJECT.json`.
