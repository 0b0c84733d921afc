------------------------------ MODULE Streams -------------------------------
(***************************************************************************)
(* CUDA streams as the program uses them.  A host thread issues operations *)
(* and goes on; a stream runs its own in order, an operation may also wait *)
(* for operations of other streams, and all else happens in any order.     *)
(* The programs are those of dual_stream.py (two branches of attention     *)
(* that share buffers from layer to layer) and fast_output.py (two pinned  *)
(* buffers between the GPU and the encoder).  A buffer holds the version   *)
(* that was written last, or Torn while something writes to it.            *)
(***************************************************************************)
EXTENDS Integers, Sequences, FiniteSets, SequencesExt, FiniteSetsExt

CONSTANTS
  Layers,       \* attention layers of a step
  MaxChunks     \* chunks of eight frames of a video

StreamNames == {"main", "side", "soft_group", "linear_group", "mean_group", "compute", "copy", "host"}

(* Instructions.  Run: an operation, issued to a stream while the frontier *)
(* of another one is to be waited for (a collective starts after the work  *)
(* of the stream that calls it).  Wait: wait_stream().  WaitFor: wait() of *)
(* a collective, or wait_event().  Sync: the host waits.                   *)
Run(on, after, op, reads, writes) ==
  [do |-> "run", on |-> on, after |-> after, op |-> op, reads |-> reads, writes |-> writes]
Wait(on, for) == [do |-> "wait", on |-> on, after |-> {for}, op |-> <<>>, reads |-> {}, writes |-> {}]
WaitFor(on, op) == [do |-> "wait", on |-> on, after |-> {}, op |-> op, reads |-> {}, writes |-> {}]
Sync(op) == [do |-> "sync", on |-> "host", after |-> {}, op |-> op, reads |-> {}, writes |-> {}]

-----------------------------------------------------------------------------
(* DualStream.                                                             *)
(* Mutant of SoftmaxFirst: the side stream starts at once.                 *)
NoWaitForMain == <<>>

(* self.stream.wait_stream(main), before the softmax is issued.            *)
SoftmaxFirst == <<Wait("side", "main")>>

ToHeads(k) ==
  <<Run("main", {}, <<"pack", k>>, {}, {<<"qkv_send", k>>}),
    Run("soft_group", {"main"}, <<"to_heads", k>>, {<<"qkv_send", k>>}, {<<"qkv_recv", k>>})>>

(* The exchange back to rows; the stream that launches it goes on.         *)
ToRows(k, stream, group, name, send, recv) ==
  Run(group, {stream}, <<name, k>>, {<<send, k>>}, {<<recv, k>>})

LinearBranch(k, active) ==
  <<WaitFor("side", <<"mean", k>>)>>
  \o IF active
       THEN <<Run("side", {}, <<"linear_compute", k>>,
                  {<<"qkv_recv", k>>, <<"linear_gate", k>>, <<"sums", k>>}, {<<"linear_send", k>>}),
              ToRows(k, "side", "linear_group", "linear", "linear_send", "linear_recv"),
              WaitFor("side", <<"linear", k>>)>>
       ELSE <<>>

(* Mutant of Join: the exchange of a linear branch that may not be there.  *)
JoinLinear(k) == <<WaitFor("main", <<"linear", k>>), WaitFor("main", <<"soft", k>>)>>

(* output_stream_join                                                      *)
Join(k) == <<Wait("main", "side"), WaitFor("main", <<"soft", k>>)>>

(* compute(): one attention layer.  The gate, the sums and what is sent    *)
(* back live in memory that the next layer is given again.                 *)
Layer(k, active) ==
  ToHeads(k)
  \o <<Run("main", {}, <<"sum", k>>, {}, {<<"frame_sums", k>>}),
       Run("mean_group", {"main"}, <<"mean", k>>, {<<"frame_sums", k>>}, {<<"sums", k>>}),
       WaitFor("main", <<"to_heads", k>>),
       Run("main", {}, <<"gate", k>>, {}, {<<"linear_gate", k>>})>>
  \o SoftmaxFirst
  \o <<Run("main", {}, <<"softmax_compute", k>>, {<<"qkv_recv", k>>}, {<<"soft_send", k>>}),
       ToRows(k, "main", "soft_group", "soft", "soft_send", "soft_recv")>>
  \o LinearBranch(k, active)
  \o Join(k)
  \o <<Run("main", {}, <<"project", k>>,
           {<<"soft_recv", k>>} \union (IF active THEN {<<"linear_recv", k>>} ELSE {}), {})>>

DualBuffers == {"qkv_send", "qkv_recv", "frame_sums", "sums", "linear_gate", "soft_send",
                "soft_recv", "linear_send", "linear_recv"}

(* request(): on its end the buffers are given up, and used for other things. *)
DualRequest(active) ==
  FlattenSeq([k \in 1 .. Layers |-> Layer(k, active)])
  \o <<Wait("main", "side"), Run("main", {}, <<"reuse", 0>>, {}, DualBuffers \X {0})>>

-----------------------------------------------------------------------------
(* PinnedPixels.                                                           *)
(* submit(): pixels of chunk k on the compute stream, their copy to the    *)
(* pinned buffer of the slot.                                              *)
Submit(k, slot) ==
  <<Run("compute", {}, <<"prepare", k>>, {<<<<"video", 0>>, 1>>}, {<<<<"pixels", k>>, k>>}),
    WaitFor("copy", <<"prepare", k>>),
    Run("copy", {}, <<"copy", k>>, {<<<<"pixels", k>>, k>>}, {<<<<"host", slot>>, k>>})>>

(* receive(), and the consumer that encodes the chunk before it asks for   *)
(* another one; the pixels are given up.                                   *)
Receive(k, slot) ==
  <<Sync(<<"copy", k>>),
    Run("host", {}, <<"free", k>>, {}, {<<<<"pixels", k>>, 0>>}),
    Run("host", {}, <<"encode", k>>, {<<<<"host", slot>>, k>>}, {}), Sync(<<"encode", k>>)>>

Slot(k) == k % 2

(* A decoded video and its chunks(), of which the consumer takes only some *)
(* when it fails; at the end both streams are synchronized and everything  *)
(* is given up.                                                            *)
Pixels(chunks, taken) ==
  LET Ahead(k) == IF k <= chunks THEN Submit(k, Slot(k)) ELSE <<>> IN
  <<Run("main", {}, <<"decode", 0>>, {}, {<<<<"video", 0>>, 1>>}), Wait("compute", "main")>>
  \o Ahead(1) \o Ahead(2)
  \o FlattenSeq([k \in 1 .. taken |->
       Receive(k, Slot(k)) \o (IF k < taken \/ taken = chunks THEN Ahead(k + 2) ELSE <<>>)])
  \o LET submitted == Min({chunks, IF taken = chunks \/ taken = 0 THEN taken + 2 ELSE taken + 1}) IN
     <<Sync(<<"prepare", submitted>>), Sync(<<"copy", submitted>>),
       Run("host", {}, <<"free_all", 0>>, {},
           {<<<<"video", 0>>, 0>>} \union {<<<<"pixels", k>>, 0>> : k \in 1 .. chunks} \union {<<<<"host", s>>, 0>> : s \in {0, 1}})>>

Programs ==
  {DualRequest(active) : active \in BOOLEAN}
  \union UNION {{Pixels(n, t) : t \in 0 .. n} : n \in 1 .. MaxChunks}

-----------------------------------------------------------------------------
VARIABLES
  program,
  issued,       \* instructions issued
  frontier,     \* of each stream: what its next operation waits for
  waiting,      \* operations that are issued and not started
  running, done,
  version_in    \* of each buffer

svars == <<program, issued, frontier, waiting, running, done, version_in>>

Torn == -1      \* no version has this number

Buffers == {w[1] : w \in UNION {program[k].writes : k \in DOMAIN program}}

Init ==
  /\ program \in Programs
  /\ issued = 0
  /\ frontier = [s \in StreamNames |-> {}]
  /\ waiting = {} /\ running = {} /\ done = {}
  /\ version_in = [b \in Buffers |-> 0]

(* The host thread issues the next instruction, or waits for an operation. *)
Issue ==
  LET i == program[issued + 1]
      before == frontier[i.on] \union UNION {frontier[s] : s \in i.after} IN
  /\ issued < Len(program)
  /\ i.do = "sync" => i.op \in done
  /\ issued' = issued + 1
  /\ frontier' = CASE i.do = "run"  -> [frontier EXCEPT ![i.on] = {i.op}]
                   [] i.do = "wait" -> [frontier EXCEPT ![i.on] =
                                          before \union (IF i.op = <<>> THEN {} ELSE {i.op})]
                   [] i.do = "sync" -> frontier
  /\ waiting' = IF i.do = "run" THEN waiting \union {[is |-> i, after |-> before]} ELSE waiting
  /\ UNCHANGED <<program, running, done, version_in>>

Overwrite(writes) ==
  version_in' = [b \in DOMAIN version_in |->
                   IF \E w \in writes : w[1] = b THEN (CHOOSE w \in writes : w[1] = b)[2]
                   ELSE version_in[b]]

(* What is being written holds no version.                                 *)
Start(w) ==
  /\ w.after \subseteq done
  /\ waiting' = waiting \ {w} /\ running' = running \union {w.is}
  /\ Overwrite({<<b[1], Torn>> : b \in w.is.writes})
  /\ UNCHANGED <<program, issued, frontier, done>>

Finish(i) ==
  /\ running' = running \ {i} /\ done' = done \union {i.op}
  /\ Overwrite(i.writes)
  /\ UNCHANGED <<program, issued, frontier, waiting>>

Next ==
  \/ Issue
  \/ \E w \in waiting : Start(w)
  \/ \E i \in running : Finish(i)

Spec == Init /\ [][Next]_svars /\ WF_svars(Next)

-----------------------------------------------------------------------------
TypeOK ==
  /\ program \in Programs /\ issued \in 0 .. Len(program)
  /\ DOMAIN frontier = StreamNames
  /\ running \subseteq Range(program) /\ {w.is : w \in waiting} \subseteq Range(program)
  /\ DOMAIN version_in = Buffers

(* Whatever the streams' relative speed, an operation reads what its own   *)
(* layer, or chunk, has written, for as long as it runs, and nothing is    *)
(* written twice at a time: no buffer that is used again is overwritten    *)
(* under a reader, and none is given up too early.                         *)
RaceFree ==
  \A i \in running :
    /\ \A r \in i.reads : version_in[r[1]] = r[2]
    /\ \A j \in running \ {i}, w \in i.writes : w[1] \notin {v[1] : v \in j.writes \union j.reads}

(* Everything that is issued runs: neither the host nor a stream waits for *)
(* an operation that nobody issues, such as a branch that is not computed. *)
EverythingRuns == <>(issued = Len(program) /\ waiting = {} /\ running = {})
=============================================================================
