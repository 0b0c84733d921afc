---------------------------- MODULE StreamingMP4 ----------------------------
(***************************************************************************)
(* The bounded video writer of streaming_output.py: a queue of pixel       *)
(* blocks between the thread that decodes the video and the thread that    *)
(* encodes it (fast_output.write_mp4), a future for the audio, and the end *)
(* of the stream: sealed with None, or aborted.  A block is a part of a    *)
(* clip.                                                                   *)
(*                                                                         *)
(* The operations of the decoding thread are steps of VideoOutput; the     *)
(* encoding thread is a process here.                                      *)
(***************************************************************************)
EXTENDS Naturals, Sequences

CONSTANTS
  QueueSize,    \* Queue(maxsize=4)
  End           \* the None that ends the stream

Block == [clip : Nat, part : Nat]

ASSUME StreamAssumption ==
  /\ QueueSize \in Nat \ {0}
  /\ End \notin Block

VARIABLES
  queue,        \* blocks handed over and not yet taken
  sent,         \* blocks counted as submitted
  audio,        \* the future: "pending", "set" or "error"
  closed,
  wpc,          \* position of the encoding thread
  item,         \* the block it has taken
  encoded,      \* the blocks in the container
  file          \* output path: "none", "partial" or "final"

streamVars == <<queue, sent, audio, closed, wpc, item, encoded, file>>
writerVars == <<wpc, item, encoded, file>>

WriterPCs == {"open", "get", "encode", "audio", "commit", "done", "failed"}
WriterDone == wpc \in {"done", "failed"}

StreamTypeOK ==
  /\ queue \in Seq(Block \union {End})
  /\ Len(queue) <= QueueSize
  /\ sent \in Nat
  /\ audio \in {"pending", "set", "error"}
  /\ closed \in BOOLEAN
  /\ wpc \in WriterPCs
  /\ item \in Block \union {End}
  /\ encoded \in Seq(Block)
  /\ file \in {"none", "partial", "final"}

StreamInit ==
  /\ queue = <<>>
  /\ sent = 0
  /\ audio = "pending"
  /\ closed = FALSE
  /\ wpc = "open"
  /\ item = End
  /\ encoded = <<>>
  /\ file = "none"

-----------------------------------------------------------------------------
(* Mutant of Put: a block that finds no room is dropped.                   *)
PutNoWait(x) ==
  /\ ~WriterDone
  /\ queue' = IF Len(queue) < QueueSize THEN Append(queue, x) ELSE queue

(* put(): waits for room, as long as the encoding thread runs.             *)
Put(x) ==
  /\ ~WriterDone
  /\ Len(queue) < QueueSize
  /\ queue' = Append(queue, x)

(* Mutant of PutRaises: put() waits for room without a look at the thread. *)
NeverRaises == FALSE

PutRaises == WriterDone

(* abort(): the audio future fails, the queue is emptied and ended, and    *)
(* the thread is joined.                                                   *)
Abort ==
  /\ ~closed
  /\ closed' = TRUE
  /\ audio' = IF audio = "pending" THEN "error" ELSE audio
  /\ queue' = <<End>>
  /\ UNCHANGED <<sent, writerVars>>

(* Mutant of AbortJoined: the thread is not waited for.                    *)
AbortNotJoined == closed

AbortJoined == closed /\ WriterDone

-----------------------------------------------------------------------------
(* write_mp4(): open the partial file, encode what comes until End, then   *)
(* the audio, and rename.  An error removes the partial file.              *)
WriterGoes(from, to) == wpc = from /\ wpc' = to /\ UNCHANGED <<sent, audio, closed>>

OpenFile ==
  /\ WriterGoes("open", "get")
  /\ file' = "partial"
  /\ UNCHANGED <<queue, item, encoded>>

TakeBlock ==
  /\ queue # <<>>
  /\ WriterGoes("get", IF Head(queue) = End THEN "audio" ELSE "encode")
  /\ item' = Head(queue)
  /\ queue' = Tail(queue)
  /\ UNCHANGED <<encoded, file>>

EncodeBlock ==
  /\ WriterGoes("encode", "get")
  /\ encoded' = Append(encoded, item)
  /\ UNCHANGED <<queue, item, file>>

WriteAudio ==
  /\ audio = "set"
  /\ WriterGoes("audio", "commit")
  /\ UNCHANGED <<queue, item, encoded, file>>

Commit ==
  /\ WriterGoes("commit", "done")
  /\ file' = "final"
  /\ UNCHANGED <<queue, item, encoded>>

(* The encoder, the disk or the audio future raises.                       *)
WriterFails ==
  /\ \/ wpc \in {"open", "encode", "commit"}
     \/ wpc = "audio" /\ audio # "pending"
  /\ wpc' = "failed"
  /\ file' = "none"
  /\ UNCHANGED <<queue, sent, audio, closed, item, encoded>>

WriterStep ==
  \/ OpenFile
  \/ TakeBlock
  \/ EncodeBlock
  \/ WriteAudio
  \/ Commit
  \/ WriterFails
=============================================================================
