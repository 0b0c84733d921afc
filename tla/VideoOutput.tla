----------------------------- MODULE VideoOutput -----------------------------
(***************************************************************************)
(* The decoding and output of one video in resident_worker.run: the main   *)
(* rank takes the clips of all ranks in temporal order (ParallelVae), cuts *)
(* each into pixel blocks for the encoding thread (StreamingMP4), ends the *)
(* stream and meets the other ranks in a barrier.  With defer_output the   *)
(* end of the encoding is awaited by a completion thread, otherwise before *)
(* the barrier.  Any error on the main rank aborts the stream; a rank that *)
(* is gone makes the collectives raise or the whole group end.             *)
(*                                                                         *)
(* Clips give PartsPerClip blocks each and the tail of the last ones is    *)
(* cut off at the length asked for.  The collectives between the last clip *)
(* and the audio are one: nothing happens between them.                    *)
(***************************************************************************)
EXTENDS StreamingMP4, ParallelVae

CONSTANT PartsPerClip   \* pixel blocks (8 frames) in a decoded clip

ASSUME OutputAssumption == PartsPerClip \in Nat \ {0}

VARIABLES
  total,        \* blocks of the video asked for
  deferred,     \* defer_output
  mpc,          \* position of the main rank
  index,        \* the clip it wants
  got,          \* the clip it has, and the next block of it
  part,
  verdict,      \* what finish() of the pending output gave
  dead          \* the group has been killed

mainVars == <<total, deferred, mpc, index, got, part, verdict, dead>>
vars == <<streamVars, vaeVars, mainVars>>

MainPCs == {"first", "next", "decode", "submit", "gather", "audio", "seal", "end", "finish",
            "barrier", "over", "abort", "join", "raised"}

TypeOK ==
  /\ StreamTypeOK
  /\ VaeTypeOK
  /\ total \in 1 .. clips * PartsPerClip
  /\ sent <= total
  /\ deferred \in BOOLEAN
  /\ mpc \in MainPCs
  /\ index \in 0 .. clips
  /\ got \in Clips
  /\ part \in 0 .. PartsPerClip
  /\ verdict \in {"none", "ok", "failed"}
  /\ dead \in BOOLEAN

Init ==
  /\ StreamInit
  /\ VaeInit
  /\ total \in 1 .. clips * PartsPerClip
  /\ deferred \in BOOLEAN
  /\ mpc = "first"
  /\ index = 0
  /\ got = 0
  /\ part = 0
  /\ verdict = "none"
  /\ dead = FALSE

MainGoes(from, to) == mpc = from /\ mpc' = to /\ UNCHANGED <<total, deferred, verdict, dead>>

-----------------------------------------------------------------------------
(* The clips, in temporal order.                                           *)
FirstClip ==
  /\ MainGoes("first", "next")
  /\ metadata' = TRUE
  /\ UNCHANGED <<streamVars, clips, vpc, clip, wire, held, index, got, part>>

Owner(c) == c % WorldSize

NextClip ==
  /\ \/ index = clips /\ MainGoes("next", "gather") /\ UNCHANGED <<index, got, part>>
     \/ /\ index \in Clips /\ Owner(index) = 0
        /\ MainGoes("next", IF index = 0 THEN "submit" ELSE "decode")
        /\ got' = index
        /\ part' = 0
        /\ index' = index + 1
  /\ UNCHANGED <<streamVars, vaeVars>>

DecodeOwn == MainGoes("decode", "submit") /\ UNCHANGED <<streamVars, vaeVars, index, got, part>>

(* Mutant of Sender: recv() without a source.                              *)
AnySender(c) == {r \in Ranks : wire[r] # <<>>}

Sender(c) == {r \in Ranks : r = Owner(c) /\ wire[r] # <<>>}

ReceiveClip ==
  /\ index \in Clips /\ Owner(index) # 0
  /\ \E r \in Sender(index) :
       /\ vpc[r] # "gone"
       /\ got' = Head(wire[r])
       /\ wire' = [wire EXCEPT ![r] = Tail(@)]
  /\ part' = 0
  /\ index' = index + 1
  /\ MainGoes("next", "submit")
  /\ UNCHANGED <<streamVars, clips, metadata, vpc, clip, held>>

(* Mutant of PartsWanted: the tail is not cut off.                         *)
AllParts == PartsPerClip

(* submit(): the blocks of the clip, without the tail beyond the length    *)
(* asked for; they count as sent when all of them are in the queue.        *)
PartsWanted == IF PartsPerClip < total - sent THEN PartsPerClip ELSE total - sent

SubmitPart ==
  /\ part < PartsWanted
  /\ Put([clip |-> got, part |-> part])
  /\ part' = part + 1
  /\ MainGoes("submit", "submit")
  /\ UNCHANGED <<sent, audio, closed, writerVars, vaeVars, index, got>>

Submitted ==
  /\ part = PartsWanted
  /\ sent' = sent + PartsWanted
  /\ MainGoes("submit", "next")
  /\ UNCHANGED <<queue, audio, closed, writerVars, vaeVars, index, got, part>>

(* all_gather of the records: every rank has to be there.                  *)
Gather ==
  /\ \A r \in Ranks : vpc[r] = "gather"
  /\ vpc' = [r \in Ranks |-> "barrier"]
  /\ MainGoes("gather", "audio")
  /\ UNCHANGED <<streamVars, clips, metadata, clip, wire, held, index, got, part>>

-----------------------------------------------------------------------------
(* The audio, and the end of the stream.                                   *)
DecodeAudio == MainGoes("audio", "seal") /\ UNCHANGED <<streamVars, vaeVars, index, got, part>>

Seal ==
  /\ sent = total
  /\ audio' = "set"
  /\ MainGoes("seal", "end")
  /\ UNCHANGED <<queue, sent, closed, writerVars, vaeVars, index, got, part>>

PutEnd ==
  /\ Put(End)
  /\ MainGoes("end", IF deferred THEN "barrier" ELSE "finish")
  /\ UNCHANGED <<sent, audio, closed, writerVars, vaeVars, index, got, part>>

(* PendingMP4.finish(), on the main rank or in a completion.               *)
Finish ==
  /\ WriterDone
  /\ \/ ~deferred /\ mpc = "finish" /\ mpc' = IF wpc = "done" THEN "barrier" ELSE "abort"
     \/ deferred /\ mpc = "over" /\ verdict = "none" /\ UNCHANGED mpc
  /\ verdict' = IF wpc = "done" THEN "ok" ELSE "failed"
  /\ closed' = TRUE
  /\ UNCHANGED <<queue, sent, audio, writerVars, vaeVars, total, deferred, index, got, part, dead>>

Barrier ==
  /\ \A r \in Ranks : vpc[r] = "barrier"
  /\ vpc' = [r \in Ranks |-> "over"]
  /\ MainGoes("barrier", "over")
  /\ UNCHANGED <<streamVars, clips, metadata, clip, wire, held, index, got, part>>

-----------------------------------------------------------------------------
(* An error: of the main rank's own decoding, of put(), or of a collective *)
(* with a rank that is gone.                                               *)
MainFails ==
  /\ \/ mpc \in {"first", "decode", "submit", "audio", "seal"}
     \/ mpc \in {"next", "gather", "barrier"} /\ \E r \in Ranks : vpc[r] = "gone"
  /\ MainGoes(mpc, "abort")
  /\ UNCHANGED <<streamVars, vaeVars, index, got, part>>

PutFails ==
  /\ mpc = "submit" => part < PartsWanted
  /\ mpc \in {"submit", "end"}
  /\ PutRaises
  /\ MainGoes(mpc, "abort")
  /\ UNCHANGED <<streamVars, vaeVars, index, got, part>>

AbortStream ==
  /\ \/ Abort /\ MainGoes("abort", "join")
     \/ closed /\ MainGoes("abort", "raised") /\ UNCHANGED streamVars
  /\ UNCHANGED <<vaeVars, index, got, part>>

JoinWriter ==
  /\ AbortJoined
  /\ MainGoes("join", "raised")
  /\ UNCHANGED <<streamVars, vaeVars, index, got, part>>

(* torchrun ends a group of which a process is gone.                       *)
GroupKilled ==
  /\ mpc = "raised" \/ \E r \in Ranks : vpc[r] = "gone"
  /\ dead' = TRUE
  /\ UNCHANGED <<streamVars, vaeVars, total, deferred, mpc, index, got, part, verdict>>

MainStep ==
  \/ FirstClip \/ NextClip \/ DecodeOwn \/ ReceiveClip \/ SubmitPart \/ Submitted \/ Gather
  \/ DecodeAudio \/ Seal \/ PutEnd \/ Finish \/ Barrier
  \/ PutFails \/ AbortStream \/ JoinWriter

Next ==
  /\ ~dead
  /\ \/ MainStep
     \/ MainFails
     \/ WriterStep /\ UNCHANGED <<vaeVars, mainVars>>
     \/ \E r \in Ranks : (VaeStep(r) \/ RankFails(r)) /\ UNCHANGED <<streamVars, mainVars>>
     \/ GroupKilled

Spec == Init /\ [][Next]_vars

(* Fairness: every thread of a living group runs, and torchrun notices the *)
(* loss of a process.  Decoding and encoding end.                          *)
FairSpec ==
  /\ Spec
  /\ WF_vars(~dead /\ MainStep)
  /\ WF_vars(~dead /\ WriterStep /\ UNCHANGED <<vaeVars, mainVars>>)
  /\ \A r \in Ranks : WF_vars(~dead /\ VaeStep(r) /\ UNCHANGED <<streamVars, mainVars>>)
  /\ WF_vars(~dead /\ GroupKilled)

-----------------------------------------------------------------------------
(* The container holds the blocks of the video in temporal order and none  *)
(* twice, whichever rank has decoded their clips, and none beyond the end. *)
FramesInOrder ==
  /\ Len(encoded) <= total
  /\ \A n \in DOMAIN encoded :
       encoded[n] = [clip |-> (n - 1) \div PartsPerClip, part |-> (n - 1) % PartsPerClip]

(* A clip that NCCL may still be reading is held by its sender.            *)
HeldWhileSent == \A r \in Ranks : \A n \in DOMAIN wire[r] : Contains(held[r], wire[r][n])

(* finish() succeeds only for a complete video under its final name.       *)
FinishedIsComplete == verdict = "ok" => Len(encoded) = total /\ file = "final"

(* When the main rank has raised, no encoding thread is left, and no       *)
(* partial file (abort(): "join it before removing the temporary file").   *)
AbortLeavesNothing == mpc = "raised" => WriterDone /\ file # "partial"

(* However ranks, encoder and disk fail, the request comes to an end:      *)
(* nobody is left on a full queue, on a clip that is not sent or on the    *)
(* audio.                                                                  *)
EveryOutputEnds ==
  <>(dead \/ (mpc \in {"over", "raised"} /\ WriterDone /\ (mpc = "over" => verdict # "none")))
=============================================================================
