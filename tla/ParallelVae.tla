----------------------------- MODULE ParallelVae -----------------------------
(***************************************************************************)
(* The ranks other than the main one in the streaming decode_parallel of   *)
(* parallel_vae.py: each decodes every WorldSize-th temporal clip of a     *)
(* video and sends it to the main rank, at most two sends being under way. *)
(* The main rank's side is a part of VideoOutput.  A send ends when the    *)
(* main rank has received the clip: NCCL may not buffer it.                *)
(***************************************************************************)
EXTENDS Naturals, Sequences, SequencesExt

CONSTANTS
  WorldSize,
  MaxClips      \* bound: temporal clips of a video

ASSUME VaeAssumption ==
  /\ WorldSize \in Nat \ {0}
  /\ MaxClips \in Nat \ {0}

VARIABLES
  clips,        \* clips of this video
  metadata,     \* the main rank has broadcast the dtype of a clip
  vpc,          \* position of each rank
  clip,         \* the clip it is at
  wire,         \* clips sent and not received, by sender
  held          \* clips whose buffers the sender keeps

vaeVars == <<clips, metadata, vpc, clip, wire, held>>

Ranks == 1 .. WorldSize - 1
Clips == 0 .. clips - 1
VaePCs == {"decode", "meta", "send", "wait", "drain", "gather", "barrier", "over", "gone"}

VaeTypeOK ==
  /\ clips \in 1 .. MaxClips
  /\ metadata \in BOOLEAN
  /\ vpc \in [Ranks -> VaePCs]
  /\ clip \in [Ranks -> Nat]
  /\ wire \in [Ranks -> Seq(Clips)]
  /\ held \in [Ranks -> Seq(Clips)]

VaeInit ==
  /\ clips \in 1 .. MaxClips
  /\ metadata = FALSE
  /\ clip = [r \in Ranks |-> r]
  /\ vpc = [r \in Ranks |-> IF r \in Clips THEN "decode" ELSE "meta"]
  /\ wire = [r \in Ranks |-> <<>>]
  /\ held = [r \in Ranks |-> <<>>]

RankGoes(r, from, to) ==
  /\ vpc[r] = from
  /\ vpc' = [vpc EXCEPT ![r] = to]
  /\ UNCHANGED <<clips, metadata>>

(* The first clip is decoded before the broadcast, the others after it.    *)
DecodeClip(r) ==
  /\ RankGoes(r, "decode", IF clip[r] = r THEN "meta" ELSE "send")
  /\ UNCHANGED <<clip, wire, held>>

ReceiveMetadata(r) ==
  /\ metadata
  /\ RankGoes(r, "meta", IF clip[r] \in Clips THEN "send" ELSE "drain")
  /\ UNCHANGED <<clip, wire, held>>

(* After its clip a rank goes on to the next one it owns, if there is one. *)
Continue(r) == IF clip[r] + WorldSize \in Clips THEN "decode" ELSE "drain"

Isend(r) ==
  /\ RankGoes(r, "send", IF held[r] = <<>> THEN Continue(r) ELSE "wait")
  /\ wire' = [wire EXCEPT ![r] = Append(@, clip[r])]
  /\ held' = [held EXCEPT ![r] = Append(@, clip[r])]
  /\ clip' = [clip EXCEPT ![r] = IF held[r] = <<>> THEN @ + WorldSize ELSE @]

Received(r, c) == ~Contains(wire[r], c)

(* Mutant of Release: the send is not waited for.                          *)
ReleaseAtOnce(r) ==
  /\ held[r] # <<>>
  /\ held' = [held EXCEPT ![r] = Tail(@)]
  /\ UNCHANGED wire

(* The oldest send is over and its buffer is let go.                       *)
Release(r) ==
  /\ held[r] # <<>>
  /\ Received(r, Head(held[r]))
  /\ held' = [held EXCEPT ![r] = Tail(@)]
  /\ UNCHANGED wire

WaitOldest(r) ==
  /\ Release(r)
  /\ RankGoes(r, "wait", Continue(r))
  /\ clip' = [clip EXCEPT ![r] = @ + WorldSize]

WaitRest(r) ==
  /\ Release(r)
  /\ RankGoes(r, "drain", "drain")
  /\ UNCHANGED clip

Drained(r) ==
  /\ held[r] = <<>>
  /\ RankGoes(r, "drain", "gather")
  /\ UNCHANGED <<clip, wire, held>>

(* An error in the decoder ends the rank.                                  *)
RankFails(r) ==
  /\ vpc[r] \notin {"over", "gone"}
  /\ vpc' = [vpc EXCEPT ![r] = "gone"]
  /\ UNCHANGED <<clips, metadata, clip, wire, held>>

VaeStep(r) ==
  \/ DecodeClip(r)
  \/ ReceiveMetadata(r)
  \/ Isend(r)
  \/ WaitOldest(r)
  \/ WaitRest(r)
  \/ Drained(r)
=============================================================================
