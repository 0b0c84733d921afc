-------------------------- MODULE VideoOutputProofs --------------------------
(***************************************************************************)
(* Theorems about the decoding and output of a video, for any number of    *)
(* ranks, clips and blocks and any size of the queue.                      *)
(***************************************************************************)
EXTENDS VideoOutput, TLAPS

(* A rank is at one of its clips, the encoder at a block.                  *)
PlaceInv ==
  /\ \A r \in Ranks : vpc[r] \in {"decode", "send", "wait"} => clip[r] \in Clips
  /\ wpc = "encode" => item \in Block

(* Where the main rank is while the stream is open, and after End.         *)
Streaming == {"first", "next", "decode", "submit", "gather", "audio", "seal", "end"}
Ended == {"finish", "barrier", "over"}
Feeding == {"open", "get", "encode"}

Taken == Len(encoded) + (IF wpc = "encode" THEN 1 ELSE 0)
Produced == sent + (IF mpc = "submit" THEN part ELSE 0)

(* Every block that was produced is in the queue, in the encoder's hands   *)
(* or in the container, and End is the last in the queue.                  *)
CountInv ==
  /\ mpc \in Streaming =>
       /\ wpc \in Feeding \union {"failed"}
       /\ \A n \in 1 .. Len(queue) : queue[n] # End
       /\ wpc \in Feeding => Taken + Len(queue) = Produced
  /\ mpc = "decode" => part = 0
  /\ mpc = "end" => sent = total
  /\ mpc \in Ended =>
       /\ wpc \in Feeding =>
            /\ queue # <<>> /\ queue[Len(queue)] = End
            /\ \A n \in 1 .. Len(queue) - 1 : queue[n] # End
            /\ Taken + Len(queue) = total + 1
       /\ wpc \in {"audio", "commit", "done"} => Len(encoded) = total
  /\ verdict = "ok" => wpc = "done" /\ Len(encoded) = total

(* What the writer leaves, and that an aborted stream has been joined.     *)
FileInv ==
  /\ WriterDone => file # "partial"
  /\ wpc = "done" => file = "final"
  /\ closed /\ mpc # "join" => WriterDone
  /\ mpc \in {"join", "raised"} => closed
  /\ mpc = "raised" => WriterDone

MainTypeOK ==
  /\ total \in 1 .. clips * PartsPerClip
  /\ sent <= total
  /\ deferred \in BOOLEAN
  /\ mpc \in MainPCs
  /\ index \in 0 .. clips
  /\ got \in Clips
  /\ part \in 0 .. PartsPerClip
  /\ verdict \in {"none", "ok", "failed"}
  /\ dead \in BOOLEAN

OutputInv == TypeOK /\ PlaceInv /\ CountInv /\ FileInv /\ HeldWhileSent

-----------------------------------------------------------------------------
(* Which actions touch the stream, the ranks and the main rank.            *)
LEMMA Shape ==
  ASSUME [Next]_vars
  PROVE  /\ \/ UNCHANGED streamVars
            \/ UNCHANGED writerVars /\ (SubmitPart \/ Submitted \/ Seal \/ PutEnd \/ Finish \/
                 AbortStream)
            \/ WriterStep /\ UNCHANGED <<vaeVars, mainVars>>
         /\ \/ UNCHANGED vaeVars
            \/ FirstClip \/ ReceiveClip \/ Gather \/ Barrier
            \/ \E r \in Ranks : (VaeStep(r) \/ RankFails(r)) /\ UNCHANGED <<streamVars,
                 mainVars>>
         /\ \/ UNCHANGED <<mainVars, clips, sent>>
            \/ MainStep \/ MainFails \/ GroupKilled
<1>1. CASE MainStep \/ MainFails \/ GroupKilled
  <2>1. \/ UNCHANGED streamVars
        \/ UNCHANGED writerVars /\ (SubmitPart \/ Submitted \/ Seal \/ PutEnd \/ Finish \/
             AbortStream)
    BY <1>1 DEF streamVars, writerVars, SubmitPart, Submitted, Seal, PutEnd, Finish,
         AbortStream, Abort, MainStep, MainFails, GroupKilled, FirstClip, NextClip, DecodeOwn,
         ReceiveClip, Gather, DecodeAudio, Barrier, PutFails, JoinWriter
  <2>2. \/ UNCHANGED vaeVars
        \/ FirstClip \/ ReceiveClip \/ Gather \/ Barrier
    BY <1>1 DEF MainStep, MainFails, GroupKilled, NextClip, DecodeOwn, SubmitPart, Submitted,
         DecodeAudio, Seal, PutEnd, Finish, PutFails, AbortStream, JoinWriter, vaeVars
  <2>. QED
    BY <1>1, <2>1, <2>2
<1>2. CASE ~(MainStep \/ MainFails \/ GroupKilled)
  <2>1. UNCHANGED mainVars
    BY <1>2 DEF Next, vars, mainVars
  <2>2. WriterStep => UNCHANGED sent
    BY DEF WriterStep, OpenFile, TakeBlock, EncodeBlock, WriteAudio, Commit, WriterFails,
         WriterGoes
  <2>3. \A r \in Ranks : VaeStep(r) \/ RankFails(r) => UNCHANGED clips
    BY DEF VaeStep, DecodeClip, ReceiveMetadata, Isend, WaitOldest, WaitRest, Drained,
         RankFails, RankGoes
  <2>. QED
    BY <1>2, <2>1, <2>2, <2>3 DEF Next, vars, streamVars, vaeVars
<1>. QED
  BY <1>1, <1>2

(* Steps keep the types of the stream, ...                                 *)
LEMMA StreamTypes ==
  ASSUME StreamTypeOK, PlaceInv, VaeTypeOK, MainTypeOK, [Next]_vars
  PROVE  StreamTypeOK'
<1>. USE StreamAssumption, VaeAssumption, OutputAssumption DEF StreamTypeOK, PlaceInv,
     streamVars, writerVars, Block, WriterPCs, MainGoes, WriterGoes, RankGoes, MainTypeOK,
     PartsWanted, Clips, VaeTypeOK
<1>1. CASE UNCHANGED streamVars
  BY <1>1 DEF streamVars
<1>2. CASE SubmitPart
  BY <1>2 DEF SubmitPart, Put
<1>3. CASE Submitted
  BY <1>3 DEF Submitted
<1>4. CASE Seal
  BY <1>4 DEF Seal
<1>5. CASE PutEnd
  BY <1>5 DEF PutEnd, Put
<1>6. CASE Finish
  BY <1>6 DEF Finish, WriterDone
<1>7. CASE AbortStream
  <2>1. CASE Abort
    <3>1. queue' = <<End>> /\ Len(<<End>>) = 1 /\ <<End>> \in Seq(Block \union {End})
      BY <2>1 DEF Abort
    <3>. QED
      BY <2>1, <3>1 DEF Abort
  <2>2. CASE UNCHANGED streamVars
    BY <2>2
  <2>. QED
    BY <1>7, <2>1, <2>2 DEF AbortStream
<1>8. CASE OpenFile /\ UNCHANGED <<vaeVars, mainVars>>
  BY <1>8 DEF OpenFile
<1>9. CASE TakeBlock /\ UNCHANGED <<vaeVars, mainVars>>
  BY <1>9 DEF TakeBlock
<1>10. CASE EncodeBlock /\ UNCHANGED <<vaeVars, mainVars>>
  BY <1>10 DEF EncodeBlock
<1>11. CASE WriteAudio /\ UNCHANGED <<vaeVars, mainVars>>
  BY <1>11 DEF WriteAudio
<1>12. CASE Commit /\ UNCHANGED <<vaeVars, mainVars>>
  BY <1>12 DEF Commit
<1>13. CASE WriterFails /\ UNCHANGED <<vaeVars, mainVars>>
  BY <1>13 DEF WriterFails
<1>. QED
  BY <1>1, <1>2, <1>3, <1>4, <1>5, <1>6, <1>7, <1>8, <1>9, <1>10, <1>11, <1>12, <1>13, Shape
  DEF WriterStep

(* ... of the ranks, ...                                                   *)
LEMMA VaeTypes ==
  ASSUME VaeTypeOK, PlaceInv, [Next]_vars
  PROVE  VaeTypeOK'
<1>. USE VaeAssumption DEF VaeTypeOK, PlaceInv, vaeVars, VaePCs, Clips, MainGoes, WriterGoes,
     RankGoes
<1>1. CASE UNCHANGED vaeVars
  BY <1>1 DEF vaeVars
<1>2. CASE FirstClip
  BY <1>2 DEF FirstClip
<1>3. CASE ReceiveClip
  BY <1>3 DEF ReceiveClip, Sender
<1>4. CASE Gather
  BY <1>4 DEF Gather
<1>5. CASE Barrier
  BY <1>5 DEF Barrier
<1>6. ASSUME NEW i \in Ranks, DecodeClip(i), UNCHANGED <<streamVars, mainVars>>
      PROVE  VaeTypeOK'
  BY <1>6 DEF DecodeClip
<1>7. ASSUME NEW i \in Ranks, ReceiveMetadata(i), UNCHANGED <<streamVars, mainVars>>
      PROVE  VaeTypeOK'
  BY <1>7 DEF ReceiveMetadata
<1>8. ASSUME NEW i \in Ranks, Isend(i), UNCHANGED <<streamVars, mainVars>>
      PROVE  VaeTypeOK'
  BY <1>8 DEF Isend, Continue
<1>9. ASSUME NEW i \in Ranks, WaitOldest(i), UNCHANGED <<streamVars, mainVars>>
      PROVE  VaeTypeOK'
  BY <1>9 DEF WaitOldest, Release, Received, Continue
<1>10. ASSUME NEW i \in Ranks, WaitRest(i), UNCHANGED <<streamVars, mainVars>>
      PROVE  VaeTypeOK'
  BY <1>10 DEF WaitRest, Release, Received
<1>11. ASSUME NEW i \in Ranks, Drained(i), UNCHANGED <<streamVars, mainVars>>
      PROVE  VaeTypeOK'
  BY <1>11 DEF Drained
<1>12. ASSUME NEW i \in Ranks, RankFails(i), UNCHANGED <<streamVars, mainVars>>
      PROVE  VaeTypeOK'
  BY <1>12 DEF RankFails
<1>. QED
  BY <1>1, <1>2, <1>3, <1>4, <1>5, <1>6, <1>7, <1>8, <1>9, <1>10, <1>11, <1>12, Shape
  DEF VaeStep

(* ... and of the main rank.                                               *)
LEMMA MainTypes ==
  ASSUME MainTypeOK, StreamTypeOK, VaeTypeOK, [Next]_vars
  PROVE  MainTypeOK'
<1>. USE OutputAssumption DEF MainTypeOK, StreamTypeOK, VaeTypeOK, MainPCs, Clips,
     PartsWanted, streamVars, writerVars, vaeVars, mainVars, MainGoes, WriterGoes, RankGoes
<1>1. CASE UNCHANGED <<mainVars, clips, sent>>
  BY <1>1 DEF mainVars
<1>2. CASE SubmitPart
  BY <1>2 DEF SubmitPart, Put
<1>3. CASE Submitted
  BY <1>3 DEF Submitted
<1>4. CASE Seal
  BY <1>4 DEF Seal
<1>5. CASE PutEnd
  BY <1>5 DEF PutEnd, Put
<1>6. CASE Finish
  BY <1>6 DEF Finish, WriterDone
<1>7. CASE AbortStream
  BY <1>7 DEF AbortStream, Abort
<1>8. CASE FirstClip
  BY <1>8 DEF FirstClip
<1>9. CASE ReceiveClip
  BY <1>9 DEF ReceiveClip, Sender
<1>10. CASE Gather
  BY <1>10 DEF Gather
<1>11. CASE Barrier
  BY <1>11 DEF Barrier
<1>12. CASE NextClip
  BY <1>12 DEF NextClip
<1>13. CASE DecodeOwn
  BY <1>13 DEF DecodeOwn
<1>14. CASE DecodeAudio
  BY <1>14 DEF DecodeAudio
<1>15. CASE JoinWriter
  BY <1>15 DEF JoinWriter, AbortJoined
<1>16. CASE MainFails
  BY <1>16 DEF MainFails
<1>17. CASE PutFails
  BY <1>17 DEF PutFails, PutRaises
<1>18. CASE GroupKilled
  BY <1>18 DEF GroupKilled
<1>. QED
  BY <1>1, <1>2, <1>3, <1>4, <1>5, <1>6, <1>7, <1>8, <1>9, <1>10, <1>11, <1>12, <1>13, <1>14,
       <1>15, <1>16, <1>17, <1>18, Shape
  DEF MainStep

(* Steps keep ranks at their clips and the encoder at a block.             *)
LEMMA PlaceStep ==
  ASSUME StreamTypeOK, VaeTypeOK, PlaceInv, [Next]_vars
  PROVE  PlaceInv'
<1>. USE VaeAssumption DEF StreamTypeOK, VaeTypeOK, PlaceInv, streamVars, writerVars, vaeVars,
     mainVars, Clips, MainGoes, WriterGoes, RankGoes
<1>1. CASE UNCHANGED <<wpc, item, vaeVars>>
  BY <1>1 DEF vaeVars
<1>2. CASE FirstClip
  BY <1>2 DEF FirstClip
<1>3. CASE ReceiveClip
  BY <1>3 DEF ReceiveClip, Sender
<1>4. CASE Gather
  BY <1>4 DEF Gather
<1>5. CASE Barrier
  BY <1>5 DEF Barrier
<1>6. CASE OpenFile /\ UNCHANGED <<vaeVars, mainVars>>
  BY <1>6 DEF OpenFile
<1>7. CASE TakeBlock /\ UNCHANGED <<vaeVars, mainVars>>
  BY <1>7 DEF TakeBlock
<1>8. CASE EncodeBlock /\ UNCHANGED <<vaeVars, mainVars>>
  BY <1>8 DEF EncodeBlock
<1>9. CASE WriteAudio /\ UNCHANGED <<vaeVars, mainVars>>
  BY <1>9 DEF WriteAudio
<1>10. CASE Commit /\ UNCHANGED <<vaeVars, mainVars>>
  BY <1>10 DEF Commit
<1>11. CASE WriterFails /\ UNCHANGED <<vaeVars, mainVars>>
  BY <1>11 DEF WriterFails
<1>12. ASSUME NEW i \in Ranks, DecodeClip(i), UNCHANGED <<streamVars, mainVars>>
      PROVE  PlaceInv'
  BY <1>12 DEF DecodeClip
<1>13. ASSUME NEW i \in Ranks, ReceiveMetadata(i), UNCHANGED <<streamVars, mainVars>>
      PROVE  PlaceInv'
  BY <1>13 DEF ReceiveMetadata
<1>14. ASSUME NEW i \in Ranks, Isend(i), UNCHANGED <<streamVars, mainVars>>
      PROVE  PlaceInv'
  BY <1>14 DEF Isend, Continue
<1>15. ASSUME NEW i \in Ranks, WaitOldest(i), UNCHANGED <<streamVars, mainVars>>
      PROVE  PlaceInv'
  BY <1>15 DEF WaitOldest, Release, Received, Continue
<1>16. ASSUME NEW i \in Ranks, WaitRest(i), UNCHANGED <<streamVars, mainVars>>
      PROVE  PlaceInv'
  BY <1>16 DEF WaitRest, Release, Received
<1>17. ASSUME NEW i \in Ranks, Drained(i), UNCHANGED <<streamVars, mainVars>>
      PROVE  PlaceInv'
  BY <1>17 DEF Drained
<1>18. ASSUME NEW i \in Ranks, RankFails(i), UNCHANGED <<streamVars, mainVars>>
      PROVE  PlaceInv'
  BY <1>18 DEF RankFails
<1>. QED
  BY <1>1, <1>2, <1>3, <1>4, <1>5, <1>6, <1>7, <1>8, <1>9, <1>10, <1>11, <1>12, <1>13, <1>14,
       <1>15, <1>16, <1>17, <1>18, Shape
  DEF WriterStep, VaeStep

(* Appending keeps what a sequence contains and adds the new element.      *)
LEMMA ContainsAppend ==
  ASSUME NEW S, NEW s \in Seq(S), NEW c \in S
  PROVE  /\ Contains(Append(s, c), c)
         /\ \A x : Contains(s, x) => Contains(Append(s, c), x)
<1>1. Len(Append(s, c)) = Len(s) + 1 /\ Append(s, c)[Len(s) + 1] = c
  OBVIOUS
<1>2. \A k \in 1 .. Len(s) : Append(s, c)[k] = s[k]
  OBVIOUS
<1>. QED
  BY <1>1, <1>2 DEF Contains

(* What is left without the head.                                          *)
LEMMA TailShift ==
  ASSUME NEW S, NEW s \in Seq(S), s # <<>>
  PROVE  /\ DOMAIN Tail(s) = 1 .. Len(s) - 1
         /\ \A k \in 1 .. Len(s) - 1 : k + 1 \in DOMAIN s /\ Tail(s)[k] = s[k + 1]
OBVIOUS

(* Without its head a sequence contains the same, but for the head.        *)
LEMMA ContainsTail ==
  ASSUME NEW S, NEW s \in Seq(S), s # <<>>, NEW x, Contains(s, x), x # Head(s)
  PROVE  Contains(Tail(s), x)
<1>1. PICK k \in 1 .. Len(s) : s[k] = x
  BY DEF Contains
<1>2. k # 1
  BY <1>1
<1>3. k - 1 \in 1 .. Len(Tail(s)) /\ Tail(s)[k - 1] = x
  BY <1>1, <1>2
<1>. QED
  BY <1>3 DEF Contains

(* Steps keep the clips on the wire in their senders' hands.               *)
LEMMA HeldStep ==
  ASSUME VaeTypeOK, PlaceInv, HeldWhileSent, [Next]_vars
  PROVE  HeldWhileSent'
<1>1. CASE UNCHANGED vaeVars
  BY <1>1 DEF HeldWhileSent, vaeVars
<1>2. CASE FirstClip
  BY <1>2 DEF FirstClip, HeldWhileSent
<1>3. CASE ReceiveClip
  <2>. SUFFICES ASSUME NEW r \in Ranks, NEW n \in DOMAIN wire'[r]
                PROVE  Contains(held'[r], wire'[r][n])
    BY DEF HeldWhileSent
  <2>1. PICK q \in Ranks : wire[q] # <<>> /\ wire' = [wire EXCEPT ![q] = Tail(wire[q])]
    BY <1>3 DEF ReceiveClip, Sender
  <2>2. held' = held
    BY <1>3 DEF ReceiveClip
  <2>3. CASE r # q
    BY <2>1, <2>2, <2>3 DEF VaeTypeOK, HeldWhileSent
  <2>4. CASE r = q
    <3>1. wire'[r] = Tail(wire[r]) /\ wire[r] \in Seq(Clips)
      BY <2>1, <2>4 DEF VaeTypeOK
    <3>2. wire[r] # <<>>
      BY <2>1, <2>4
    <3>3. n + 1 \in DOMAIN wire[r] /\ wire'[r][n] = wire[r][n + 1]
      BY <3>1, <3>2, TailShift
    <3>. QED
      BY <2>2, <3>3 DEF HeldWhileSent
  <2>. QED
    BY <2>3, <2>4
<1>4. CASE Gather
  BY <1>4 DEF Gather, HeldWhileSent
<1>5. CASE Barrier
  BY <1>5 DEF Barrier, HeldWhileSent
<1>6. ASSUME NEW i \in Ranks, DecodeClip(i), UNCHANGED <<streamVars, mainVars>>
      PROVE  HeldWhileSent'
  BY <1>6 DEF DecodeClip, HeldWhileSent, RankGoes
<1>7. ASSUME NEW i \in Ranks, ReceiveMetadata(i), UNCHANGED <<streamVars, mainVars>>
      PROVE  HeldWhileSent'
  BY <1>7 DEF ReceiveMetadata, HeldWhileSent, RankGoes
<1>8. ASSUME NEW i \in Ranks, Isend(i), UNCHANGED <<streamVars, mainVars>>
      PROVE  HeldWhileSent'
  <2>. SUFFICES ASSUME NEW r \in Ranks, NEW n \in DOMAIN wire'[r]
                PROVE  Contains(held'[r], wire'[r][n])
    BY DEF HeldWhileSent
  <2>1. CASE r # i
    BY <1>8, <2>1 DEF Isend, VaeTypeOK, HeldWhileSent
  <2>2. CASE r = i
    <3>1. clip[i] \in Clips /\ wire[i] \in Seq(Clips) /\ held[i] \in Seq(Clips)
      BY <1>8 DEF Isend, RankGoes, PlaceInv, VaeTypeOK
    <3>2. wire'[r] = Append(wire[i], clip[i]) /\ held'[r] = Append(held[i], clip[i])
      BY <1>8, <2>2 DEF Isend, VaeTypeOK
    <3>3. CASE n = Len(wire[i]) + 1
      BY <3>1, <3>2, <3>3, ContainsAppend
    <3>4. CASE n \in DOMAIN wire[i]
      <4>1. wire'[r][n] = wire[i][n]
        BY <3>1, <3>2, <3>4
      <4>2. Contains(held[i], wire[i][n])
        BY <3>4 DEF HeldWhileSent
      <4>. QED
        BY <3>1, <3>2, <4>1, <4>2, ContainsAppend
    <3>5. n \in 1 .. Len(wire[i]) + 1
      BY <3>1, <3>2
    <3>. QED
      BY <3>1, <3>3, <3>4, <3>5
  <2>. QED
    BY <2>1, <2>2
<1>9. ASSUME NEW i \in Ranks, WaitOldest(i), UNCHANGED <<streamVars, mainVars>>
      PROVE  HeldWhileSent'
  <2>. SUFFICES ASSUME NEW r \in Ranks, NEW n \in DOMAIN wire'[r]
                PROVE  Contains(held'[r], wire'[r][n])
    BY DEF HeldWhileSent
  <2>1. held[i] # <<>> /\ ~Contains(wire[i], Head(held[i])) /\ wire' = wire
    BY <1>9 DEF WaitOldest, Release, Received
  <2>2. held' = [held EXCEPT ![i] = Tail(held[i])]
    BY <1>9 DEF WaitOldest, Release
  <2>3. CASE r # i
    BY <2>1, <2>2, <2>3 DEF VaeTypeOK, HeldWhileSent
  <2>4. CASE r = i
    <3>1. held[i] \in Seq(Clips) /\ held'[r] = Tail(held[i]) /\ wire[i] \in Seq(Clips)
      BY <2>2, <2>4 DEF VaeTypeOK
    <3>2. n \in 1 .. Len(wire[i]) /\ Contains(held[i], wire[i][n])
      BY <2>1, <2>4, <3>1 DEF HeldWhileSent
    <3>3. wire[i][n] # Head(held[i])
      BY <2>1, <3>2 DEF Contains
    <3>. QED
      BY <2>1, <2>4, <3>1, <3>2, <3>3, ContainsTail
  <2>. QED
    BY <2>3, <2>4
<1>10. ASSUME NEW i \in Ranks, WaitRest(i), UNCHANGED <<streamVars, mainVars>>
      PROVE  HeldWhileSent'
  <2>. SUFFICES ASSUME NEW r \in Ranks, NEW n \in DOMAIN wire'[r]
                PROVE  Contains(held'[r], wire'[r][n])
    BY DEF HeldWhileSent
  <2>1. held[i] # <<>> /\ ~Contains(wire[i], Head(held[i])) /\ wire' = wire
    BY <1>10 DEF WaitRest, Release, Received
  <2>2. held' = [held EXCEPT ![i] = Tail(held[i])]
    BY <1>10 DEF WaitRest, Release
  <2>3. CASE r # i
    BY <2>1, <2>2, <2>3 DEF VaeTypeOK, HeldWhileSent
  <2>4. CASE r = i
    <3>1. held[i] \in Seq(Clips) /\ held'[r] = Tail(held[i]) /\ wire[i] \in Seq(Clips)
      BY <2>2, <2>4 DEF VaeTypeOK
    <3>2. n \in 1 .. Len(wire[i]) /\ Contains(held[i], wire[i][n])
      BY <2>1, <2>4, <3>1 DEF HeldWhileSent
    <3>3. wire[i][n] # Head(held[i])
      BY <2>1, <3>2 DEF Contains
    <3>. QED
      BY <2>1, <2>4, <3>1, <3>2, <3>3, ContainsTail
  <2>. QED
    BY <2>3, <2>4
<1>11. ASSUME NEW i \in Ranks, Drained(i), UNCHANGED <<streamVars, mainVars>>
      PROVE  HeldWhileSent'
  BY <1>11 DEF Drained, HeldWhileSent, RankGoes
<1>12. ASSUME NEW i \in Ranks, RankFails(i), UNCHANGED <<streamVars, mainVars>>
      PROVE  HeldWhileSent'
  BY <1>12 DEF RankFails, HeldWhileSent
<1>. QED
  BY <1>1, <1>2, <1>3, <1>4, <1>5, <1>6, <1>7, <1>8, <1>9, <1>10, <1>11, <1>12, Shape
  DEF VaeStep

(* Steps keep what the writer leaves behind.                               *)
LEMMA FileStep ==
  ASSUME StreamTypeOK, FileInv, [Next]_vars
  PROVE  FileInv'
<1>. USE DEF StreamTypeOK, FileInv, WriterDone, streamVars, writerVars, vaeVars, mainVars,
     MainGoes, WriterGoes, RankGoes
<1>1. CASE UNCHANGED <<streamVars, mpc>>
  BY <1>1 DEF streamVars
<1>2. CASE SubmitPart
  BY <1>2 DEF SubmitPart, Put
<1>3. CASE Submitted
  BY <1>3 DEF Submitted
<1>4. CASE Seal
  BY <1>4 DEF Seal
<1>5. CASE PutEnd
  BY <1>5 DEF PutEnd, Put
<1>6. CASE Finish
  BY <1>6 DEF Finish, WriterDone
<1>7. CASE AbortStream
  BY <1>7 DEF AbortStream, Abort
<1>8. CASE FirstClip
  BY <1>8 DEF FirstClip
<1>9. CASE ReceiveClip
  BY <1>9 DEF ReceiveClip, Sender
<1>10. CASE Gather
  BY <1>10 DEF Gather
<1>11. CASE Barrier
  BY <1>11 DEF Barrier
<1>12. CASE NextClip
  BY <1>12 DEF NextClip
<1>13. CASE DecodeOwn
  BY <1>13 DEF DecodeOwn
<1>14. CASE DecodeAudio
  BY <1>14 DEF DecodeAudio
<1>15. CASE JoinWriter
  BY <1>15 DEF JoinWriter, AbortJoined
<1>16. CASE MainFails
  BY <1>16 DEF MainFails
<1>17. CASE PutFails
  BY <1>17 DEF PutFails, PutRaises
<1>18. CASE GroupKilled
  BY <1>18 DEF GroupKilled
<1>19. CASE OpenFile /\ UNCHANGED <<vaeVars, mainVars>>
  BY <1>19 DEF OpenFile
<1>20. CASE TakeBlock /\ UNCHANGED <<vaeVars, mainVars>>
  BY <1>20 DEF TakeBlock
<1>21. CASE EncodeBlock /\ UNCHANGED <<vaeVars, mainVars>>
  BY <1>21 DEF EncodeBlock
<1>22. CASE WriteAudio /\ UNCHANGED <<vaeVars, mainVars>>
  BY <1>22 DEF WriteAudio
<1>23. CASE Commit /\ UNCHANGED <<vaeVars, mainVars>>
  BY <1>23 DEF Commit
<1>24. CASE WriterFails /\ UNCHANGED <<vaeVars, mainVars>>
  BY <1>24 DEF WriterFails
<1>. QED
  BY <1>1, <1>2, <1>3, <1>4, <1>5, <1>6, <1>7, <1>8, <1>9, <1>10, <1>11, <1>12, <1>13, <1>14,
       <1>15, <1>16, <1>17, <1>18, <1>19, <1>20, <1>21, <1>22, <1>23, <1>24, Shape
  DEF MainStep, WriterStep, mainVars

(* Steps neither lose nor add a block.                                     *)
LEMMA CountStep ==
  ASSUME StreamTypeOK, MainTypeOK, PlaceInv, CountInv, [Next]_vars
  PROVE  CountInv'
<1>. USE StreamAssumption DEF StreamTypeOK, MainTypeOK, PlaceInv, CountInv, Streaming, Ended,
     Feeding, Taken, Produced, WriterDone, PartsWanted, WriterPCs, streamVars, writerVars,
     vaeVars, mainVars, MainGoes, WriterGoes, RankGoes
<1>1. CASE UNCHANGED <<streamVars, mainVars>>
  BY <1>1 DEF streamVars, mainVars
<1>2. CASE SubmitPart
  <2>1. queue' = Append(queue, [clip |-> got, part |-> part]) /\ Len(queue') = Len(queue) + 1
    BY <1>2 DEF SubmitPart, Put, StreamTypeOK
  <2>2. \A n \in 1 .. Len(queue) : queue'[n] = queue[n]
    BY <2>1 DEF StreamTypeOK
  <2>3. queue'[Len(queue) + 1] = [clip |-> got, part |-> part]
    BY <2>1 DEF StreamTypeOK
  <2>4. wpc # "failed" /\ wpc # "done" /\ UNCHANGED <<sent, encoded, wpc, verdict>>
    BY <1>2 DEF SubmitPart, Put
  <2>5. [clip |-> got, part |-> part] \in Block /\ part \in Nat
    BY DEF MainTypeOK, Clips, Block
  <2>6. mpc = "submit" /\ mpc' = "submit" /\ part' = part + 1
    BY <1>2 DEF SubmitPart
  <2>7. \A n \in 1 .. Len(queue') : queue'[n] # End
    <3>1. \A n \in 1 .. Len(queue') : n \in 1 .. Len(queue) \/ n = Len(queue) + 1
      BY <2>1
    <3>2. \A n \in 1 .. Len(queue) : queue[n] # End
      BY <2>6
    <3>. QED
      BY <2>2, <2>3, <2>5, <3>1, <3>2
  <2>8. wpc \in Feeding /\ Taken' = Taken /\ verdict # "ok"
    BY <2>4, <2>6
  <2>9. Produced' = Produced + 1 /\ Taken + Len(queue) = Produced
    BY <2>4, <2>6, <2>8
  <2>10. Taken \in Nat /\ Produced \in Nat /\ Len(queue) \in Nat
    BY <2>5, <2>6
  <2>. HIDE DEF Taken, Produced
  <2>. QED
    BY <2>1, <2>4, <2>6, <2>7, <2>8, <2>9, <2>10
<1>3. CASE Submitted
  BY <1>3 DEF Submitted
<1>4. CASE Seal
  BY <1>4 DEF Seal
<1>5. CASE PutEnd
  <2>1. queue' = Append(queue, End) /\ Len(queue') = Len(queue) + 1
    BY <1>5 DEF PutEnd, Put, StreamTypeOK
  <2>2. \A n \in 1 .. Len(queue) : queue'[n] = queue[n]
    BY <2>1 DEF StreamTypeOK
  <2>3. queue'[Len(queue) + 1] = End
    BY <2>1 DEF StreamTypeOK
  <2>4. wpc # "failed" /\ wpc # "done" /\ UNCHANGED <<sent, encoded, wpc, verdict>>
    BY <1>5 DEF PutEnd, Put
  <2>5. mpc = "end" /\ mpc' \in {"barrier", "finish"} /\ UNCHANGED total
    BY <1>5 DEF PutEnd
  <2>6. queue' # <<>> /\ queue'[Len(queue')] = End /\ Len(queue') - 1 = Len(queue)
    BY <2>1, <2>3
  <2>7. \A n \in 1 .. Len(queue') - 1 : queue'[n] # End
    BY <2>2, <2>5, <2>6
  <2>8. wpc \in Feeding /\ Taken' = Taken /\ verdict # "ok"
    BY <2>4, <2>5
  <2>9. Taken + Len(queue) = total /\ Taken \in Nat /\ Len(queue) \in Nat
    BY <2>5, <2>8
  <2>. HIDE DEF Taken
  <2>. QED
    BY <2>1, <2>4, <2>5, <2>6, <2>7, <2>8, <2>9
<1>6. CASE Finish
  BY <1>6 DEF Finish, WriterDone
<1>7. CASE AbortStream
  BY <1>7 DEF AbortStream, Abort
<1>8. CASE FirstClip
  BY <1>8 DEF FirstClip
<1>9. CASE ReceiveClip
  BY <1>9 DEF ReceiveClip, Sender
<1>10. CASE Gather
  BY <1>10 DEF Gather
<1>11. CASE Barrier
  BY <1>11 DEF Barrier
<1>12. CASE NextClip
  BY <1>12 DEF NextClip
<1>13. CASE DecodeOwn
  BY <1>13 DEF DecodeOwn
<1>14. CASE DecodeAudio
  BY <1>14 DEF DecodeAudio
<1>15. CASE JoinWriter
  BY <1>15 DEF JoinWriter, AbortJoined
<1>16. CASE MainFails
  BY <1>16 DEF MainFails
<1>17. CASE PutFails
  BY <1>17 DEF PutFails, PutRaises
<1>18. CASE GroupKilled
  BY <1>18 DEF GroupKilled
<1>19. CASE OpenFile /\ UNCHANGED <<vaeVars, mainVars>>
  BY <1>19 DEF OpenFile
<1>20. CASE TakeBlock /\ UNCHANGED <<vaeVars, mainVars>>
  <2>1. queue # <<>> /\ queue' = Tail(queue) /\ Len(queue') = Len(queue) - 1
    BY <1>20 DEF TakeBlock, StreamTypeOK
  <2>2. \A n \in 1 .. Len(queue) - 1 : queue'[n] = queue[n + 1]
    BY <2>1 DEF StreamTypeOK
  <2>3. wpc = "get" /\ UNCHANGED <<sent, encoded, total, mpc, part, verdict>>
    BY <1>20 DEF TakeBlock
  <2>4. CASE queue[1] = End
    <3>1. wpc' = "audio"
      BY <1>20, <2>1, <2>4 DEF TakeBlock, StreamTypeOK
    <3>2. mpc \notin Streaming
      BY <2>1, <2>4 DEF StreamTypeOK
    <3>3. mpc \in Ended => Len(queue) = 1
      BY <2>1, <2>3, <2>4 DEF StreamTypeOK
    <3>. QED
      BY <2>1, <2>3, <3>1, <3>2, <3>3 DEF StreamTypeOK
  <2>5. CASE queue[1] # End
    <3>1. wpc' = "encode"
      BY <1>20, <2>1, <2>5 DEF TakeBlock, StreamTypeOK
    <3>2. mpc \in Ended => Len(queue) > 1
      BY <2>1, <2>3, <2>5 DEF StreamTypeOK
    <3>3. mpc \in Streaming => CountInv'
      BY <2>1, <2>2, <2>3, <3>1, SMTT(30) DEF StreamTypeOK
    <3>4. mpc \in Ended => CountInv'
      <4>1. mpc \in Ended => queue' # <<>> /\ queue'[Len(queue')] = End
        <5>1. mpc \in Ended => queue[Len(queue)] = End /\ Len(queue) \in Nat /\ Len(queue) > 1
          BY <2>3, <3>2
        <5>2. mpc \in Ended => Len(queue') \in 1 .. Len(queue) - 1 /\ Len(queue') + 1 =
             Len(queue)
          BY <2>1, <5>1
        <5>. QED
          BY <2>2, <5>1, <5>2
      <4>2. mpc \in Ended => \A n \in 1 .. Len(queue') - 1 : queue'[n] # End
        <5>1. \A n \in 1 .. Len(queue') - 1 :
                n \in 1 .. Len(queue) - 1 /\ n + 1 \in 1 .. Len(queue) - 1
          BY <2>1
        <5>2. mpc \in Ended => \A n \in 1 .. Len(queue) - 1 : queue[n] # End
          BY <2>3
        <5>. QED
          BY <2>2, <5>1, <5>2
      <4>. QED
        BY <2>1, <2>3, <3>1, <3>2, <4>1, <4>2, SMTT(30) DEF StreamTypeOK
    <3>. QED
      BY <2>3, <3>1, <3>3, <3>4
  <2>. QED
    BY <2>4, <2>5
<1>21. CASE EncodeBlock /\ UNCHANGED <<vaeVars, mainVars>>
  BY <1>21 DEF EncodeBlock
<1>22. CASE WriteAudio /\ UNCHANGED <<vaeVars, mainVars>>
  BY <1>22 DEF WriteAudio
<1>23. CASE Commit /\ UNCHANGED <<vaeVars, mainVars>>
  BY <1>23 DEF Commit
<1>24. CASE WriterFails /\ UNCHANGED <<vaeVars, mainVars>>
  BY <1>24 DEF WriterFails
<1>. QED
  BY <1>1, <1>2, <1>3, <1>4, <1>5, <1>6, <1>7, <1>8, <1>9, <1>10, <1>11, <1>12, <1>13, <1>14,
       <1>15, <1>16, <1>17, <1>18, <1>19, <1>20, <1>21, <1>22, <1>23, <1>24, Shape
  DEF MainStep, WriterStep, mainVars

-----------------------------------------------------------------------------
(* At the start nothing is produced, sent or written.                      *)
LEMMA InitInv ==
  ASSUME Init
  PROVE  OutputInv
<1>1. StreamTypeOK
  <2>1. <<>> \in Seq(Block \union {End}) /\ <<>> \in Seq(Block) /\ Len(<<>>) = 0
    OBVIOUS
  <2>2. 0 <= QueueSize
    BY StreamAssumption
  <2>. QED
    BY <2>1, <2>2 DEF Init, StreamInit, StreamTypeOK, WriterPCs
<1>2. VaeTypeOK
  <2>1. <<>> \in Seq(Clips)
    OBVIOUS
  <2>2. /\ wire \in [Ranks -> Seq(Clips)]
        /\ held \in [Ranks -> Seq(Clips)]
    BY <2>1 DEF Init, VaeInit
  <2>3. \A r \in Ranks : r \in Nat
    BY VaeAssumption DEF Ranks
  <2>4. clip \in [Ranks -> Nat]
    BY <2>3 DEF Init, VaeInit
  <2>5. vpc \in [Ranks -> VaePCs]
    BY DEF Init, VaeInit, VaePCs
  <2>. QED
    BY <2>2, <2>4, <2>5 DEF Init, VaeInit, VaeTypeOK
<1>3. MainTypeOK
  <2>1. clips \in Nat \ {0}
    BY <1>2, VaeAssumption DEF VaeTypeOK
  <2>2. clips * PartsPerClip \in Nat
    BY <2>1, OutputAssumption
  <2>3. total \in Nat /\ sent = 0 /\ 0 <= total
    BY <2>2 DEF Init, StreamInit
  <2>4. 0 \in Clips /\ 0 \in 0 .. clips /\ 0 \in 0 .. PartsPerClip
    BY <2>1, OutputAssumption DEF Clips
  <2>. QED
    BY <2>3, <2>4 DEF Init, MainTypeOK, MainPCs
<1>4. PlaceInv
  BY DEF Init, StreamInit, VaeInit, PlaceInv
<1>5. CountInv
  BY DEF Init, StreamInit, CountInv, Streaming, Ended, Feeding, Taken, Produced
<1>6. FileInv /\ HeldWhileSent
  BY DEF Init, StreamInit, VaeInit, FileInv, HeldWhileSent, WriterDone
<1>. QED
  BY <1>1, <1>2, <1>3, <1>4, <1>5, <1>6 DEF OutputInv, TypeOK, MainTypeOK

(* The invariant of the output of a video.                                 *)
THEOREM OutputInvariant == Spec => []OutputInv
<1>1. OutputInv /\ [Next]_vars => OutputInv'
  BY StreamTypes, VaeTypes, MainTypes, PlaceStep, HeldStep, FileStep, CountStep
     DEF OutputInv, TypeOK, MainTypeOK
<1>. QED
  BY InitInv, <1>1, PTL DEF Spec

(* Every variable keeps its type; no more blocks are sent than asked for.  *)
THEOREM OutputTypes == Spec => []TypeOK
<1>1. OutputInv => TypeOK
  BY DEF OutputInv
<1>. QED
  BY OutputInvariant, <1>1, PTL

(* No rank lets go of a clip that its send may still be reading.           *)
THEOREM BuffersHeld == Spec => []HeldWhileSent
<1>1. OutputInv => HeldWhileSent
  BY DEF OutputInv
<1>. QED
  BY OutputInvariant, <1>1, PTL

(* An output that is finished is complete, whatever the queue, the encoder *)
(* and the ranks have gone through.                                        *)
THEOREM FinishedComplete == Spec => []FinishedIsComplete
<1>1. OutputInv => FinishedIsComplete
  BY DEF OutputInv, CountInv, FileInv, FinishedIsComplete
<1>. QED
  BY OutputInvariant, <1>1, PTL

(* An aborted output leaves neither a thread nor a partial file.           *)
THEOREM AbortClean == Spec => []AbortLeavesNothing
<1>1. OutputInv => AbortLeavesNothing
  BY DEF OutputInv, FileInv, AbortLeavesNothing
<1>. QED
  BY OutputInvariant, <1>1, PTL


-----------------------------------------------------------------------------
(***************************************************************************)
(* The order of the blocks of a video, for any number of ranks, clips and  *)
(* blocks: what is encoded is the video, in temporal order, from its       *)
(* beginning.                                                              *)
(***************************************************************************)
(* A block is in the place n of the video, counted from 0.                 *)
Place(b, n) ==
  /\ b \in Block /\ b.part < PartsPerClip
  /\ PartsPerClip * b.clip + b.part = n
  /\ n < total

(* The container, the encoder and the queue hold successive places.        *)
BlockInv ==
  /\ \A n \in 1 .. Len(encoded) : Place(encoded[n], n - 1)
  /\ wpc = "encode" => Place(item, Len(encoded))
  /\ wpc \in Feeding =>
       \A n \in 1 .. Len(queue) : queue[n] # End => Place(queue[n], Taken + n - 1)

(* The main rank works on its clips in turn and has sent all before.       *)
AllBefore(c) == sent = PartsPerClip * c \/ sent = total

ClipInv ==
  /\ mpc \in {"first", "next"} => AllBefore(index)
  /\ mpc \in {"decode", "submit"} => index = got + 1 /\ AllBefore(got)
  /\ mpc = "submit" => part <= PartsWanted

(* The first clip of r that is not sent yet, and those on the wire: what   *)
(* r has sent and the main rank has not come to.                           *)
Unsent(r) == IF vpc[r] = "wait" THEN clip[r] + WorldSize ELSE clip[r]
OnWire(r, c) == \E n \in 1 .. Len(wire[r]) : wire[r][n] = c

WireInv ==
  \A r \in Ranks :
    /\ clip[r] % WorldSize = r
    /\ vpc[r] # "gone" =>
         /\ \A m, n \in 1 .. Len(wire[r]) : m < n => wire[r][m] < wire[r][n]
         /\ \A c \in Clips : Owner(c) = r /\ c < index => c < Unsent(r)
         /\ \A c \in Clips : OnWire(r, c) <=> Owner(c) = r /\ index <= c /\ c < Unsent(r)

OrderInv == BlockInv /\ ClipInv /\ WireInv

-----------------------------------------------------------------------------
(* Places and owners, as division and remainder.                           *)
LEMMA PlaceIsDivision ==
  ASSUME NEW P \in Nat \ {0}, NEW c \in Nat, NEW p \in Nat, p < P
  PROVE  (P * c + p) \div P = c /\ (P * c + p) % P = p
<1>1. (c * P + p) \div P = c
  OBVIOUS
<1>2. (c * P + p) % P = p
  OBVIOUS
<1>3. P * c = c * P
  OBVIOUS
<1>. QED
  BY <1>1, <1>2, <1>3

LEMMA Division ==
  ASSUME NEW W \in Nat \ {0}, NEW c \in Nat
  PROVE  /\ c \div W \in Nat /\ c % W \in 0 .. W - 1
         /\ c = W * (c \div W) + (c % W)
<1>1. W \in Int /\ W > 0 /\ c \in Int
  OBVIOUS
<1>2. c \div W \in Int /\ c \div W >= 0 /\ c % W \in 0 .. W - 1
  OBVIOUS
<1>3. c % W = c - W * (c \div W)
  BY <1>1, Z3T(30)
<1>. QED
  BY <1>2, <1>3

(* The clips of a rank are WorldSize apart.                                *)
LEMMA NextOfRank ==
  ASSUME NEW W \in Nat \ {0}, NEW c \in Nat
  PROVE  (c + W) % W = c % W
<1>. DEFINE q == c \div W
            p == c % W
<1>1. q \in Nat /\ p \in Nat /\ p < W /\ c = W * q + p
  BY Division
<1>2. c + W = W * (q + 1) + p
  <2>. HIDE DEF q, p
  <2>. QED
    BY <1>1
<1>3. (W * (q + 1) + p) % W = p
  <2>. HIDE DEF q, p
  <2>. QED
    BY <1>1, PlaceIsDivision
<1>. QED
  BY <1>2, <1>3

LEMMA Apart ==
  ASSUME NEW W \in Nat \ {0}, NEW c \in Nat, NEW d \in Nat, c < d, c % W = d % W
  PROVE  c + W <= d
<1>. DEFINE a == c \div W
            b == d \div W
            p == c % W
<1>1. a \in Nat /\ b \in Nat /\ p \in Nat /\ c = W * a + p /\ d = W * b + p
  <2>1. a \in Nat /\ p \in 0 .. W - 1 /\ c = W * a + p
    BY Division
  <2>2. b \in Nat /\ d = W * b + (d % W)
    BY Division
  <2>3. p \in Nat
    <3>. HIDE DEF a, p
    <3>. QED
      BY <2>1
  <2>. QED
    BY <2>1, <2>2, <2>3, Zenon
<1>. HIDE DEF a, b, p
<1>2. a < b
  <2>. SUFFICES ASSUME b <= a
                PROVE  FALSE
    BY <1>1
  <2>1. PICK k \in Nat : a = b + k
    <3>1. a - b \in Nat /\ a = b + (a - b)
      BY <1>1
    <3>. QED
      BY <3>1
  <2>2. W * a = W * b + W * k /\ W * k \in Nat
    BY <1>1, <2>1
  <2>. QED
    BY <1>1, <2>2
<1>3. PICK k \in Nat : b = a + 1 + k
  <2>1. b - a - 1 \in Nat /\ b = a + 1 + (b - a - 1)
    BY <1>1, <1>2
  <2>. QED
    BY <2>1
<1>4. W * b = W * a + W + W * k /\ W * k \in Nat
  BY <1>1, <1>3
<1>. QED
  BY <1>1, <1>4

(* What the owner of the clip that is wanted has sent begins with it.      *)
LEMMA HeadIsNext ==
  ASSUME VaeTypeOK, WireInv, NEW r \in Ranks, index \in Clips, r = Owner(index),
         wire[r] # <<>>, vpc[r] # "gone"
  PROVE  Head(wire[r]) = index
<1>1. wire[r] \in Seq(Clips) /\ Head(wire[r]) = wire[r][1] /\ 1 \in 1 .. Len(wire[r])
  BY DEF VaeTypeOK
<1>2. wire[r][1] \in Clips /\ OnWire(r, wire[r][1])
  BY <1>1 DEF OnWire
<1>3. index <= wire[r][1] /\ wire[r][1] < Unsent(r)
  BY <1>2 DEF WireInv
<1>4. Unsent(r) \in Nat /\ index \in Nat /\ wire[r][1] \in Nat
  BY <1>2, VaeAssumption DEF Unsent, VaeTypeOK, Clips
<1>5. OnWire(r, index)
  BY <1>3, <1>4 DEF WireInv
<1>6. PICK n \in 1 .. Len(wire[r]) : wire[r][n] = index
  BY <1>5 DEF OnWire
<1>7. 1 < n => wire[r][1] < wire[r][n]
  BY <1>1 DEF WireInv
<1>. QED
  BY <1>1, <1>3, <1>4, <1>6, <1>7

-----------------------------------------------------------------------------
(* Steps keep the blocks in their places, ...                              *)
LEMMA BlockStep ==
  ASSUME OutputInv, BlockInv, ClipInv, [Next]_vars
  PROVE  BlockInv'
<1>0. StreamTypeOK /\ MainTypeOK /\ PlaceInv /\ CountInv
  BY DEF OutputInv, TypeOK, MainTypeOK
<1>1. CASE UNCHANGED <<queue, writerVars, total>>
  BY <1>1 DEF BlockInv, Place, Taken, writerVars
<1>2. CASE SubmitPart
  <2>. DEFINE b == [clip |-> got, part |-> part]
  <2>1. /\ mpc = "submit" /\ part < PartsWanted /\ ~WriterDone
        /\ queue' = Append(queue, b)
        /\ UNCHANGED <<sent, writerVars, total>>
    BY <1>2 DEF SubmitPart, Put, MainGoes
  <2>2. wpc \in Feeding /\ Taken + Len(queue) = sent + part
    BY <1>0, <2>1 DEF CountInv, Streaming, Produced, Feeding, WriterDone
  <2>3. /\ got \in Nat /\ part \in Nat /\ sent \in Nat /\ total \in Nat
        /\ PartsPerClip \in Nat \ {0} /\ sent <= total
    BY <1>0, OutputAssumption DEF MainTypeOK, StreamTypeOK, Clips
  <2>4. part < PartsPerClip /\ sent + part < total /\ sent = PartsPerClip * got
    BY <2>1, <2>3 DEF PartsWanted, ClipInv, AllBefore
  <2>5. Place(b, Taken + Len(queue))
    BY <2>2, <2>3, <2>4 DEF Place, Block
  <2>6. \A n \in 1 .. Len(queue') : queue'[n] # End => Place(queue'[n], Taken + n - 1)
    <3>. SUFFICES ASSUME NEW n \in 1 .. Len(queue'), queue'[n] # End
                  PROVE  Place(queue'[n], Taken + n - 1)
      OBVIOUS
    <3>1. queue \in Seq(Block \union {End}) /\ Taken \in Nat
      BY <1>0 DEF StreamTypeOK, Taken
    <3>2. CASE n \in 1 .. Len(queue)
      BY <2>1, <2>2, <3>1, <3>2 DEF BlockInv
    <3>3. CASE n = Len(queue) + 1
      <4>1. queue'[n] = b /\ Taken + n - 1 = Taken + Len(queue)
        BY <2>1, <3>1, <3>3
      <4>. QED
        BY <2>5, <4>1
    <3>. QED
      BY <2>1, <3>1, <3>2, <3>3
  <2>. QED
    BY <2>1, <2>6 DEF BlockInv, Place, Taken, writerVars
<1>3. CASE PutEnd
  <2>1. queue' = Append(queue, End) /\ UNCHANGED <<writerVars, total>>
    BY <1>3 DEF PutEnd, Put, MainGoes
  <2>2. queue \in Seq(Block \union {End})
    BY <1>0 DEF StreamTypeOK
  <2>3. \A n \in 1 .. Len(queue') :
          \/ n \in 1 .. Len(queue) /\ queue'[n] = queue[n]
          \/ queue'[n] = End
    BY <2>1, <2>2
  <2>. QED
    BY <2>1, <2>3 DEF BlockInv, Place, Taken, writerVars
<1>4. CASE AbortStream
  <2>1. CASE Abort
    <3>1. queue' = <<End>> /\ UNCHANGED <<writerVars, total>>
      BY <1>4, <2>1 DEF Abort, AbortStream, MainGoes
    <3>2. \A n \in 1 .. Len(queue') : queue'[n] = End
      BY <3>1
    <3>. QED
      BY <3>1, <3>2 DEF BlockInv, Place, Taken, writerVars
  <2>2. CASE UNCHANGED streamVars
    BY <1>1, <1>4, <2>2 DEF AbortStream, MainGoes, streamVars, writerVars
  <2>. QED
    BY <1>4, <2>1, <2>2 DEF AbortStream
<1>5. CASE TakeBlock /\ UNCHANGED <<vaeVars, mainVars>>
  <2>1. /\ wpc = "get" /\ queue # <<>> /\ queue' = Tail(queue) /\ item' = Head(queue)
        /\ wpc' = (IF Head(queue) = End THEN "audio" ELSE "encode")
        /\ UNCHANGED <<encoded, total>>
    BY <1>5 DEF TakeBlock, WriterGoes, mainVars
  <2>2. queue \in Seq(Block \union {End}) /\ encoded \in Seq(Block)
    BY <1>0 DEF StreamTypeOK
  <2>3. /\ Len(queue) >= 1 /\ Head(queue) = queue[1] /\ Len(queue') = Len(queue) - 1
        /\ \A n \in 1 .. Len(queue') : queue'[n] = queue[n + 1]
    BY <2>1, <2>2
  <2>4. \A n \in 1 .. Len(encoded) : Place(encoded[n], n - 1)'
    BY <2>1 DEF BlockInv, Place
  <2>5. CASE queue[1] = End
    BY <2>1, <2>3, <2>4, <2>5 DEF BlockInv, Feeding
  <2>6. CASE queue[1] # End
    <3>1. Taken = Len(encoded) /\ Taken' = Len(encoded) + 1 /\ Len(encoded) \in Nat
      BY <2>1, <2>2, <2>3, <2>6 DEF Taken
    <3>2. Place(item', Len(encoded))
      BY <2>1, <2>3, <2>6, <3>1 DEF BlockInv, Feeding
    <3>3. \A n \in 1 .. Len(queue') : queue'[n] # End => Place(queue'[n], Taken' + n - 1)
      <4>. SUFFICES ASSUME NEW n \in 1 .. Len(queue'), queue'[n] # End
                    PROVE  Place(queue'[n], Taken' + n - 1)
        OBVIOUS
      <4>1. /\ n + 1 \in 1 .. Len(queue) /\ queue'[n] = queue[n + 1]
            /\ Taken' + n - 1 = Taken + (n + 1) - 1
        BY <2>2, <2>3, <3>1
      <4>. QED
        BY <2>1, <4>1 DEF BlockInv, Feeding
    <3>. QED
      BY <2>1, <2>4, <3>2, <3>3 DEF BlockInv, Place
  <2>. QED
    BY <2>5, <2>6
<1>6. CASE EncodeBlock /\ UNCHANGED <<vaeVars, mainVars>>
  <2>1. /\ wpc = "encode" /\ wpc' = "get" /\ encoded' = Append(encoded, item)
        /\ UNCHANGED <<queue, item, total>>
    BY <1>6 DEF EncodeBlock, WriterGoes, mainVars
  <2>2. encoded \in Seq(Block) /\ item \in Block
    BY <1>0, <2>1 DEF StreamTypeOK, PlaceInv
  <2>3. /\ Len(encoded') = Len(encoded) + 1 /\ encoded'[Len(encoded) + 1] = item
        /\ \A n \in 1 .. Len(encoded) : encoded'[n] = encoded[n]
    BY <2>1, <2>2
  <2>4. Taken' = Taken
    BY <2>1, <2>2, <2>3 DEF Taken
  <2>5. \A n \in 1 .. Len(encoded') : Place(encoded'[n], n - 1)
    <3>. TAKE n \in 1 .. Len(encoded')
    <3>1. n \in 1 .. Len(encoded) \/ n = Len(encoded) + 1
      BY <2>2, <2>3
    <3>2. CASE n = Len(encoded) + 1
      <4>1. encoded'[n] = item /\ n - 1 = Len(encoded)
        BY <2>2, <2>3, <3>2
      <4>. QED
        BY <2>1, <4>1 DEF BlockInv
    <3>. QED
      BY <2>3, <3>1, <3>2 DEF BlockInv
  <2>. QED
    BY <2>1, <2>4, <2>5 DEF BlockInv, Place, Feeding
<1>7. CASE (OpenFile \/ WriteAudio \/ Commit \/ WriterFails) /\ UNCHANGED <<vaeVars, mainVars>>
  <2>1. /\ UNCHANGED <<queue, item, encoded, total>>
        /\ wpc \in Feeding \/ wpc' \notin Feeding
        /\ wpc' # "encode" /\ (wpc' \in Feeding => wpc # "encode")
    BY <1>7 DEF OpenFile, WriteAudio, Commit, WriterFails, WriterGoes, Feeding, mainVars
  <2>. QED
    BY <2>1 DEF BlockInv, Place, Taken, Feeding
<1>8. CASE Submitted \/ Seal \/ Finish
  BY <1>1, <1>8 DEF Submitted, Seal, Finish, MainGoes, writerVars
<1>9. CASE UNCHANGED streamVars
  <2>1. UNCHANGED total
    BY <1>9 DEF Next, vars, mainVars, MainStep, MainFails, GroupKilled, FirstClip, NextClip,
         DecodeOwn, ReceiveClip, SubmitPart, Submitted, Gather, DecodeAudio, Seal, PutEnd,
         Finish, Barrier, PutFails, AbortStream, JoinWriter, MainGoes
  <2>. QED
    BY <1>1, <1>9, <2>1 DEF streamVars, writerVars
<1>. QED
  BY <1>2, <1>3, <1>4, <1>5, <1>6, <1>7, <1>8, <1>9, Shape DEF WriterStep

(* ... the main rank at its clips, ...                                     *)
LEMMA ClipStep ==
  ASSUME OutputInv, ClipInv, WireInv, [Next]_vars
  PROVE  ClipInv'
<1>0. StreamTypeOK /\ VaeTypeOK /\ MainTypeOK
  BY DEF OutputInv, TypeOK, MainTypeOK
<1>. USE DEF MainGoes
<1>1. CASE UNCHANGED <<sent, total, part>> /\ mpc' \notin {"first", "next", "decode", "submit"}
  BY <1>1 DEF ClipInv
<1>2. CASE FirstClip
  BY <1>2 DEF FirstClip, ClipInv, AllBefore, streamVars
<1>3. CASE NextClip
  <2>1. mpc = "next" /\ UNCHANGED <<sent, total>>
    BY <1>3 DEF NextClip, streamVars
  <2>2. CASE index = clips
    BY <1>1, <1>3, <2>1, <2>2 DEF NextClip, Clips, ClipInv
  <2>3. CASE index # clips
    <3>1. got' = index /\ part' = 0 /\ index' = index + 1 /\ mpc' \in {"submit", "decode"}
      BY <1>3, <2>3 DEF NextClip
    <3>2. 0 <= PartsWanted'
      BY <1>0, <2>1, OutputAssumption DEF PartsWanted, MainTypeOK, StreamTypeOK, VaeTypeOK
    <3>. QED
      BY <2>1, <3>1, <3>2 DEF ClipInv, AllBefore
  <2>. QED
    BY <2>2, <2>3
<1>4. CASE DecodeOwn
  <2>1. mpc = "decode" /\ part = 0
    BY <1>4 DEF DecodeOwn, OutputInv, CountInv
  <2>2. 0 <= PartsWanted
    BY <1>0, OutputAssumption DEF PartsWanted, MainTypeOK, StreamTypeOK, VaeTypeOK
  <2>. QED
    BY <1>4, <2>1, <2>2 DEF DecodeOwn, ClipInv, AllBefore, PartsWanted, streamVars
<1>5. CASE ReceiveClip
  <2>1. /\ mpc = "next" /\ mpc' = "submit" /\ index \in Clips /\ index' = index + 1
        /\ part' = 0 /\ UNCHANGED <<sent, total>>
    BY <1>5 DEF ReceiveClip, streamVars
  <2>2. PICK r \in Ranks : /\ r = Owner(index) /\ wire[r] # <<>> /\ vpc[r] # "gone"
                           /\ got' = Head(wire[r])
    BY <1>5 DEF ReceiveClip, Sender
  <2>3. Head(wire[r]) = index
    BY <1>0, <2>1, <2>2, HeadIsNext
  <2>4. 0 <= PartsWanted'
    BY <1>0, <2>1, OutputAssumption DEF PartsWanted, MainTypeOK, StreamTypeOK, VaeTypeOK
  <2>. QED
    BY <2>1, <2>2, <2>3, <2>4 DEF ClipInv, AllBefore
<1>6. CASE SubmitPart
  <2>1. /\ mpc = "submit" /\ mpc' = "submit" /\ part < PartsWanted /\ part' = part + 1
        /\ UNCHANGED <<sent, total, index, got>>
    BY <1>6 DEF SubmitPart
  <2>2. part + 1 <= PartsWanted
    BY <1>0, <2>1, OutputAssumption DEF PartsWanted, MainTypeOK, StreamTypeOK, VaeTypeOK
  <2>. QED
    BY <2>1, <2>2 DEF ClipInv, AllBefore, PartsWanted
<1>7. CASE Submitted
  <2>1. /\ mpc = "submit" /\ mpc' = "next" /\ sent' = sent + PartsWanted
        /\ UNCHANGED <<total, index, got>>
    BY <1>7 DEF Submitted
  <2>2. index = got + 1 /\ AllBefore(got)
    BY <2>1 DEF ClipInv
  <2>3. /\ PartsPerClip \in Nat \ {0} /\ got \in Nat /\ sent \in Nat /\ total \in Nat
        /\ sent <= total
    BY <1>0, OutputAssumption DEF MainTypeOK, StreamTypeOK, VaeTypeOK, Clips
  <2>4. PartsPerClip * (got + 1) = PartsPerClip * got + PartsPerClip
    BY <2>3
  <2>5. sent' = PartsPerClip * (got + 1) \/ sent' = total
    BY <2>1, <2>2, <2>3, <2>4 DEF AllBefore, PartsWanted
  <2>. QED
    BY <2>1, <2>2, <2>5 DEF ClipInv, AllBefore
<1>8. CASE UNCHANGED <<mainVars, sent>>
  BY <1>8 DEF ClipInv, AllBefore, PartsWanted, mainVars
<1>9. CASE Gather \/ DecodeAudio \/ Seal \/ PutEnd \/ Barrier \/ PutFails \/ AbortStream
           \/ JoinWriter \/ MainFails
  BY <1>9 DEF Gather, DecodeAudio, Seal, PutEnd, Barrier, PutFails, AbortStream, Abort,
     JoinWriter, MainFails, streamVars, ClipInv
<1>10. CASE Finish
  BY <1>10 DEF Finish, ClipInv, AllBefore
<1>11. CASE GroupKilled
  BY <1>11 DEF GroupKilled, ClipInv, AllBefore, PartsWanted, streamVars
<1>. QED
  BY <1>2, <1>3, <1>4, <1>5, <1>6, <1>7, <1>8, <1>9, <1>10, <1>11, Shape DEF MainStep

(* ... and the wires: a rank sends its clips in turn, ...                  *)
LEMMA SendStep ==
  ASSUME OutputInv, WireInv, NEW i \in Ranks, VaeStep(i) \/ RankFails(i),
         UNCHANGED <<streamVars, mainVars>>
  PROVE  WireInv'
<1>0. VaeTypeOK /\ WorldSize \in Nat \ {0} /\ index \in Nat
  BY VaeAssumption DEF OutputInv, TypeOK, VaeTypeOK
<1>1. UNCHANGED <<index, clips>>
  BY DEF mainVars, VaeStep, RankFails, DecodeClip, ReceiveMetadata, Isend, WaitOldest, WaitRest,
     Drained, RankGoes
<1>2. clip[i] \in Nat /\ clip[i] % WorldSize = i /\ (clip[i] + WorldSize) % WorldSize = i
  BY <1>0, NextOfRank DEF WireInv, VaeTypeOK
<1>. SUFFICES ASSUME NEW r \in Ranks
              PROVE  /\ clip'[r] % WorldSize = r
                     /\ vpc'[r] # "gone" =>
                        /\ \A m, n \in 1 .. Len(wire'[r]) : m < n => wire'[r][m] < wire'[r][n]
                        /\ \A c \in Clips : Owner(c) = r /\ c < index => c < Unsent(r)'
                        /\ \A c \in Clips :
                             OnWire(r, c)' <=> Owner(c) = r /\ index <= c /\ c < Unsent(r)'
  BY <1>1 DEF WireInv, Clips, Owner
<1>3. CASE r # i
  <2>1. UNCHANGED <<vpc[r], clip[r], wire[r]>>
    BY <1>0, <1>3 DEF VaeStep, RankFails, DecodeClip, ReceiveMetadata, Isend, WaitOldest, WaitRest,
       Drained, RankGoes, Release, VaeTypeOK
  <2>. QED
    BY <2>1 DEF WireInv, Unsent, OnWire
<1>4. CASE r = i /\ Isend(i)
  <2>1. /\ vpc[i] = "send" /\ wire'[i] = Append(wire[i], clip[i])
        /\ vpc'[i] = (IF held[i] = <<>> THEN Continue(i) ELSE "wait")
        /\ clip'[i] = (IF held[i] = <<>> THEN clip[i] + WorldSize ELSE clip[i])
    BY <1>0, <1>4 DEF Isend, RankGoes, VaeTypeOK
  <2>2. Unsent(i) = clip[i] /\ Unsent(i)' = clip[i] + WorldSize
    BY <2>1 DEF Unsent, Continue
  <2>3. clip[i] \in Clips /\ Owner(clip[i]) = i
    BY <1>2, <2>1 DEF OutputInv, PlaceInv, Owner
  <2>4. index <= clip[i]
    BY <1>0, <1>2, <2>1, <2>2, <2>3 DEF WireInv
  <2>5. wire[i] \in Seq(Clips)
    BY <1>0 DEF VaeTypeOK
  <2>6. \A n \in 1 .. Len(wire[i]) : wire[i][n] < clip[i]
    <3>. TAKE n \in 1 .. Len(wire[i])
    <3>1. wire[i][n] \in Clips /\ OnWire(i, wire[i][n])
      BY <2>5 DEF OnWire
    <3>. QED
      BY <2>1, <2>2, <3>1 DEF WireInv
  <2>7. /\ Len(wire'[i]) = Len(wire[i]) + 1 /\ wire'[i][Len(wire[i]) + 1] = clip[i]
        /\ \A n \in 1 .. Len(wire[i]) : wire'[i][n] = wire[i][n]
    BY <2>1, <2>3, <2>5
  <2>8. \A m, n \in 1 .. Len(wire'[i]) : m < n => wire'[i][m] < wire'[i][n]
    <3>. SUFFICES ASSUME NEW m \in 1 .. Len(wire'[i]), NEW n \in 1 .. Len(wire'[i]), m < n
                  PROVE  wire'[i][m] < wire'[i][n]
      OBVIOUS
    <3>1. m \in 1 .. Len(wire[i]) /\ (n \in 1 .. Len(wire[i]) \/ n = Len(wire[i]) + 1)
      BY <2>5, <2>7
    <3>. QED
      BY <2>1, <2>6, <2>7, <3>1 DEF WireInv
  <2>9. \A c \in Clips : OnWire(i, c)' <=> OnWire(i, c) \/ c = clip[i]
    <3>1. \A n \in 1 .. Len(wire'[i]) : n \in 1 .. Len(wire[i]) \/ n = Len(wire[i]) + 1
      BY <2>5, <2>7
    <3>2. \A n \in 1 .. Len(wire[i]) : n \in 1 .. Len(wire'[i])
      BY <2>5, <2>7
    <3>3. Len(wire[i]) + 1 \in 1 .. Len(wire'[i])
      BY <2>5, <2>7
    <3>. QED
      BY <2>7, <3>1, <3>2, <3>3 DEF OnWire
  <2>10. \A c \in Clips :
           Owner(c) = i => (c < clip[i] + WorldSize <=> c < clip[i] \/ c = clip[i])
    <3>. SUFFICES ASSUME NEW c \in Clips, Owner(c) = i
                  PROVE  c < clip[i] + WorldSize <=> c < clip[i] \/ c = clip[i]
      OBVIOUS
    <3>1. c \in Nat /\ c % WorldSize = clip[i] % WorldSize
      BY <1>2 DEF Owner, Clips
    <3>2. clip[i] < c => clip[i] + WorldSize <= c
      BY <1>0, <1>2, <3>1, Apart
    <3>. HIDE DEF Owner
    <3>3. c \in Nat /\ clip[i] \in Nat /\ WorldSize \in Nat \ {0}
      BY <1>0, <1>2, <3>1
    <3>. QED
      BY <3>2, <3>3
  <2>11. \A c \in Clips : OnWire(i, c)' <=> Owner(c) = i /\ index <= c /\ c < Unsent(i)'
    <3>. TAKE c \in Clips
    <3>1. OnWire(i, c) <=> Owner(c) = i /\ index <= c /\ c < clip[i]
      BY <2>1, <2>2 DEF WireInv
    <3>. QED
      BY <2>2, <2>3, <2>4, <2>9, <2>10, <3>1
  <2>12. \A c \in Clips : Owner(c) = i /\ c < index => c < Unsent(i)'
    <3>1. \A c \in Clips : Owner(c) = i /\ c < index => c < clip[i]
      BY <2>1, <2>2 DEF WireInv
    <3>. QED
      BY <2>2, <2>10, <3>1
  <2>. QED
    BY <1>2, <1>4, <2>1, <2>8, <2>11, <2>12
<1>5. CASE r = i /\ ~Isend(i) /\ VaeStep(i)
  <2>1. wire' = wire /\ vpc[i] # "gone"
    BY <1>5 DEF VaeStep, DecodeClip, ReceiveMetadata, WaitOldest, WaitRest, Drained, RankGoes,
       Release
  <2>2. clip'[i] % WorldSize = i
    BY <1>0, <1>2, <1>5 DEF VaeStep, DecodeClip, ReceiveMetadata, WaitOldest, WaitRest, Drained,
       VaeTypeOK
  <2>3. Unsent(i)' = Unsent(i)
    BY <1>0, <1>5 DEF VaeStep, DecodeClip, ReceiveMetadata, WaitOldest, WaitRest, Drained, RankGoes,
       VaeTypeOK, Unsent, Continue
  <2>. QED
    BY <1>5, <2>1, <2>2, <2>3 DEF WireInv, OnWire
<1>6. CASE r = i /\ RankFails(i)
  BY <1>0, <1>2, <1>6 DEF RankFails, VaeTypeOK
<1>. QED
  BY <1>3, <1>4, <1>5, <1>6

(* ... and the main rank takes the one it wants.                           *)
LEMMA ReceiveStep ==
  ASSUME OutputInv, WireInv, ReceiveClip
  PROVE  WireInv'
<1>0. VaeTypeOK /\ index \in Nat /\ \A c \in Clips : c \in Nat
  BY VaeAssumption DEF OutputInv, TypeOK, VaeTypeOK, Clips
<1>1. /\ index \in Clips /\ index' = index + 1 /\ UNCHANGED <<clips, vpc, clip>>
  BY DEF ReceiveClip
<1>2. PICK q \in Ranks : /\ q = Owner(index) /\ wire[q] # <<>> /\ vpc[q] # "gone"
                         /\ wire' = [wire EXCEPT ![q] = Tail(wire[q])]
  BY DEF ReceiveClip, Sender
<1>. SUFFICES ASSUME NEW r \in Ranks, vpc[r] # "gone"
              PROVE  /\ \A m, n \in 1 .. Len(wire'[r]) : m < n => wire'[r][m] < wire'[r][n]
                     /\ \A c \in Clips : Owner(c) = r /\ c < index' => c < Unsent(r)
                     /\ \A c \in Clips :
                          OnWire(r, c)' <=> Owner(c) = r /\ index' <= c /\ c < Unsent(r)
  BY <1>1 DEF WireInv, Clips, Owner, Unsent
<1>3. \A c \in Clips : c < index' <=> c < index \/ c = index
  BY <1>0, <1>1
<1>4. \A c \in Clips : index' <= c <=> index <= c /\ c # index
  BY <1>0, <1>1
<1>5. CASE r # q
  <2>1. wire'[r] = wire[r]
    BY <1>0, <1>2, <1>5 DEF VaeTypeOK
  <2>2. \A c \in Clips : Owner(c) = r => c # index
    BY <1>2, <1>5
  <2>. QED
    BY <1>3, <1>4, <2>1, <2>2 DEF WireInv, OnWire
<1>6. CASE r = q
  <2>1. Head(wire[r]) = index
    BY <1>0, <1>1, <1>2, <1>6, HeadIsNext
  <2>2. wire'[r] = Tail(wire[r]) /\ wire[r] \in Seq(Clips) /\ wire[r] # <<>>
    BY <1>0, <1>2, <1>6 DEF VaeTypeOK
  <2>3. /\ Len(wire[r]) \in Nat \ {0} /\ Len(wire'[r]) = Len(wire[r]) - 1
        /\ wire[r][1] = index
        /\ \A n \in 1 .. Len(wire'[r]) : wire'[r][n] = wire[r][n + 1]
    BY <2>1, <2>2
  <2>4. \A n \in 1 .. Len(wire'[r]) : n + 1 \in 2 .. Len(wire[r])
    BY <2>3
  <2>5. \A n \in 2 .. Len(wire[r]) :
          wire[r][n] # index /\ n - 1 \in 1 .. Len(wire'[r]) /\ wire'[r][n - 1] = wire[r][n]
    <3>. TAKE n \in 2 .. Len(wire[r])
    <3>1. wire[r][1] < wire[r][n]
      BY <2>3 DEF WireInv
    <3>2. n - 1 \in 1 .. Len(wire'[r]) /\ (n - 1) + 1 = n
      BY <2>3
    <3>. QED
      BY <1>0, <1>1, <2>3, <3>1, <3>2, SMTT(30)
  <2>6. \A m, n \in 1 .. Len(wire'[r]) : m < n => wire'[r][m] < wire'[r][n]
    <3>. SUFFICES ASSUME NEW m \in 1 .. Len(wire'[r]), NEW n \in 1 .. Len(wire'[r]), m < n
                  PROVE  wire'[r][m] < wire'[r][n]
      OBVIOUS
    <3>1. m + 1 \in 1 .. Len(wire[r]) /\ n + 1 \in 1 .. Len(wire[r]) /\ m + 1 < n + 1
      BY <2>3
    <3>2. wire[r][m + 1] < wire[r][n + 1]
      BY <3>1 DEF WireInv
    <3>. QED
      BY <2>3, <3>2
  <2>7. \A c \in Clips : OnWire(r, c)' <=> OnWire(r, c) /\ c # index
    <3>1. ASSUME NEW c \in Clips, OnWire(r, c)'
          PROVE  OnWire(r, c) /\ c # index
      <4>1. PICK n \in 1 .. Len(wire'[r]) : wire'[r][n] = c
        BY <3>1 DEF OnWire
      <4>2. n + 1 \in 2 .. Len(wire[r]) /\ wire[r][n + 1] = c
        BY <2>3, <2>4, <4>1
      <4>3. n + 1 \in 1 .. Len(wire[r])
        BY <2>3, <4>2
      <4>. QED
        BY <2>5, <4>2, <4>3 DEF OnWire
    <3>2. ASSUME NEW c \in Clips, OnWire(r, c), c # index
          PROVE  OnWire(r, c)'
      <4>1. PICK n \in 1 .. Len(wire[r]) : wire[r][n] = c
        BY <3>2 DEF OnWire
      <4>2. n \in 2 .. Len(wire[r])
        BY <2>3, <3>2, <4>1
      <4>. QED
        BY <2>5, <4>1, <4>2 DEF OnWire
    <3>. QED
      BY <3>1, <3>2
  <2>8. index < Unsent(r)
    <3>1. OnWire(r, index)
      BY <2>3 DEF OnWire
    <3>. QED
      BY <1>1, <3>1 DEF WireInv
  <2>. QED
    BY <1>3, <1>4, <2>6, <2>7, <2>8 DEF WireInv
<1>. QED
  BY <1>5, <1>6

LEMMA WireStep ==
  ASSUME OutputInv, WireInv, [Next]_vars
  PROVE  WireInv'
<1>0. VaeTypeOK /\ index \in Nat
  BY VaeAssumption DEF OutputInv, TypeOK, VaeTypeOK
<1>1. CASE ReceiveClip
  BY <1>1, ReceiveStep
<1>2. ASSUME NEW i \in Ranks, VaeStep(i) \/ RankFails(i), UNCHANGED <<streamVars, mainVars>>
      PROVE  WireInv'
  BY <1>2, SendStep
<1>3. CASE NextClip
  <2>1. UNCHANGED vaeVars
    BY <1>3 DEF NextClip
  <2>2. index' = index \/ (index \in Clips /\ Owner(index) = 0 /\ index' = index + 1)
    BY <1>3 DEF NextClip
  <2>3. \A c \in Clips, r \in Ranks : Owner(c) = r =>
          (c < index' <=> c < index) /\ (index' <= c <=> index <= c)
    <3>. SUFFICES ASSUME NEW c \in Clips, NEW r \in Ranks, Owner(c) = r
                  PROVE  (c < index' <=> c < index) /\ (index' <= c <=> index <= c)
      OBVIOUS
    <3>1. r # 0 /\ c \in Nat
      BY <1>0, VaeAssumption DEF Ranks, Clips, VaeTypeOK
    <3>2. index' = index \/ (index' = index + 1 /\ c # index)
      BY <2>2, <3>1
    <3>. HIDE DEF Owner
    <3>. QED
      BY <1>0, <3>1, <3>2
  <2>4. WireInv' <=>
          \A r \in Ranks :
            /\ clip[r] % WorldSize = r
            /\ vpc[r] # "gone" =>
                 /\ \A m, n \in 1 .. Len(wire[r]) : m < n => wire[r][m] < wire[r][n]
                 /\ \A c \in Clips : Owner(c) = r /\ c < index' => c < Unsent(r)
                 /\ \A c \in Clips : OnWire(r, c) <=> Owner(c) = r /\ index' <= c /\ c < Unsent(r)
    BY <2>1 DEF WireInv, vaeVars, Unsent, OnWire, Clips, Owner
  <2>. QED
    BY <2>3, <2>4 DEF WireInv
<1>4. CASE Gather \/ Barrier
  <2>1. UNCHANGED <<clips, clip, wire, index>>
    BY <1>4 DEF Gather, Barrier
  <2>2. \A r \in Ranks : vpc[r] \in {"gather", "barrier"} /\ vpc'[r] \in {"barrier", "over"}
    BY <1>4 DEF Gather, Barrier
  <2>3. \A r \in Ranks : vpc[r] # "gone" /\ Unsent(r)' = Unsent(r)
    BY <2>1, <2>2 DEF Unsent
  <2>. QED
    BY <2>1, <2>3 DEF WireInv, OnWire, Clips, Owner
<1>5. CASE UNCHANGED <<clips, vpc, clip, wire, index>>
  BY <1>5 DEF WireInv, Unsent, OnWire, Clips, Owner
<1>6. CASE FirstClip \/ DecodeOwn \/ SubmitPart \/ Submitted \/ DecodeAudio \/ Seal \/ PutEnd
           \/ Finish \/ PutFails \/ AbortStream \/ JoinWriter \/ MainFails \/ GroupKilled
  BY <1>5, <1>6 DEF FirstClip, DecodeOwn, SubmitPart, Submitted, DecodeAudio, Seal, PutEnd,
     Finish, PutFails, AbortStream, JoinWriter, MainFails, GroupKilled, vaeVars
<1>7. CASE UNCHANGED <<vaeVars, mainVars>>
  BY <1>5, <1>7 DEF vaeVars, mainVars
<1>. QED
  BY <1>1, <1>2, <1>3, <1>4, <1>6, <1>7 DEF Next, MainStep, vars, mainVars

-----------------------------------------------------------------------------
(* At the start nothing is sent or encoded.                                *)
LEMMA InitOrder ==
  ASSUME Init
  PROVE  OrderInv
<1>1. BlockInv
  BY DEF Init, StreamInit, BlockInv
<1>2. ClipInv
  BY OutputAssumption DEF Init, StreamInit, ClipInv, AllBefore
<1>3. WireInv
  <2>. SUFFICES ASSUME NEW r \in Ranks
                PROVE  /\ r % WorldSize = r
                       /\ \A c \in Clips : c < r => Owner(c) # r
    BY VaeAssumption DEF Init, VaeInit, WireInv, Unsent, OnWire, Clips
  <2>1. \A c \in Nat : c < WorldSize => c % WorldSize = c
    BY VaeAssumption
  <2>2. r \in Nat /\ r < WorldSize
    BY VaeAssumption DEF Ranks
  <2>3. \A c \in Clips : c \in Nat
    BY VaeAssumption DEF Init, VaeInit, Clips
  <2>4. ASSUME NEW c \in Clips, c < r
        PROVE  Owner(c) # r
    <3>1. c \in Nat /\ c < WorldSize
      BY <2>2, <2>3, <2>4, VaeAssumption
    <3>. QED
      BY <2>1, <2>4, <2>2, <3>1 DEF Owner
  <2>. QED
    BY <2>1, <2>2, <2>4
<1>. QED
  BY <1>1, <1>2, <1>3 DEF OrderInv

(* Blocks in their places are the video from its beginning.                *)
LEMMA PlacesAreFrames ==
  ASSUME StreamTypeOK, MainTypeOK, BlockInv
  PROVE  FramesInOrder
<1>1. encoded \in Seq(Block) /\ total \in Nat /\ PartsPerClip \in Nat \ {0}
  BY OutputAssumption DEF StreamTypeOK, MainTypeOK
<1>2. Len(encoded) <= total
  <2>1. CASE Len(encoded) = 0
    BY <1>1, <2>1
  <2>2. CASE Len(encoded) # 0
    <3>1. Len(encoded) \in 1 .. Len(encoded)
      BY <1>1, <2>2
    <3>. QED
      BY <1>1, <3>1 DEF BlockInv, Place
  <2>. QED
    BY <2>1, <2>2
<1>3. ASSUME NEW n \in DOMAIN encoded
      PROVE  encoded[n] = [clip |-> (n - 1) \div PartsPerClip, part |-> (n - 1) % PartsPerClip]
  <2>. DEFINE b == encoded[n]
  <2>1. n \in 1 .. Len(encoded)
    BY <1>1, <1>3
  <2>2. Place(b, n - 1)
    BY <2>1 DEF BlockInv
  <2>3. /\ b \in [clip : Nat, part : Nat] /\ b.part < PartsPerClip
        /\ PartsPerClip * b.clip + b.part = n - 1
    BY <2>2 DEF Place, Block
  <2>4. /\ (PartsPerClip * b.clip + b.part) \div PartsPerClip = b.clip
        /\ (PartsPerClip * b.clip + b.part) % PartsPerClip = b.part
    <3>. HIDE DEF b
    <3>. QED
      BY <1>1, <2>3, PlaceIsDivision
  <2>5. b = [clip |-> b.clip, part |-> b.part]
    BY <2>3
  <2>. QED
    BY <2>3, <2>4, <2>5
<1>. QED
  BY <1>2, <1>3 DEF FramesInOrder

(* The invariant behind the order.                                         *)
THEOREM OrderInvariant == Spec => []OrderInv
<1>1. OutputInv /\ OrderInv /\ [Next]_vars => OrderInv'
  BY BlockStep, ClipStep, WireStep DEF OrderInv
<1>. QED
  BY OutputInvariant, InitOrder, <1>1, PTL DEF Spec

(* Whichever rank has decoded a clip, and however ranks and encoder are    *)
(* delayed or fail, the container holds the video's blocks in temporal     *)
(* order, none twice and none left out.                                    *)
THEOREM TemporalOrder == Spec => []FramesInOrder
<1>1. OutputInv /\ OrderInv => FramesInOrder
  BY PlacesAreFrames DEF OutputInv, TypeOK, MainTypeOK, OrderInv
<1>. QED
  BY OutputInvariant, OrderInvariant, <1>1, PTL
=============================================================================
