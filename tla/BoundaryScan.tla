---------------------------- MODULE BoundaryScan ----------------------------
(***************************************************************************)
(* openvdn_comfy/boundary_scan.py: the states of the linear attention,     *)
(* from the first frame on (prefix) and from the last one back (suffix),   *)
(* only where chunks of frames end and begin.  A frame takes a state S to  *)
(* S @ M + C.  Matrices are those of the free algebra: a set of words, for *)
(* the sum of products of named matrices.  An equality of words is one for *)
(* all matrices, however they do not commute.                              *)
(***************************************************************************)
EXTENDS Integers, Sequences

CONSTANTS
  MaxFrames, Chunks     \* bounds of the model: frames, and lengths of a chunk

VARIABLES
  frames, chunk, offset,
  text,         \* text_state is given
  turn,         \* the step of the loop, which has both chains
  state,        \* <<forward, reverse>>
  boundary      \* boundary[c + 1]: the states after step c

bvars == <<frames, chunk, offset, text, turn, state, boundary>>

Zero == {}
Eye == {<<>>}
Times(S, M) == {w \o m : w \in S, m \in M}

(* The frame at a place of the padded grid: identity where there is none.  *)
InVideo(place) == place - offset \in 0 .. frames - 1
TransitionAt(place) == IF InVideo(place) THEN {<<<<"M", place - offset>>>>} ELSE Eye
InjectionAt(place) == IF InVideo(place) THEN {<<<<"C", place - offset>>>>} ELSE Zero

NumChunks == (offset + frames + chunk - 1) \div chunk
StartState == IF text THEN {<<<<"text", 0>>>>} ELSE Zero

(* _compose_chunk(): the frames of a chunk folded into one map.            *)
Place(c, k, reverse) == c * chunk + (IF reverse THEN chunk - k ELSE k - 1)

Fold(map, place) == [M |-> Times(map.M, TransitionAt(place)),
                     C |-> Times(map.C, TransitionAt(place)) \union InjectionAt(place)]

ComposeChunk(c, reverse) ==
  LET map[k \in 0 .. chunk] == IF k = 0 THEN [M |-> Eye, C |-> Zero]
                               ELSE Fold(map[k - 1], Place(c, k, reverse))
  IN  map[chunk]

(* _boundary_frames(): frames that end, and that begin a chunk.            *)
Ends == {e \in (0 .. frames - 1) \X (0 .. NumChunks - 1) :
           e[1] = (IF (e[2] + 1) * chunk - 1 < offset + frames - 1 THEN (e[2] + 1) * chunk - 1
                   ELSE offset + frames - 1) - offset}
Starts == {e \in (0 .. frames - 1) \X (0 .. NumChunks - 1) : e[1] = e[2] * chunk - offset}

BoundaryInit ==
  /\ frames \in 1 .. MaxFrames /\ chunk \in Chunks /\ offset \in {0, 1} /\ text \in BOOLEAN
  /\ turn = 0 /\ state = <<StartState, StartState>> /\ boundary = <<>>

(* Mutant of ReverseChunk: both chains go through the chunks forwards.     *)
SameChunk(c) == c

(* Step c has the forward chain on chunk c, the reverse one on this.       *)
ReverseChunk(c) == NumChunks - 1 - c

Advance ==
  LET forward == ComposeChunk(turn, FALSE)
      backward == ComposeChunk(ReverseChunk(turn), TRUE)
      after == <<Times(state[1], forward.M) \union forward.C,
                 Times(state[2], backward.M) \union backward.C>>
  IN
  /\ turn < NumChunks
  /\ state' = after
  /\ boundary' = Append(boundary, after)
  /\ turn' = turn + 1
  /\ UNCHANGED <<frames, chunk, offset, text>>

BoundaryNext == Advance

(* What the readout gets: zero where nothing was gathered.                 *)
Prefix(f) == IF \E c \in 0 .. NumChunks - 1 : <<f, c>> \in Ends
             THEN boundary[(CHOOSE c \in 0 .. NumChunks - 1 : <<f, c>> \in Ends) + 1][1] ELSE Zero
Suffix(f) == IF \E c \in 0 .. NumChunks - 1 : <<f, c>> \in Starts
             THEN boundary[NumChunks - (CHOOSE c \in 0 .. NumChunks - 1 : <<f, c>> \in Starts)][2]
             ELSE Zero

(* Mutant of Compatible: windows on the grid without the anchor's offset.  *)
CompatibleIgnoringOffset(lo, hi) ==
  /\ lo - 1 \in 0 .. frames - 1 => lo % chunk = 0 \/ lo = frames
  /\ hi + 1 \in 0 .. frames - 1 => (hi + 1) % chunk = 0

(* boundary_compatible(), for the window of one frame; scans() takes the   *)
(* sequential scan if one window does not fit.                             *)
Compatible(lo, hi) ==
  /\ lo - 1 \in 0 .. frames - 1 => \E e \in Ends : e[1] = lo - 1
  /\ hi + 1 \in 0 .. frames - 1 => \E s \in Starts : s[1] = hi + 1

-----------------------------------------------------------------------------
(* The recurrence, frame by frame: the states after so many of them.       *)
Recurrence(step) ==
  LET after[k \in 0 .. frames] ==
        IF k = 0 THEN StartState
        ELSE LET frame == IF step = 1 THEN k - 1 ELSE frames - k
             IN  Times(after[k - 1], {<<<<"M", frame>>>>}) \union {<<<<"C", frame>>>>}
  IN  after

Native(f, step) == Recurrence(step)[IF step = 1 THEN f + 1 ELSE frames - f]

(* Every state that a readout takes at an edge of an accepted window is    *)
(* the one of the sequential scans: no chunk is cut short, none is read    *)
(* before or behind its end, with a leading offset or a partial last one.  *)
ScansAsNative ==
  turn = NumChunks =>
    \A lo \in -1 .. frames, hi \in -1 .. frames : Compatible(lo, hi) =>
      /\ lo - 1 \in 0 .. frames - 1 => Prefix(lo - 1) = Native(lo - 1, 1)
      /\ hi + 1 \in 0 .. frames - 1 => Suffix(hi + 1) = Native(hi + 1, -1)
=============================================================================
