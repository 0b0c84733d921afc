------------------------------ MODULE VaeBatch ------------------------------
(***************************************************************************)
(* openvdn_comfy/vae_batch.py on one rank: tiles of a clip are stacked and *)
(* decoded together, perhaps by compiled blocks.  The first batch of each  *)
(* signature is compared with the native decoder; a signature is           *)
(* remembered for as long as its arithmetic stays the same, in a bounded   *)
(* list: an OrderedDict, kept here as a function from the signatures to    *)
(* how long ago they were used.  A tile is its shape.                      *)
(***************************************************************************)
EXTENDS Integers, Sequences, FiniteSets, Functions

CONSTANTS
  Clips,            \* what clips look like: tiles from left to right, top to bottom
  BatchSizes,       \* vae_tile_batch_size
  MaxVerified,      \* signatures remembered
  MaxClips, MaxResets   \* bounds of the model

VARIABLES
  batch_size, compile_decoder,
  clip,         \* the tiles of the clip, none between clips
  next,         \* the tile that is looked at
  pending,      \* tiles waiting for a batch
  rows,         \* outputs: of which tile, or 0
  signatures,   \* remembered: the last one used is 0, others more
  checked,      \* ghost: signatures compared since their graphs were compiled
  unchecked,    \* ghost: a batch was used that nobody has compared
  clips, resets

vbvars == <<batch_size, compile_decoder, clip, next, pending, rows, signatures, checked, unchecked,
            clips, resets>>

Tiles == UNION {Range(c) : c \in Clips}
Signatures == Tiles \X Nat \X BOOLEAN
NoSignatures == [key \in {} |-> 0]

VaeBatchInit ==
  /\ batch_size = 1 /\ compile_decoder = FALSE
  /\ clip = <<>> /\ next = 1 /\ pending = <<>> /\ rows = <<>>
  /\ signatures = NoSignatures /\ checked = {} /\ unchecked = FALSE
  /\ clips = 0 /\ resets = 0

(* A request sets its options, and its first clip is cut into tiles.       *)
Configure(size, compile, c) ==
  /\ clip = <<>> /\ clips < MaxClips
  /\ batch_size' = size /\ compile_decoder' = compile
  /\ clip' = c /\ next' = 1 /\ pending' = <<>>
  /\ rows' = [k \in DOMAIN c |-> 0]
  /\ clips' = clips + 1
  /\ UNCHANGED <<signatures, checked, unchecked, resets>>

(* Mutant of KeptByReset: nothing is forgotten.                            *)
KeptAll(key) == TRUE

KeptByReset(key) == ~key[3]

(* The compiler is reset between requests, with all that it has compiled.  *)
ResetCompiler ==
  /\ clip = <<>> /\ resets < MaxResets
  /\ signatures' = Restrict(signatures, {key \in DOMAIN signatures : KeptByReset(key)})
  /\ checked' = {key \in checked : ~key[3]}
  /\ resets' = resets + 1
  /\ UNCHANGED <<batch_size, compile_decoder, clip, next, pending, rows, unchecked, clips>>

(* move_to_end(), or a new entry: what was used later than it ages.        *)
Used(key) ==
  [k \in DOMAIN signatures \union {key} |->
     IF k = key THEN 0
     ELSE IF key \in DOMAIN signatures /\ signatures[key] < signatures[k] THEN signatures[k]
     ELSE signatures[k] + 1]

(* Beyond the capacity the oldest is forgotten.                            *)
Remember(key) ==
  \E oldest \in DOMAIN Used(key) :
    /\ \A k \in DOMAIN Used(key) : Used(key)[k] <= Used(key)[oldest]
    /\ signatures' = IF Cardinality(DOMAIN Used(key)) <= MaxVerified THEN Used(key)
                     ELSE Restrict(Used(key), DOMAIN Used(key) \ {oldest})

(* decode_batch(): the tiles of a batch get their outputs; a signature is  *)
(* compared unless it is remembered or the batch is the native one.        *)
DecodeBatch(tiles, places) ==
  LET key == <<clip[tiles[1]], Len(tiles), compile_decoder>>
      native == Len(tiles) = 1 /\ ~compile_decoder IN
  /\ rows' = [k \in DOMAIN clip |->
                IF k \in Range(tiles) THEN places[CHOOSE n \in DOMAIN tiles : tiles[n] = k] ELSE rows[k]]
  /\ IF native THEN UNCHANGED signatures ELSE Remember(key)
  /\ checked' = IF native \/ key \in DOMAIN signatures THEN checked ELSE checked \union {key}
  /\ unchecked' = (unchecked \/ (~native /\ key \notin checked'))

(* Mutant of MustFlush: tiles of any shape share a batch.                  *)
MustFlushFull == pending # <<>> /\ (Len(pending) = batch_size \/ next > Len(clip))

(* The tile at hand does not fit into the batch, which is full or of       *)
(* another shape, or it was the last one.                                  *)
MustFlush ==
  /\ pending # <<>>
  /\ \/ Len(pending) = batch_size
     \/ next > Len(clip)
     \/ next \in DOMAIN clip /\ clip[next] # clip[pending[1]]

Flush ==
  /\ clip # <<>> /\ MustFlush
  /\ DecodeBatch(pending, pending)
  /\ pending' = <<>>
  /\ UNCHANGED <<batch_size, compile_decoder, clip, next, clips, resets>>

(* A comparison that fails raises; the request fails, and its worker ends. *)
CheckFails ==
  LET key == <<clip[pending[1]], Len(pending), compile_decoder>> IN
  /\ clip # <<>> /\ MustFlush
  /\ Len(pending) > 1 \/ compile_decoder
  /\ key \notin DOMAIN signatures
  /\ clip' = <<>> /\ next' = 1 /\ pending' = <<>> /\ rows' = <<>>
  /\ batch_size' = 1 /\ compile_decoder' = FALSE
  /\ signatures' = NoSignatures /\ checked' = {} /\ unchecked' = FALSE
  /\ UNCHANGED <<clips, resets>>

AddTile ==
  /\ next \in DOMAIN clip /\ ~MustFlush
  /\ pending' = Append(pending, next)
  /\ next' = next + 1
  /\ UNCHANGED <<batch_size, compile_decoder, clip, rows, signatures, checked, unchecked, clips, resets>>

Decoded == clip # <<>> /\ next > Len(clip) /\ pending = <<>>

(* The outputs are stitched.                                               *)
Stitch ==
  /\ Decoded
  /\ clip' = <<>>
  /\ UNCHANGED <<batch_size, compile_decoder, next, pending, rows, signatures, checked, unchecked,
                 clips, resets>>

VaeBatchNext ==
  \/ \E size \in BatchSizes, compile \in BOOLEAN, c \in Clips : Configure(size, compile, c)
  \/ ResetCompiler \/ AddTile \/ Flush \/ CheckFails \/ Stitch

VaeBatchSpec == VaeBatchInit /\ [][VaeBatchNext]_vbvars

-----------------------------------------------------------------------------
VaeBatchTypeOK ==
  /\ batch_size \in BatchSizes \union {1} /\ compile_decoder \in BOOLEAN
  /\ clip \in Clips \union {<<>>}
  /\ Range(pending) \subseteq DOMAIN clip
  /\ DOMAIN signatures \subseteq Signatures /\ Cardinality(DOMAIN signatures) <= MaxVerified
  /\ checked \subseteq Signatures

(* A batch has no more tiles than asked for, all of one shape, and when a  *)
(* clip is stitched every place has the output of its own tile.            *)
TilesInPlace ==
  /\ Len(pending) <= batch_size
  /\ \A j \in DOMAIN pending, k \in DOMAIN pending : clip[pending[j]] = clip[pending[k]]
  /\ Decoded => \A k \in DOMAIN clip : rows[k] = k

(* No batch is used whose arithmetic was not compared since it was         *)
(* compiled, however many signatures came and went meanwhile.              *)
OnlyCheckedBatches == ~unchecked
=============================================================================
