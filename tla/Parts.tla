-------------------------------- MODULE Parts -------------------------------
(***************************************************************************)
(* Seven parts of a worker that share no state: what they do in one        *)
(* request is checked here together.  `part` says which one moves; the     *)
(* others stay where they begin.                                           *)
(***************************************************************************)
EXTENDS Integers, Sequences

CONSTANTS
  Ranks, Blocks, Steps, Requests, Candidates, Shares,   \* DBCache
  Branches,                                             \* RequestScope, and Requests
  Layers, MaxChunks,                                    \* Streams
  Clips, BatchSizes, MaxVerified, MaxClips, MaxResets,  \* VaeBatch
  MaxFrames, Chunks,                                    \* BoundaryScan
  Inputs,                                               \* Layouts
  Names, Addresses, Contents, MaxVersion, MaxRequests   \* ExactRuntime

ASSUME CacheAssumption == Blocks \in Nat /\ Steps \in Nat /\ Requests \in Nat

(* A model has layers, and a video has chunks.                             *)
ASSUME StreamsAssumption == Layers \in Nat /\ MaxChunks \in Nat

(* run_boundary_scans() refuses other chunks.                              *)
ASSUME ScanAssumption == MaxFrames \in Nat /\ Chunks \subseteq Nat \ {0, 1}

(* A video has frames, and they have tokens; heads go to one rank or more; *)
(* neighbouring tiles overlap, by no more than their lengths.              *)
ASSUME LayoutAssumption ==
  \A s \in Inputs :
    /\ s.kind \in {"bucket", "mask"} =>
         /\ {s.text, s.references, s.audio, s.stride} \subseteq Nat
         /\ {s.frames, s.tokens} \subseteq Nat \ {0}
    /\ s.kind = "query" => s.video_start \in Nat /\ {s.frames, s.tokens} \subseteq Nat \ {0}
    /\ s.kind = "video" => {s.start, s.end, s.video_start, s.video_end} \subseteq Int
    /\ s.kind = "sample" => {s.tokens, s.stride} \subseteq Nat \ {0}
    /\ s.kind = "pack" =>
         /\ {s.rows, s.heads, s.dim, s.shared} \subseteq Nat /\ s.parts \in Nat \ {0}
    /\ s.kind = "unpack" =>
         /\ {s.rows, s.heads, s.dim} \subseteq Nat
         /\ {s.parts, s.linear_parts} \subseteq Nat \ {0}
    /\ s.kind = "tiles" =>
         /\ s.lengths \in Seq(Nat) /\ s.overlaps \in Seq(Nat \ {0})
         /\ Len(s.lengths) = Len(s.overlaps) + 1
         /\ \A j \in 1 .. Len(s.overlaps) :
              s.overlaps[j] <= s.lengths[j] /\ s.overlaps[j] <= s.lengths[j + 1]

VARIABLES
  part,
  request, config, pc, step, consecutive, records, previous, finite, share,
  stats, executed, trace,
  served, opts, warmup, phase, open, failed, forward, methods, softmax, saved,
  active, profiling, flags, transport, verified,
  program, issued, frontier, waiting, running, done, version_in,
  batch_size, compile_decoder, clip, next, pending, rows, signatures, checked,
  unchecked, clips, resets,
  frames, chunk, offset, text, turn, state, boundary,
  input, output,
  in_request, values, bound, content, version, autocast, answer, requests

cacheVars  == <<request, config, pc, step, consecutive, records, previous,
                finite, share, stats, executed, trace>>
scopeVars  == <<served, opts, warmup, phase, open, failed, forward, methods,
                softmax, saved, active, profiling, flags, transport,
                verified>>
cudaVars   == <<program, issued, frontier, waiting, running, done,
                version_in>>
vaeVars    == <<batch_size, compile_decoder, clip, next, pending, rows,
                signatures, checked, unchecked, clips, resets>>
scanVars   == <<frames, chunk, offset, text, turn, state, boundary>>
layoutVars == <<input, output>>
exactVars  == <<in_request, values, bound, content, version, autocast,
                answer, requests>>

Cache  == INSTANCE DBCache
Scope  == INSTANCE RequestScope
Cuda   == INSTANCE Streams
Vae    == INSTANCE VaeBatch
Scan   == INSTANCE BoundaryScan
Layout == INSTANCE Layouts
Exact  == INSTANCE ExactRuntime

ASSUME VaeBatchAssumption ==
  /\ BatchSizes \subseteq Nat \ {0} /\ MaxVerified \in Nat \ {0}
  /\ Clips \subseteq Seq(Vae!Tiles) \ {<<>>}

pvars == <<part, cacheVars, scopeVars, cudaVars, vaeVars, scanVars, layoutVars, exactVars>>

(* What a part may begin with; those that do not move begin with one of it.*)
Choice(p, S) == IF part = p THEN S ELSE {CHOOSE s \in S : TRUE}

Init ==
  /\ part \in {"cache", "scope", "streams", "vae", "scan", "layout", "exact"}
  /\ config \in Choice("cache", Cache!Configs)
  /\ opts \in Choice("scope", Scope!Options)
  /\ program \in Choice("streams", Cuda!Programs)
  /\ frames \in Choice("scan", 1 .. MaxFrames) /\ chunk \in Choice("scan", Chunks)
  /\ offset \in Choice("scan", {0, 1}) /\ text \in Choice("scan", BOOLEAN)
  /\ input \in Choice("layout", Inputs)
  /\ Cache!Init /\ Scope!Init /\ Cuda!Init /\ Vae!VaeBatchInit
  /\ Scan!BoundaryInit /\ Layout!LayoutsInit /\ Exact!ExactInit

CacheMoves ==
  /\ part = "cache" /\ Cache!Next
  /\ UNCHANGED <<part, scopeVars, cudaVars, vaeVars, scanVars, layoutVars,
                 exactVars>>

ScopeMoves ==
  /\ part = "scope" /\ Scope!Next
  /\ UNCHANGED <<part, cacheVars, cudaVars, vaeVars, scanVars, layoutVars,
                 exactVars>>

CudaMoves ==
  /\ part = "streams" /\ Cuda!Next
  /\ UNCHANGED <<part, cacheVars, scopeVars, vaeVars, scanVars, layoutVars,
                 exactVars>>

VaeMoves ==
  /\ part = "vae" /\ Vae!VaeBatchNext
  /\ UNCHANGED <<part, cacheVars, scopeVars, cudaVars, scanVars, layoutVars,
                 exactVars>>

ScanMoves ==
  /\ part = "scan" /\ Scan!BoundaryNext
  /\ UNCHANGED <<part, cacheVars, scopeVars, cudaVars, vaeVars, layoutVars,
                 exactVars>>

LayoutMoves ==
  /\ part = "layout" /\ Layout!LayoutsNext
  /\ UNCHANGED <<part, cacheVars, scopeVars, cudaVars, vaeVars, scanVars,
                 exactVars>>

ExactMoves ==
  /\ part = "exact" /\ Exact!ExactNext
  /\ UNCHANGED <<part, cacheVars, scopeVars, cudaVars, vaeVars, scanVars,
                 layoutVars>>

Next ==
  \/ CacheMoves \/ ScopeMoves \/ CudaMoves \/ VaeMoves
  \/ ScanMoves \/ LayoutMoves \/ ExactMoves

Spec == Init /\ [][Next]_pvars /\ WF_pvars(CacheMoves) /\ WF_pvars(CudaMoves)

-----------------------------------------------------------------------------
(* Cached DiT blocks are replaced soundly: all ranks run the same parts    *)
(* with collectives, a reused residual is of this request and recent, no   *)
(* mandatory step is skipped, and no block runs twice or not at all.       *)
ReuseIsSound ==
  part = "cache" =>
    /\ Cache!TypeOK /\ Cache!CollectivesMatch /\ Cache!ResidualIsFresh
    /\ Cache!MandatorySteps /\ Cache!SkippedBlocks

(* A request computes what its options ask for, is profiled if it asks for *)
(* that, finds each method it needs, and runs nothing unchecked.           *)
ServesAsAsked ==
  part = "scope" =>
    /\ Scope!TypeOK /\ Scope!ComputesAsAsked /\ Scope!ProfiledIffAsked
    /\ Scope!EveryMethodIsKnown /\ Scope!VerifiedBeforeUse

(* Nothing a request has rebound outlives it.                              *)
NativeAfterwards == Scope!NativeAfterwards

(* So requests with different options do not disturb each other.           *)
RequestsAreApart == ServesAsAsked /\ NativeAfterwards

(* On CUDA streams nothing is read while, or before, it is written.        *)
RaceFree == part = "streams" => Cuda!TypeOK /\ Cuda!RaceFree

(* Batches of VAE tiles are compared before they are used, and each place  *)
(* has the output of its own tile.                                         *)
BatchesAreSound == Vae!VaeBatchTypeOK /\ Vae!TilesInPlace /\ Vae!OnlyCheckedBatches

(* The rows of a fast layout, the masks and the slices that stand for      *)
(* masks are those of the plain ones.                                      *)
RowsAsReference == part = "layout" => Layout!RowsAsReference

(* What is packed, unpacked and stitched is put where the plain code puts  *)
(* it.                                                                     *)
CopiesAsReference == part = "layout" => Layout!CopiesAsReference

(* Composed chunk by chunk, the states of the linear attention are those   *)
(* of the scans frame by frame, wherever a window takes them.              *)
ScansAsNative == part = "scan" => Scan!ScansAsNative

(* What is computed the fast way is what the plain code computes.          *)
AsReference == RowsAsReference /\ ScansAsNative

(* A constant taken from the cache is the one its tensor gives now.        *)
ConstantsAreCurrent == Exact!ConstantsAreCurrent

(* Every cached request, and every program of streams, comes to its end.   *)
PartEnds ==
  /\ Cache!RequestEnds
  /\ part = "streams" ~> (issued = Len(program) /\ waiting = {} /\ running = {})
=============================================================================
