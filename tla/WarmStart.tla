----------------------------- MODULE WarmStart ------------------------------
(***************************************************************************)
(* What a worker group knows and keeps from one request, and one start, to *)
(* the next: conditioning caches on disk (resident_worker.py, run), the    *)
(* bounded set of compiled geometries (resident_geometry.py) and the       *)
(* history that a start replays (warmup_history.py, compile_cache.py).     *)
(* A request is its prompt file, its render plan and its attention         *)
(* options; one step stands for the eight of a sample.                     *)
(***************************************************************************)
EXTENDS Integers, Sequences, FiniteSets, SequencesExt

CONSTANTS
  Ranks, Main,
  Wanted,       \* requests that users may send
  Base,         \* the request of the base warm-up
  Durations,    \* its variants of other durations, a sequence
  Bucket,       \* prompt -> size of its padded prefix
  MaxShapes,    \* REF2VA_COMPILE_SHAPES
  MaxStarts, MaxServed, MaxLost   \* bounds of the model

Prompts == DOMAIN Bucket
Requests == Wanted \union {Base} \union Range(Durations)

ASSUME WarmStartAssumption ==
  /\ IsFiniteSet(Ranks) /\ Main \in Ranks
  /\ {MaxShapes, MaxStarts, MaxServed, MaxLost} \subseteq Nat
  /\ Durations \in Seq(Requests) /\ MaxShapes > Len(Durations)
  /\ \A q \in Requests : DOMAIN q = {"prompt", "plan", "options"} /\ q.prompt \in Prompts

VARIABLES
  recent, verify,   \* REF2VA_WARMUP_RECENT, REF2VA_WARMUP_VERIFY
  file,         \* of each prompt: none, partial or whole
  history,      \* WarmupHistory.entries, oldest first
  jobs,         \* completed results of jobs, oldest first
  todo,         \* runs to come, the one at work first
  at,           \* where each rank is in run()
  hit,          \* cache_hit of each rank
  shapes,       \* GeometryCache.shapes
  compiled,     \* shapes whose graphs Dynamo holds
  phase,        \* of the group: down, starting, ready
  starts, lost,
  served, cut   \* ghosts: what users have got, a start did not get ready

wvars == <<recent, verify, file, history, jobs, todo, at, hit, shapes, compiled, phase,
           starts, lost, served, cut>>

(* The geometry a request is compiled for, and what requests() tells       *)
(* entries apart by: the prompt file and the plan, not the options.        *)
ShapeOf(q) == <<Bucket[q.prompt], q.plan, q.options>>
Identity(q) == <<q.prompt, q.plan>>
Item(q, mode, cached) == [req |-> q, mode |-> mode, cached |-> cached]   \* require_cached_prompt
Current == Head(todo).req
Mode == Head(todo).mode

(* Mutant of RecentChoices: the base warm-up's own shape is forgotten.     *)
RecentChoicesAll == 0 .. (MaxShapes - Len(Durations))

(* Accepted values of REF2VA_WARMUP_RECENT.                                *)
RecentChoices == 0 .. (MaxShapes - 1 - Len(Durations))

AtAll(where) == [r \in Ranks |-> where]

Init ==
  /\ recent \in RecentChoices /\ verify \in BOOLEAN
  /\ file = [p \in Prompts |-> "none"]
  /\ history = <<>> /\ jobs = <<>> /\ todo = <<>>
  /\ at = AtAll("gone") /\ hit = [r \in Ranks |-> FALSE]
  /\ shapes = {} /\ compiled = {}
  /\ phase = "down"
  /\ starts = 0 /\ lost = 0 /\ served = <<>> /\ cut = FALSE

(* The newest n of a sequence.                                             *)
Newest(s, n) == SubSeq(s, Len(s) - (IF Len(s) < n THEN Len(s) ELSE n) + 1, Len(s))

(* A candidate of requests(): it must be compatible, and new.              *)
Taken(chosen, q, limit) ==
  IF \/ Len(chosen) >= limit \/ file[q.prompt] = "none"
     \/ Identity(q) \in {Identity(chosen[k]) : k \in DOMAIN chosen}
    THEN chosen ELSE <<q>> \o chosen

(* Mutant of Select: the oldest entries are replayed.                      *)
SelectOldest(candidates, limit) ==
  LET Chosen[n \in 0 .. Len(candidates)] ==
        IF n = 0 THEN <<>> ELSE Taken(Chosen[n - 1], candidates[n], limit)
  IN Chosen[Len(candidates)]

(* requests(): the newest compatible entries, one for each identity,       *)
(* oldest first; Chosen[n] are those of the newest n candidates.           *)
Select(candidates, limit) ==
  LET Chosen[n \in 0 .. Len(candidates)] ==
        IF n = 0 THEN <<>> ELSE Taken(Chosen[n - 1], candidates[Len(candidates) - n + 1], limit)
  IN Chosen[Len(candidates)]

Start ==
  /\ phase = "down" /\ starts < MaxStarts
  /\ phase' = "starting" /\ starts' = starts + 1
  /\ at' = AtAll("idle")
  /\ history' = Newest(history, MaxShapes)
  /\ todo' = <<Item(Base, "base", FALSE)>>
  /\ UNCHANGED <<recent, verify, file, jobs, hit, shapes, compiled, lost, served, cut>>

Down ==
  /\ phase' = "down"
  /\ at' = AtAll("gone") /\ hit' = [r \in Ranks |-> FALSE]
  /\ todo' = <<>> /\ shapes' = {} /\ compiled' = {}
  /\ cut' = (cut \/ phase = "starting")
  /\ UNCHANGED <<recent, verify, file, history, jobs, starts, lost, served>>

(* The group dies or is stopped, or a verification that had to compile     *)
(* makes its start fail; what is in its memory is lost.                    *)
Crash == phase # "down" /\ Down

(* Somebody removes a conditioning cache.                                  *)
Lose(p) ==
  /\ file[p] # "none" /\ lost < MaxLost
  /\ file' = [file EXCEPT ![p] = "none"]
  /\ lost' = lost + 1
  /\ UNCHANGED <<recent, verify, history, jobs, todo, at, hit, shapes, compiled, phase,
                 starts, served, cut>>

Move(to) == at' = to /\ UNCHANGED <<recent, verify, jobs, todo, phase, starts, lost, served>>

(* Every rank looks for the cache; a replay without it is an error.        *)
Check(r) ==
  /\ at[r] = "idle" /\ todo # <<>>
  /\ IF Head(todo).cached /\ file[Current.prompt] = "none"
       THEN Down
       ELSE /\ hit' = [hit EXCEPT ![r] = file[Current.prompt] # "none"]
            /\ Move([at EXCEPT ![r] = "checked"])
            /\ UNCHANGED <<file, history, shapes, compiled, cut>>

(* The barrier before encoding.                                            *)
Meet ==
  /\ at = AtAll("checked")
  /\ Move([r \in Ranks |-> IF r = Main THEN "encode" ELSE "wait"])
  /\ UNCHANGED <<hit, file, history, shapes, compiled, cut>>

(* Mutant of Encode: the conditioner writes to the cache file itself.      *)
EncodeInPlace ==
  /\ at[Main] = "encode" /\ ~hit[Main]
  /\ file' = [file EXCEPT ![Current.prompt] = "partial"]
  /\ Move([at EXCEPT ![Main] = "encoding"])
  /\ UNCHANGED <<hit, history, shapes, compiled, cut>>

(* The main rank encodes the prompt into a temporary file.                 *)
Encode ==
  /\ at[Main] = "encode" /\ ~hit[Main]
  /\ Move([at EXCEPT ![Main] = "encoding"])
  /\ UNCHANGED <<hit, file, history, shapes, compiled, cut>>

(* It replaces the cache file, or has found one; the second barrier.       *)
Publish ==
  /\ at[Main] \in {"encode", "encoding"} /\ (at[Main] = "encode" => hit[Main])
  /\ file' = IF hit[Main] THEN file ELSE [file EXCEPT ![Current.prompt] = "whole"]
  /\ Move(AtAll("load"))
  /\ UNCHANGED <<hit, history, shapes, compiled, cut>>

(* load_conditioning(): an unreadable cache is an error.                   *)
Load(r) ==
  /\ at[r] = "load"
  /\ IF file[Current.prompt] # "whole"
       THEN Down
       ELSE /\ Move([at EXCEPT ![r] = "denoise"])
            /\ UNCHANGED <<hit, file, history, shapes, compiled, cut>>

(* Mutant of Rotates: one geometry too many.                               *)
RotatesLate(shape) == shape \notin shapes /\ Cardinality(shapes) > MaxShapes

(* prepare(): a new geometry beyond the capacity resets the compiler.      *)
Rotates(shape) == shape \notin shapes /\ Cardinality(shapes) >= MaxShapes

Denoise ==
  LET shape == ShapeOf(Current) IN
  /\ at = AtAll("denoise")
  /\ compiled' = (IF Rotates(shape) THEN {} ELSE compiled) \union {shape}
  /\ shapes' = IF Rotates(shape) THEN {} ELSE shapes
  /\ IF Mode = "verify" /\ shape \notin compiled
       THEN Move(AtAll("cold")) ELSE Move(AtAll("denoised"))
  /\ UNCHANGED <<hit, file, history, cut>>

(* Mutant of Remember: a known geometry keeps its place.                   *)
RememberPlace(entries, q) ==
  IF file[q.prompt] = "none" \/ ShapeOf(q) \in {ShapeOf(e) : e \in Range(entries)}
    THEN entries ELSE Newest(Append(entries, q), MaxShapes)

(* The entries, which are one for each geometry, without that of q.        *)
Without(entries, q) ==
  LET known == {k \in DOMAIN entries : ShapeOf(entries[k]) = ShapeOf(q)} IN
  IF known = {} THEN entries ELSE RemoveAt(entries, CHOOSE k \in known : TRUE)

(* remember(): the request becomes the newest entry of its geometry.       *)
Remember(entries, q) ==
  IF file[q.prompt] = "none" THEN entries
  ELSE Newest(Append(Without(entries, q), q), MaxShapes)

(* What the start runs after its base warm-up: its variants and the last   *)
(* requests, as replays and, when it verifies, once more.                  *)
Runs(s, mode, cached) == [k \in DOMAIN s |-> Item(s[k], mode, cached)]
Replays(last, mode) == Runs(Durations, mode, FALSE) \o Runs(last, mode, TRUE)
StartRuns ==
  LET last == Select(jobs \o history, recent) IN
  Replays(last, "replay")
    \o (IF verify THEN <<Item(Base, "verify", FALSE)>> \o Replays(last, "verify") ELSE <<>>)

(* commit(), the rest of the run and, for all but the base warm-up,        *)
(* remember(); a client may write down that its job is complete.           *)
Finish ==
  /\ at = AtAll("denoised")
  /\ shapes' = shapes \union {ShapeOf(Current)}
  /\ at' = AtAll("idle")
  /\ IF Mode = "base"
       THEN /\ todo' = StartRuns
            /\ UNCHANGED <<history, served>>
       ELSE /\ todo' = Tail(todo)
            /\ history' = Remember(history, Current)
            /\ served' = IF Mode = "serve" THEN Append(served, Current) ELSE served
  /\ jobs' \in {jobs} \union (IF Mode = "serve" THEN {Append(jobs, Current)} ELSE {})
  /\ UNCHANGED <<recent, verify, file, hit, compiled, phase, starts, lost, cut>>

Ready ==
  /\ phase = "starting" /\ at = AtAll("idle") /\ todo = <<>>
  /\ phase' = "ready"
  /\ UNCHANGED <<recent, verify, file, history, jobs, todo, at, hit, shapes, compiled, starts,
                 lost, served, cut>>

Serve(q) ==
  /\ phase = "ready" /\ at = AtAll("idle") /\ todo = <<>>
  /\ Len(served) < MaxServed
  /\ todo' = <<Item(q, "serve", FALSE)>>
  /\ UNCHANGED <<recent, verify, file, history, jobs, at, hit, shapes, compiled, phase, starts,
                 lost, served, cut>>

Next ==
  \/ Start \/ Crash \/ Meet \/ Encode \/ Publish \/ Denoise \/ Finish \/ Ready
  \/ \E r \in Ranks : Check(r) \/ Load(r)
  \/ \E p \in Prompts : Lose(p)
  \/ \E q \in Wanted : Serve(q)

Spec == Init /\ [][Next]_wvars

-----------------------------------------------------------------------------
(* No rank reads a conditioning cache that is not complete, even after a   *)
(* crash in the middle of an encoding; it is there unless it was removed.  *)
LoadsWhole ==
  \A r \in Ranks : at[r] = "load" =>
    \/ file[Current.prompt] = "whole"
    \/ file[Current.prompt] = "none" /\ lost > 0

(* The graphs compiled since the last reset stay within the budget the     *)
(* recompilation limit is made for, and every geometry that is reported as *)
(* seen is compiled.                                                       *)
GraphBudget == Cardinality(compiled) <= MaxShapes /\ shapes \subseteq compiled

(* Start-up never rotates geometries it has warmed itself: a verification  *)
(* finds all of them compiled.                                             *)
VerificationIsHot == at # AtAll("cold")

(* Entries of one identity have one geometry: requests() tells them apart  *)
(* without the attention options, which are a part of it.                  *)
OptionsDecided ==
  LET known == Range(served) \union Range(Durations) \union {Base} IN
  \A p, q \in known : Identity(p) = Identity(q) => p.options = q.options

(* When the service becomes ready, the last requests that succeeded are    *)
(* warm, as many as asked for, unless one of their caches was removed, an  *)
(* earlier start was cut short (what it had warmed by then is newest), or  *)
(* one prompt and plan was asked for with several attention options.       *)
RecentIsWarm ==
  /\ phase = "starting" /\ at = AtAll("idle") /\ todo = <<>>
  /\ lost = 0 /\ ~cut /\ OptionsDecided
  => \A k \in DOMAIN served :
       Cardinality({Identity(served[j]) : j \in k + 1 .. Len(served)}) < recent =>
         ShapeOf(served[k]) \in compiled
=============================================================================
