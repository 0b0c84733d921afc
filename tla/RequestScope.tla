---------------------------- MODULE RequestScope ----------------------------
(***************************************************************************)
(* What a worker rebinds for one request and puts back after it: the       *)
(* attention layout, K/V sampling, accelerated scans, the second stream    *)
(* and the profiler (dit_runtime.py, exact_runtime.py, linear_kv.py,       *)
(* linear_acceleration.py, dual_stream.py, fine_profile.py), entered in    *)
(* this order by resident_worker.py.  A method is the set of the layers it *)
(* was rewritten with; none is the method of the model itself.             *)
(***************************************************************************)
EXTENDS Naturals, Sequences, FiniteSets, SequencesExt

CONSTANTS
  Branches,     \* linear attention branches, one in each hybrid block
  Requests      \* bound of the model

Attrs == {"readout", "text", "feature"}
Rewritings == {"sampled", "accelerated", "profiled"}
Scopes == <<"dit", "exact", "linear_kv", "acceleration", "dual_stream", "fine">>
Checks == {"delta", "scans", "communication"}
Native == {}

(* Settings that validate(), for a service and for a request.              *)
Options ==
  {o \in [branch_ranks: BOOLEAN, dual_stream: BOOLEAN, sampling: BOOLEAN, fused_delta: BOOLEAN,
          boundary_scan: BOOLEAN, fast_communication: BOOLEAN, profile: BOOLEAN] :
     o.dual_stream => ~o.branch_ranks}

VARIABLES
  served,       \* requests begun
  opts, warmup, \* of the request
  phase,        \* idle, selecting, entering, denoising, leaving, dead
  open,         \* how many of Scopes are entered
  failed,       \* an exception is on its way out
  forward,      \* attn.forward
  methods,      \* of each branch and attribute
  softmax,      \* decomposed.window_softmax_decomposed
  saved,        \* what acceleration and fine put back, by scope
  active,       \* scopes whose active flag is set
  profiling,    \* runtime.profile_enabled
  flags,        \* fused_delta, boundary_scan of LinearAcceleration
  transport,    \* communication.active
  verified      \* checks that have passed on every rank

rvars == <<served, opts, warmup, phase, open, failed, forward, methods, softmax, saved, active,
           profiling, flags, transport, verified>>

(* The rewritten methods made at start-up, and what each may replace.      *)
SampledReadouts == {Native, {"sampled"}}
AcceleratedTexts == {Native}

(* Mutant of Profilable: only the methods of the model are rewritten.      *)
ProfilableNative(attr) == IF attr = "readout" THEN SampledReadouts ELSE {Native}

Profilable(attr) ==
  CASE attr = "readout" -> SampledReadouts \union {m \union {"accelerated"} : m \in SampledReadouts}
    [] attr = "text"    -> AcceleratedTexts \union {m \union {"accelerated"} : m \in AcceleratedTexts}
    [] attr = "feature" -> {Native}

Untouched == [b \in Branches |-> [a \in Attrs |-> Native]]

Init ==
  /\ served = 0
  /\ opts \in Options /\ warmup = TRUE
  /\ phase = "idle" /\ open = 0 /\ failed = FALSE
  /\ forward = IF opts.branch_ranks THEN "branch" ELSE "ulysses"
  /\ methods = Untouched /\ softmax = Native
  /\ saved = [s \in {"acceleration", "fine"} |-> Untouched]
  /\ active = {} /\ profiling = FALSE
  /\ flags = [fused_delta |-> opts.fused_delta, boundary_scan |-> opts.boundary_scan]
  /\ transport = FALSE
  /\ verified = {c \in Checks :
       \/ c = "delta" /\ opts.fused_delta
       \/ c = "scans" /\ opts.boundary_scan
       \/ c = "communication" /\ opts.fast_communication}

Begin(o, w) ==
  /\ phase = "idle" /\ served < Requests
  /\ served' = served + 1
  /\ opts' = o /\ warmup' = w
  /\ phase' = "selecting"
  /\ UNCHANGED <<open, failed, forward, methods, softmax, saved, active, profiling, flags,
                 transport, verified>>

(* Mutant of Needed: what start-up has checked is taken for all that runs. *)
NeededAtStart == {}

(* Checks that run before something is enabled for the first time.         *)
Needed ==
  {c \in Checks \ verified :
     \/ c = "delta" /\ opts.fused_delta
     \/ c = "scans" /\ opts.boundary_scan
     \/ c = "communication" /\ opts.fast_communication}

(* The selections of run(); a check that fails ends the worker.            *)
Select ==
  /\ phase = "selecting"
  /\ \/ /\ phase' = "entering"
        /\ flags' = [fused_delta |-> opts.fused_delta, boundary_scan |-> opts.boundary_scan]
        /\ verified' = verified \union Needed
        /\ transport' = opts.fast_communication
     \/ /\ Needed # {}
        /\ phase' = "dead"
        /\ UNCHANGED <<flags, verified, transport>>
  /\ UNCHANGED <<served, opts, warmup, open, failed, forward, methods, softmax, saved, active,
                 profiling>>

Entering(scope) == phase = "entering" /\ Scopes[open + 1] = scope

(* The scope is entered; after the last one the sampler runs.              *)
Entered ==
  /\ open' = open + 1
  /\ phase' = IF open' = Len(Scopes) THEN "denoising" ELSE "entering"
  /\ UNCHANGED failed

(* An exception while a scope is entered: those around it are left.        *)
Raise == phase' = "leaving" /\ failed' = TRUE /\ UNCHANGED open

Constant == UNCHANGED <<served, opts, warmup, flags, transport, verified>>

(* Mutant of EnterDit: a warm-up may be profiled.                          *)
EnterDitProfiled ==
  /\ Entering("dit")
  /\ forward' = IF opts.dual_stream THEN "dual" ELSE IF opts.branch_ranks THEN "branch" ELSE "ulysses"
  /\ profiling' = opts.profile
  /\ Entered /\ Constant
  /\ UNCHANGED <<methods, softmax, saved, active>>

(* request() of the block runtime: the layout, and whether to profile.     *)
EnterDit ==
  /\ Entering("dit")
  /\ forward' = IF opts.dual_stream THEN "dual" ELSE IF opts.branch_ranks THEN "branch" ELSE "ulysses"
  /\ profiling' = (opts.profile /\ ~warmup)
  /\ Entered /\ Constant
  /\ UNCHANGED <<methods, softmax, saved, active>>

EnterExact ==
  /\ Entering("exact") /\ "exact" \notin active
  /\ active' = active \union {"exact"}
  /\ Entered /\ Constant
  /\ UNCHANGED <<forward, methods, softmax, saved, profiling>>

(* Sampled statistics for a sampling request, and for one that counts.     *)
EnterLinear ==
  /\ Entering("linear_kv") /\ "linear_kv" \notin active
  /\ active' = active \union {"linear_kv"}
  /\ methods' = [b \in Branches |-> [methods[b] EXCEPT !.readout =
                   IF opts.sampling \/ profiling THEN {"sampled"} ELSE Native]]
  /\ Entered /\ Constant
  /\ UNCHANGED <<forward, softmax, saved, profiling>>

(* Mutant of Accelerated: the text state keeps its own factorization.      *)
AcceleratedReadoutOnly(m) == [m EXCEPT !.readout = @ \union {"accelerated"}]

(* The methods of a branch whose scans, or factors, are accelerated.       *)
Accelerated(m) ==
  [m EXCEPT !.readout = @ \union {"accelerated"},
            !.text = IF flags.fused_delta THEN @ \union {"accelerated"} ELSE @]

EnterAcceleration ==
  /\ Entering("acceleration") /\ "acceleration" \notin active
  /\ saved' = [saved EXCEPT !["acceleration"] = methods]
  /\ IF ~(flags.fused_delta \/ flags.boundary_scan)
       THEN Entered /\ active' = active \union {"acceleration"} /\ UNCHANGED methods
     ELSE IF \A b \in Branches : /\ methods[b].readout \in SampledReadouts
                                 /\ flags.fused_delta => methods[b].text \in AcceleratedTexts
       THEN /\ Entered /\ active' = active \union {"acceleration"}
            /\ methods' = [b \in Branches |-> Accelerated(methods[b])]
       ELSE Raise /\ UNCHANGED <<active, methods>>
  /\ Constant
  /\ UNCHANGED <<forward, softmax, profiling>>

(* The second stream may not be there yet, and its creation may fail.      *)
EnterDual ==
  /\ Entering("dual_stream") /\ "dual_stream" \notin active
  /\ active' = IF opts.dual_stream THEN active \union {"dual_stream"} ELSE active
  /\ Entered \/ (opts.dual_stream /\ Raise)
  /\ Constant
  /\ UNCHANGED <<forward, methods, softmax, saved, profiling>>

(* Everything has a profiled form; the device trace may fail to start.     *)
EnterFine ==
  /\ Entering("fine") /\ "fine" \notin active
  /\ IF ~profiling
       THEN Entered /\ UNCHANGED <<methods, softmax, saved, active>>
     ELSE IF \A b \in Branches, a \in Attrs : methods[b][a] \in Profilable(a)
       THEN \/ /\ Entered /\ active' = active \union {"fine"}
               /\ saved' = [saved EXCEPT !["fine"] = methods]
               /\ methods' = [b \in Branches |-> [a \in Attrs |-> methods[b][a] \union {"profiled"}]]
               /\ softmax' = {"profiled"}
            \/ Raise /\ UNCHANGED <<methods, softmax, saved, active>>
       ELSE Raise /\ UNCHANGED <<methods, softmax, saved, active>>
  /\ Constant
  /\ UNCHANGED <<forward, profiling>>

(* The sampler returns, or something in it fails.                          *)
Denoise ==
  /\ phase = "denoising"
  /\ phase' = "leaving"
  /\ failed' \in BOOLEAN
  /\ UNCHANGED <<served, opts, warmup, open, forward, methods, softmax, saved, active, profiling,
                 flags, transport, verified>>

(* Mutant of Restored: what acceleration has replaced is left in place.    *)
RestoredLinearOnly(scope) ==
  CASE scope = "linear_kv"    -> [b \in Branches |-> [methods[b] EXCEPT !.readout = Native]]
    [] scope = "acceleration" -> methods
    [] scope = "fine"         -> IF profiling THEN saved.fine ELSE methods
    [] OTHER                  -> methods

(* What the finally clause of a scope puts back.                           *)
Restored(scope) ==
  CASE scope = "linear_kv"    -> [b \in Branches |-> [methods[b] EXCEPT !.readout = Native]]
    [] scope = "acceleration" -> saved.acceleration
    [] scope = "fine"         -> IF profiling THEN saved.fine ELSE methods
    [] OTHER                  -> methods

(* The innermost scope is left; after a failure the worker ends.           *)
Leave ==
  LET scope == Scopes[open] IN
  /\ phase = "leaving" /\ open > 0
  /\ open' = open - 1
  /\ methods' = Restored(scope)
  /\ softmax' = IF scope = "fine" THEN Native ELSE softmax
  /\ profiling' = (profiling /\ scope # "dit")
  /\ active' = active \ {scope}
  /\ phase' = IF open' > 0 THEN "leaving" ELSE IF failed THEN "dead" ELSE "idle"
  /\ Constant
  /\ UNCHANGED <<failed, forward, saved>>

Next ==
  \/ \E o \in Options, w \in BOOLEAN : Begin(o, w)
  \/ Select
  \/ EnterDit \/ EnterExact \/ EnterLinear \/ EnterAcceleration \/ EnterDual \/ EnterFine
  \/ Denoise \/ Leave

Spec == Init /\ [][Next]_rvars

-----------------------------------------------------------------------------
(* What a branch computes when its readout and its text state are called:  *)
(* statistics() keeps every token at full ratio; scans() and factor() look *)
(* at the flags of LinearAcceleration.                                     *)
Computed(b) ==
  LET accelerated == "accelerated" \in methods[b].readout IN
  [sampling      |-> "sampled" \in methods[b].readout /\ opts.sampling,
   boundary_scan |-> accelerated /\ flags.boundary_scan,
   fused_scan    |-> accelerated /\ flags.fused_delta,
   fused_text    |-> "accelerated" \in methods[b].text /\ flags.fused_delta]

TypeOK ==
  /\ served \in Nat /\ opts \in Options /\ warmup \in BOOLEAN
  /\ phase \in {"idle", "selecting", "entering", "denoising", "leaving", "dead"}
  /\ open \in 0 .. Len(Scopes) /\ failed \in BOOLEAN
  /\ forward \in {"ulysses", "branch", "dual"}
  /\ methods \in [Branches -> [Attrs -> SUBSET Rewritings]] /\ softmax \subseteq Rewritings
  /\ saved \in [{"acceleration", "fine"} -> [Branches -> [Attrs -> SUBSET Rewritings]]]
  /\ active \subseteq Range(Scopes) /\ profiling \in BOOLEAN
  /\ flags \in [fused_delta: BOOLEAN, boundary_scan: BOOLEAN]
  /\ transport \in BOOLEAN /\ verified \subseteq Checks

(* A request computes exactly what it asks for, profiled or not, whatever  *)
(* the requests before it have asked for.                                  *)
ComputesAsAsked ==
  phase = "denoising" =>
    /\ \A b \in Branches : Computed(b) =
         [sampling |-> opts.sampling, boundary_scan |-> opts.boundary_scan,
          fused_scan |-> opts.fused_delta, fused_text |-> opts.fused_delta]
    /\ forward = IF opts.dual_stream THEN "dual" ELSE IF opts.branch_ranks THEN "branch" ELSE "ulysses"

(* Profiling and warm-up: a request that profiles has every method it      *)
(* times, no other request has one.                                        *)
ProfiledIffAsked ==
  phase = "denoising" =>
    \A b \in Branches, a \in Attrs : "profiled" \in methods[b][a] <=> opts.profile /\ ~warmup

(* After a request, successful or not, the methods are those of the model  *)
(* and nothing is profiled (README.md, K/V sampling).                      *)
NativeAfterwards ==
  phase \in {"idle", "dead"} => methods = Untouched /\ softmax = Native /\ ~profiling

(* No combination of options asks for a method that was not made.          *)
EveryMethodIsKnown ==
  /\ Entering("acceleration") /\ flags.fused_delta =>
       \A b \in Branches : methods[b].text \in AcceleratedTexts
  /\ Entering("acceleration") => \A b \in Branches : methods[b].readout \in SampledReadouts
  /\ Entering("fine") /\ profiling =>
       \A b \in Branches, a \in Attrs : methods[b][a] \in Profilable(a)

(* Nothing that replaces a computation runs before its check has passed.   *)
VerifiedBeforeUse ==
  phase = "denoising" =>
    /\ flags.fused_delta => "delta" \in verified
    /\ flags.boundary_scan => "scans" \in verified
    /\ transport => "communication" \in verified
=============================================================================
