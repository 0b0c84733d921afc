--------------------------- MODULE WarmStartProofs ---------------------------
(***************************************************************************)
(* For any number of ranks, requests, starts and crashes: the graphs that  *)
(* are compiled stay within the number of geometries that are asked for,   *)
(* a start never compiles what it verifies, what users asked for last is   *)
(* warm when a start is ready, and what a rank loads is a complete         *)
(* conditioning cache.                                                     *)
(***************************************************************************)
EXTENDS WarmStart, FiniteSetTheorems, SequenceTheorems, WellFoundedInduction, TLAPS

(* The sampler has returned, and the geometry is not committed yet.        *)
Uncommitted == at \in {AtAll("denoised"), AtAll("cold")}

(* Graphs and committed geometries are the same, but for the one at work.  *)
BudgetInv ==
  /\ DOMAIN at = Ranks
  /\ at = [r \in Ranks |-> at[r]]
  /\ IsFiniteSet(shapes) /\ IsFiniteSet(compiled)
  /\ Cardinality(compiled) <= MaxShapes
  /\ Uncommitted => compiled = shapes \union {ShapeOf(Current)}
  /\ ~Uncommitted => compiled = shapes
  /\ phase = "down" => at = AtAll("gone")

USE DEF AtAll

LEMMA BudgetNat == MaxShapes \in Nat /\ MaxShapes >= 1
BY WarmStartAssumption

LEMMA InitBudget == Init => BudgetInv
<1> SUFFICES ASSUME Init
             PROVE  BudgetInv
  OBVIOUS
<1>1. IsFiniteSet({}) /\ Cardinality({}) = 0
  BY FS_EmptySet
<1>2. at[Main] = "gone"
  BY WarmStartAssumption DEF Init
<1> QED
  BY <1>1, <1>2, BudgetNat, WarmStartAssumption DEF Init, BudgetInv, Uncommitted

(* A step before the sampler, or outside of a run, compiles nothing.       *)
LEMMA QuietStep ==
  ASSUME BudgetInv, NEW r \in Ranks, at[r] \notin {"denoised", "cold"},
         at' = [q \in Ranks |-> at'[q]], phase' # "down", at'[r] \notin {"denoised", "cold"},
         UNCHANGED <<shapes, compiled>>
  PROVE  BudgetInv'
BY DEF BudgetInv, Uncommitted

LEMMA DownStep ==
  ASSUME Down
  PROVE  BudgetInv'
<1>1. IsFiniteSet({}) /\ Cardinality({}) = 0
  BY FS_EmptySet
<1>2. shapes' = {} /\ compiled' = {} /\ at' = [r \in Ranks |-> "gone"] /\ at'[Main] = "gone"
  BY WarmStartAssumption DEF Down
<1> QED
  BY <1>1, <1>2, BudgetNat, WarmStartAssumption DEF BudgetInv, Uncommitted

LEMMA DenoiseStep ==
  ASSUME BudgetInv, Denoise
  PROVE  BudgetInv'
<1> DEFINE shape == ShapeOf(Current)
           graphs == IF Rotates(shape) THEN {} ELSE compiled
           kept == IF Rotates(shape) THEN {} ELSE shapes
<1>1. at[Main] = "denoise" /\ compiled = shapes
  BY WarmStartAssumption DEF Denoise, BudgetInv, Uncommitted
<1>2. compiled' = graphs \union {shape} /\ shapes' = kept /\ graphs = kept /\ Current' = Current
  BY <1>1 DEF Denoise, Move, Current
<1>3. IsFiniteSet(graphs) /\ IsFiniteSet(kept)
  BY FS_EmptySet DEF BudgetInv
<1>4. IsFiniteSet(compiled') /\ Cardinality(compiled') <= MaxShapes
  <2>1. CASE shape \in graphs
    <3>1. compiled' = compiled
      BY <1>2, <2>1
    <3> QED
      BY <3>1 DEF BudgetInv
  <2>2. CASE shape \notin graphs
    <3>1. Cardinality(graphs) \in Nat /\ Cardinality(graphs) < MaxShapes
      BY <1>1, <1>3, <2>2, FS_EmptySet, FS_CardinalityType, BudgetNat DEF Rotates
    <3>2. IsFiniteSet(compiled') /\ Cardinality(compiled') = Cardinality(graphs) + 1
      BY <1>2, <1>3, <2>2, FS_AddElement
    <3> QED
      BY <3>1, <3>2, BudgetNat
  <2> QED
    BY <2>1, <2>2
<1>5. (at' = AtAll("denoised") \/ at' = AtAll("cold")) /\ phase' # "down"
  BY <1>1, WarmStartAssumption DEF Denoise, Move, BudgetInv
<1>6. ShapeOf(Current)' = shape
  BY <1>2 DEF ShapeOf
<1> QED
  BY <1>2, <1>3, <1>4, <1>5, <1>6 DEF BudgetInv, Uncommitted

LEMMA FinishStep ==
  ASSUME BudgetInv, Finish
  PROVE  BudgetInv'
<1>1. /\ shapes' = shapes \union {ShapeOf(Current)} /\ compiled' = compiled
      /\ compiled = shapes \union {ShapeOf(Current)}
      /\ at' = [r \in Ranks |-> "idle"] /\ at'[Main] = "idle" /\ phase' # "down"
  BY WarmStartAssumption DEF Finish, BudgetInv, Uncommitted
<1> QED
  BY <1>1, WarmStartAssumption DEF BudgetInv, Uncommitted

LEMMA BudgetStep ==
  ASSUME BudgetInv, [Next]_wvars
  PROVE  BudgetInv'
<1> Main \in Ranks
  BY WarmStartAssumption
<1>1. CASE Start
  <2>1. /\ at' = [r \in Ranks |-> "idle"] /\ phase' # "down" /\ UNCHANGED <<shapes, compiled>>
        /\ at[Main] = "gone"
    BY <1>1 DEF Start, BudgetInv
  <2> QED
    BY <2>1, QuietStep
<1>2. CASE Crash
  BY <1>2, DownStep DEF Crash
<1>3. CASE Meet \/ Encode \/ Publish
  <2>1. /\ at[Main] \in {"checked", "encode", "encoding"} /\ phase # "down"
        /\ UNCHANGED <<phase, shapes, compiled>>
    BY <1>3 DEF Meet, Encode, Publish, Move, BudgetInv
  <2>2. at'[Main] \notin {"denoised", "cold"} /\ at' = [q \in Ranks |-> at'[q]]
    BY <1>3 DEF Meet, Encode, Publish, Move, BudgetInv
  <2> QED
    BY <2>1, <2>2, QuietStep
<1>4. CASE Denoise
  BY <1>4, DenoiseStep
<1>5. CASE Finish
  BY <1>5, FinishStep
<1>6. CASE Ready \/ \E q \in Wanted : Serve(q)
  <2>1. /\ at[Main] = "idle" /\ phase' # "down" /\ UNCHANGED <<at, shapes, compiled>>
    BY <1>6 DEF Ready, Serve
  <2> QED
    BY <2>1, QuietStep DEF BudgetInv
<1>7. ASSUME NEW r \in Ranks, Check(r) \/ Load(r)
      PROVE  BudgetInv'
  <2>1. CASE Down
    BY <2>1, DownStep
  <2>2. CASE ~Down
    <3>1. /\ at[r] \in {"idle", "load"} /\ phase # "down" /\ UNCHANGED <<phase, shapes, compiled>>
      BY <1>7, <2>2 DEF Check, Load, Move, BudgetInv
    <3>2. at'[r] \in {"checked", "denoise"} /\ at' = [q \in Ranks |-> at'[q]]
      BY <1>7, <2>2 DEF Check, Load, Move, BudgetInv
    <3> QED
      BY <3>1, <3>2, QuietStep
  <2> QED
    BY <2>1, <2>2
<1>8. CASE \E p \in Prompts : Lose(p)
  BY <1>8 DEF Lose, BudgetInv, Uncommitted, ShapeOf, Current
<1>9. CASE UNCHANGED wvars
  BY <1>9 DEF wvars, BudgetInv, Uncommitted, ShapeOf, Current
<1> QED
  BY <1>1, <1>2, <1>3, <1>4, <1>5, <1>6, <1>7, <1>8, <1>9 DEF Next

(* Whatever fails between a compilation and its commit, the recompilation  *)
(* limit, which is made for MaxShapes geometries, is kept.                 *)
THEOREM BudgetKept == Spec => []GraphBudget
<1>1. BudgetInv => GraphBudget
  BY DEF BudgetInv, GraphBudget
<1> QED
  BY InitBudget, BudgetStep, <1>1, PTL DEF Spec

-----------------------------------------------------------------------------
(* What requests() selects.  Chosen of Select is defined by recursion on   *)
(* the number of candidates; a set of numbers that holds 0, and with each  *)
(* of its members the next, is all of Nat.                                 *)

LEMMA ZeroAndNext ==
  ASSUME NEW T, 0 \in T, \A n \in Nat : n \in T => n + 1 \in T
  PROVE  \A n \in Nat : n \in T
<1> SUFFICES ASSUME NEW m \in Nat, m \notin T PROVE FALSE
  OBVIOUS
<1> DEFINE Left == {n \in Nat : n \notin T}
<1>1. PICK x \in Left : \A y \in Left : ~ (<<y, x>> \in OpToRel(<, Nat))
  <2> HIDE DEF Left
  <2>1. Left \subseteq Nat /\ Left # {}
    BY DEF Left
  <2> QED
    BY <2>1, NatLessThanWellFounded, WFMin
<1>2. x # 0 /\ x - 1 \in Nat /\ x - 1 < x
  OBVIOUS
<1>3. x - 1 \notin Left
  BY <1>1, <1>2 DEF OpToRel
<1>4. x - 1 \in T /\ (x - 1) + 1 = x
  BY <1>2, <1>3
<1> QED
  BY <1>2, <1>4

(* A function on 0 .. n that has a first value and follows a step, and one *)
(* more value of it.                                                       *)
Follows(f, first, Step, n, V) ==
  /\ f \in [0 .. n -> V]
  /\ f[0] = first
  /\ \A k \in 1 .. n : f[k] = Step[<<k, f[k - 1]>>]

LEMMA FollowsOn ==
  ASSUME NEW V, NEW first \in V, NEW n \in Nat, NEW Step \in [(1 .. n) \X V -> V],
         NEW m \in Nat, m + 1 <= n, NEW f, Follows(f, first, Step, m, V)
  PROVE  \E g : Follows(g, first, Step, m + 1, V)
<1> DEFINE v == Step[<<m + 1, f[m]>>]
<1>1. f[m] \in V /\ m + 1 \in 1 .. n
  BY DEF Follows
<1>2. v \in V
  BY <1>1
<1> DEFINE g == [k \in 0 .. m + 1 |-> IF k = m + 1 THEN v ELSE f[k]]
<1> HIDE DEF v
<1>3. g \in [0 .. m + 1 -> V] /\ g[m + 1] = v /\ \A k \in 0 .. m : g[k] = f[k]
  BY <1>2 DEF Follows
<1> HIDE DEF g
<1>4. ASSUME NEW k \in 1 .. m + 1 PROVE g[k] = Step[<<k, g[k - 1]>>]
  <2>1. CASE k = m + 1
    <3>1. k - 1 = m /\ g[k - 1] = f[m]
      BY <1>3, <2>1
    <3> QED
      BY <1>3, <2>1, <3>1 DEF v
  <2>2. CASE k \in 1 .. m
    <3>1. g[k] = f[k] /\ g[k - 1] = f[k - 1]
      BY <1>3, <2>2
    <3> QED
      BY <2>2, <3>1 DEF Follows
  <2> QED
    BY <2>1, <2>2
<1>5. g[0] = first
  BY <1>3 DEF Follows
<1>6. Follows(g, first, Step, m + 1, V)
  BY <1>3, <1>4, <1>5 DEF Follows
<1> QED
  BY <1>6

LEMMA RecursionExists ==
  ASSUME NEW V, NEW first \in V, NEW n \in Nat, NEW Step \in [(1 .. n) \X V -> V]
  PROVE  \E f : Follows(f, first, Step, n, V)
<1> DEFINE Defined(m) == \E f : Follows(f, first, Step, m, V)
           T == {m \in Nat : m <= n => Defined(m)}
<1>1. Defined(0)
  <2> DEFINE f == [k \in 0 .. 0 |-> first]
  <2>1. Follows(f, first, Step, 0, V)
    BY DEF Follows
  <2> QED
    BY <2>1
<1>2. ASSUME NEW m \in Nat, m + 1 <= n, Defined(m) PROVE Defined(m + 1)
  BY <1>2, FollowsOn
<1> HIDE DEF Defined
<1>3. 0 \in T /\ \A m \in Nat : m \in T => m + 1 \in T
  BY <1>1, <1>2
<1>4. n \in T
  <2> HIDE DEF T
  <2> QED
    BY <1>3, ZeroAndNext
<1> QED
  BY <1>4 DEF Defined

LEMMA TakenIs ==
  ASSUME NEW chosen \in Seq(Requests), NEW q \in Requests, NEW limit \in Nat
  PROVE  LET taken == Taken(chosen, q, limit) IN
         \/ /\ taken = chosen
            /\ \/ Len(chosen) >= limit \/ file[q.prompt] = "none"
               \/ \E k \in 1 .. Len(chosen) : Identity(chosen[k]) = Identity(q)
         \/ /\ Len(chosen) < limit
            /\ \A k \in 1 .. Len(chosen) : Identity(chosen[k]) # Identity(q)
            /\ taken \in Seq(Requests) /\ Len(taken) = Len(chosen) + 1 /\ taken[1] = q
            /\ \A k \in 1 .. Len(chosen) : taken[k + 1] = chosen[k]
<1> DEFINE more == <<q>> \o chosen
<1>1. Len(chosen) \in Nat /\ DOMAIN chosen = 1 .. Len(chosen)
  OBVIOUS
<1>2. /\ more \in Seq(Requests) /\ Len(more) = Len(chosen) + 1 /\ more[1] = q
      /\ \A k \in 1 .. Len(chosen) : more[k + 1] = chosen[k]
  <2>1. <<q>> \in Seq(Requests) /\ Len(<<q>>) = 1 /\ <<q>>[1] = q
    OBVIOUS
  <2>2. /\ more \in Seq(Requests) /\ Len(more) = 1 + Len(chosen)
        /\ \A i \in 1 .. 1 + Len(chosen) : more[i] = IF i <= 1 THEN <<q>>[i] ELSE chosen[i - 1]
    BY <2>1, ConcatProperties
  <2> HIDE DEF more
  <2> QED
    BY <1>1, <2>1, <2>2
<1> HIDE DEF more
<1>3. CASE \/ Len(chosen) >= limit \/ file[q.prompt] = "none"
           \/ Identity(q) \in {Identity(chosen[k]) : k \in DOMAIN chosen}
  <2>1. Taken(chosen, q, limit) = chosen
    BY <1>3 DEF Taken
  <2> QED
    BY <1>1, <1>3, <2>1
<1>4. CASE ~ (\/ Len(chosen) >= limit \/ file[q.prompt] = "none"
              \/ Identity(q) \in {Identity(chosen[k]) : k \in DOMAIN chosen})
  <2>1. Taken(chosen, q, limit) = more
    BY <1>4 DEF Taken, more
  <2> QED
    BY <1>1, <1>2, <1>4, <2>1
<1> QED
  BY <1>3, <1>4

(* The selection as it grows: chosen[k] is that of the newest k candidates.*)
Grows(chosen, candidates, limit) ==
  /\ chosen[0] = <<>>
  /\ \A k \in 0 .. Len(candidates) : chosen[k] \in Seq(Requests) /\ Len(chosen[k]) <= limit
  /\ \A k \in 1 .. Len(candidates) :
       chosen[k] = Taken(chosen[k - 1], candidates[Len(candidates) - k + 1], limit)

LEMMA SelectIs ==
  ASSUME NEW candidates \in Seq(Requests), NEW limit \in Nat
  PROVE  \E chosen : /\ Grows(chosen, candidates, limit)
                     /\ Select(candidates, limit) = chosen[Len(candidates)]
<1> DEFINE n == Len(candidates)
           V == {s \in Seq(Requests) : Len(s) <= limit}
           next(k, v) == Taken(v, candidates[n - k + 1], limit)
           Step == [p \in (1 .. n) \X V |-> next(p[1], p[2])]
           Body(g) == [k \in 0 .. n |-> IF k = 0 THEN <<>> ELSE next(k, g[k - 1])]
           Chosen == CHOOSE g : g = Body(g)
<1>1. n \in Nat /\ \A k \in 1 .. n : candidates[n - k + 1] \in Requests
  OBVIOUS
<1>2. ASSUME NEW k \in 1 .. n, NEW v \in V PROVE next(k, v) \in V
  BY <1>1, TakenIs
<1>3. <<>> \in V
  OBVIOUS
<1>4. Select(candidates, limit) = Chosen[n]
  BY DEF Select
<1> HIDE DEF V, n, next
<1>5. Step \in [(1 .. n) \X V -> V] /\ \A k \in 1 .. n, v \in V : Step[<<k, v>>] = next(k, v)
  BY <1>2
<1> HIDE DEF Step
<1>6. PICK f : Follows(f, <<>>, Step, n, V)
  BY <1>1, <1>3, <1>5, RecursionExists
<1>7. f = Body(f)
  <2>1. ASSUME NEW k \in 1 .. n PROVE f[k] = next(k, f[k - 1])
    <3>1. k - 1 \in 0 .. n
      BY <1>1
    <3>2. f[k - 1] \in V /\ f[k] = Step[<<k, f[k - 1]>>]
      BY <1>6, <3>1 DEF Follows
    <3> QED
      BY <1>5, <3>2
  <2> QED
    BY <1>1, <1>6, <2>1 DEF Follows
<1>8. Chosen = Body(Chosen)
  <2> HIDE DEF Body
  <2> QED
    BY <1>7
<1> HIDE DEF Chosen
<1>9. Chosen[0] = <<>> /\ \A k \in 1 .. n : Chosen[k] = next(k, Chosen[k - 1])
  BY <1>1, <1>8
<1> DEFINE T == {k \in Nat : k <= n => Chosen[k] \in V}
<1>10. 0 \in T
  BY <1>3, <1>9
<1>11. ASSUME NEW k \in Nat, k \in T PROVE k + 1 \in T
  <2>1. CASE k + 1 <= n
    <3>1. k + 1 \in 1 .. n /\ (k + 1) - 1 = k /\ Chosen[k] \in V
      BY <1>1, <1>11, <2>1
    <3>2. Chosen[k + 1] = next(k + 1, Chosen[k])
      BY <1>9, <3>1
    <3> QED
      BY <1>2, <3>1, <3>2
  <2> QED
    BY <2>1
<1>12. \A k \in Nat : k \in T
  <2> HIDE DEF T
  <2> QED
    BY <1>10, <1>11, ZeroAndNext
<1>13. \A k \in 0 .. n : Chosen[k] \in V
  BY <1>1, <1>12
<1>14. Grows(Chosen, candidates, limit)
  <2>1. \A k \in 0 .. n : Chosen[k] \in Seq(Requests) /\ Len(Chosen[k]) <= limit
    BY <1>13 DEF V
  <2> QED
    BY <1>9, <2>1 DEF Grows, n, next
<1>15. Select(candidates, limit) = Chosen[Len(candidates)]
  BY <1>4 DEF n
<1> QED
  BY <1>14, <1>15, Zenon

(* No more than the limit is selected, whatever the candidates.            *)
LEMMA Selected ==
  ASSUME NEW candidates \in Seq(Requests), NEW limit \in Nat
  PROVE  Select(candidates, limit) \in Seq(Requests) /\ Len(Select(candidates, limit)) <= limit
<1>1. PICK chosen : /\ Grows(chosen, candidates, limit)
                    /\ Select(candidates, limit) = chosen[Len(candidates)]
  BY SelectIs
<1>2. Len(candidates) \in 0 .. Len(candidates)
  OBVIOUS
<1> QED
  BY <1>1, <1>2 DEF Grows

-----------------------------------------------------------------------------
(* What the steps of a run rely on.  Here: the cache that is to be loaded  *)
(* is complete, unless one has been removed.                               *)
Items == [req : Requests, mode : {"base", "replay", "verify", "serve"}, cached : BOOLEAN]

Types ==
  /\ recent \in RecentChoices /\ verify \in BOOLEAN
  /\ file \in [Prompts -> {"none", "whole"}]
  /\ history \in Seq(Requests) /\ jobs \in Seq(Requests) /\ todo \in Seq(Items)
  /\ hit \in [Ranks -> BOOLEAN]
  /\ phase \in {"down", "starting", "ready"}
  /\ lost \in Nat

Here == file[Current.prompt] = "whole" \/ lost > 0

FileInv ==
  /\ (\E r \in Ranks : at[r] \notin {"gone", "idle"}) => todo # <<>>
  /\ at[Main] \in {"checked", "encode"} /\ hit[Main] => Here
  /\ at[Main] = "encoding" => ~hit[Main]
  /\ \A r \in Ranks : at[r] = "load" => Here

(* Geometries of the runs to come; those of the first n of them.           *)
ToDo == {ShapeOf(todo[k].req) : k \in DOMAIN todo}
Before(n) == {ShapeOf(todo[k].req) : k \in 1 .. n - 1}

(* What a start will have compiled stays within the budget, and what it    *)
(* verifies it compiles first.                                             *)
WarmInv ==
  /\ phase = "down" => todo = <<>> /\ compiled = {}
  /\ phase = "ready" => \A k \in DOMAIN todo : todo[k].mode = "serve"
  /\ phase = "starting" =>
       /\ Cardinality(compiled \union ToDo) <= MaxShapes
       /\ \A k \in DOMAIN todo : todo[k].mode = "verify" =>
            ShapeOf(todo[k].req) \in compiled \union Before(k)
       /\ (\E k \in DOMAIN todo : todo[k].mode = "base") =>
            todo = <<Item(Base, "base", FALSE)>> /\ compiled \subseteq {ShapeOf(Base)}
  /\ at # AtAll("cold")

LEMMA Constants ==
  /\ Main \in Ranks /\ Base \in Requests /\ Wanted \subseteq Requests
  /\ MaxShapes \in Nat /\ Durations \in Seq(Requests) /\ Len(Durations) \in Nat
  /\ \A q \in Requests : q.prompt \in Prompts
  /\ \A n \in RecentChoices : n \in Nat /\ n + Len(Durations) <= MaxShapes - 1
BY WarmStartAssumption DEF Requests, RecentChoices

LEMMA ItemType ==
  ASSUME NEW q \in Requests, NEW mode \in {"base", "replay", "verify", "serve"}, NEW cached \in BOOLEAN
  PROVE  /\ Item(q, mode, cached) \in Items
         /\ Item(q, mode, cached).req = q /\ Item(q, mode, cached).mode = mode
BY DEF Item, Items

LEMMA OneMore ==
  ASSUME NEW S, NEW e \in S, NEW s \in Seq(S)
  PROVE  <<e>> \in Seq(S) /\ Append(s, e) \in Seq(S)
OBVIOUS

LEMMA NewestType ==
  ASSUME NEW s \in Seq(Requests), NEW n \in Nat
  PROVE  Newest(s, n) \in Seq(Requests)
BY DEF Newest

LEMMA RememberType ==
  ASSUME NEW entries \in Seq(Requests), NEW q \in Requests
  PROVE  Remember(entries, q) \in Seq(Requests)
<1>1. Without(entries, q) \in Seq(Requests)
  <2> DEFINE known == {k \in DOMAIN entries : ShapeOf(entries[k]) = ShapeOf(q)}
             one == CHOOSE k \in known : TRUE
  <2>1. CASE known = {}
    BY <2>1 DEF Without
  <2>2. CASE known # {}
    <3>1. one \in 1 .. Len(entries)
      BY <2>2
    <3>2. Without(entries, q) = SubSeq(entries, 1, one - 1) \o SubSeq(entries, one + 1, Len(entries))
      BY <2>2 DEF Without, RemoveAt
    <3> HIDE DEF one
    <3> QED
      BY <3>1, <3>2
  <2> QED
    BY <2>1, <2>2
<1>2. Append(Without(entries, q), q) \in Seq(Requests)
  BY <1>1
<1> QED
  BY <1>2, NewestType, Constants DEF Remember

(* Runs of all requests of t, in their order and in one mode.              *)
AreRuns(runs, t, mode) ==
  /\ runs \in Seq(Items) /\ Len(runs) = Len(t)
  /\ \A k \in 1 .. Len(t) : runs[k].req = t[k] /\ runs[k].mode = mode

LEMMA RunsAre ==
  ASSUME NEW t \in Seq(Requests), NEW mode \in {"replay", "verify"}, NEW cached \in BOOLEAN
  PROVE  AreRuns(Runs(t, mode, cached), t, mode)
<1>1. \A k \in 1 .. Len(t) : /\ Item(t[k], mode, cached) \in Items
                             /\ Item(t[k], mode, cached).req = t[k]
                             /\ Item(t[k], mode, cached).mode = mode
  BY ItemType
<1> QED
  BY <1>1 DEF Runs, AreRuns

LEMMA ReplaysAre ==
  ASSUME NEW last \in Seq(Requests), NEW mode \in {"replay", "verify"}
  PROVE  AreRuns(Replays(last, mode), Durations \o last, mode)
<1> DEFINE D == Runs(Durations, mode, FALSE)
           L == Runs(last, mode, TRUE)
           s == Durations \o last
<1>1. /\ D \in Seq(Items) /\ Len(D) = Len(Durations)
      /\ \A k \in 1 .. Len(Durations) : D[k].req = Durations[k] /\ D[k].mode = mode
  <2>1. Durations \in Seq(Requests) /\ FALSE \in BOOLEAN
    BY WarmStartAssumption
  <2>2. AreRuns(D, Durations, mode)
    BY <2>1, RunsAre, Zenon
  <2> QED
    BY <2>2 DEF AreRuns
<1>2. /\ L \in Seq(Items) /\ Len(L) = Len(last)
      /\ \A k \in 1 .. Len(last) : L[k].req = last[k] /\ L[k].mode = mode
  <2>1. TRUE \in BOOLEAN
    OBVIOUS
  <2>2. AreRuns(L, last, mode)
    BY <2>1, RunsAre, Zenon
  <2> QED
    BY <2>2 DEF AreRuns
<1>3. Len(Durations) \in Nat /\ Len(last) \in Nat
  BY WarmStartAssumption
<1>4. /\ Len(s) = Len(Durations) + Len(last)
      /\ \A i \in 1 .. Len(Durations) + Len(last) :
           s[i] = IF i <= Len(Durations) THEN Durations[i] ELSE last[i - Len(Durations)]
  BY ConcatProperties, WarmStartAssumption
<1> HIDE DEF D, L, s
<1>5. /\ D \o L \in Seq(Items) /\ Len(D \o L) = Len(Durations) + Len(last)
      /\ \A i \in 1 .. Len(Durations) + Len(last) :
           (D \o L)[i] = IF i <= Len(Durations) THEN D[i] ELSE L[i - Len(Durations)]
  <2>1. D \in Seq(Items) /\ L \in Seq(Items)
    BY <1>1, <1>2
  <2>2. /\ D \o L \in Seq(Items) /\ Len(D \o L) = Len(D) + Len(L)
        /\ \A i \in 1 .. Len(D) + Len(L) :
             (D \o L)[i] = IF i <= Len(D) THEN D[i] ELSE L[i - Len(D)]
    BY <2>1, ConcatProperties
  <2> QED
    BY <1>1, <1>2, <2>2
<1>6. ASSUME NEW k \in 1 .. Len(s) PROVE (D \o L)[k].req = s[k] /\ (D \o L)[k].mode = mode
  <2>1. CASE k <= Len(Durations)
    <3>1. k \in 1 .. Len(Durations) /\ (D \o L)[k] = D[k] /\ s[k] = Durations[k]
      BY <1>3, <1>4, <1>5, <2>1
    <3> QED
      BY <1>1, <3>1
  <2>2. CASE k > Len(Durations)
    <3>1. k - Len(Durations) \in 1 .. Len(last)
      BY <1>3, <1>4, <2>2
    <3>2. (D \o L)[k] = L[k - Len(Durations)] /\ s[k] = last[k - Len(Durations)]
      BY <1>3, <1>4, <1>5, <2>2
    <3> QED
      BY <1>2, <3>1, <3>2
  <2>3. k <= Len(Durations) \/ k > Len(Durations)
    BY <1>3, <1>4
  <2> QED
    BY <2>1, <2>2, <2>3
<1>7. Replays(last, mode) = D \o L
  BY DEF Replays, D, L
<1> QED
  BY <1>3, <1>4, <1>5, <1>6, <1>7 DEF s, AreRuns

(* What a start runs: some requests that leave room for the base warm-up   *)
(* among the geometries, and all that once more when it verifies.          *)
Plan(s, runs) ==
  /\ Len(s) <= MaxShapes - 1
  /\ Len(runs) = Len(s) \/ Len(runs) = 2 * Len(s) + 1
  /\ \A k \in 1 .. Len(s) : runs[k].req = s[k] /\ runs[k].mode = "replay"
  /\ Len(runs) > Len(s) =>
       /\ runs[Len(s) + 1].req = Base /\ runs[Len(s) + 1].mode = "verify"
       /\ \A k \in 1 .. Len(s) :
            runs[Len(s) + 1 + k].req = s[k] /\ runs[Len(s) + 1 + k].mode = "verify"

LEMMA StartRunsAre ==
  ASSUME Types
  PROVE  /\ StartRuns \in Seq(Items)
         /\ Select(jobs \o history, recent) \in Seq(Requests)
         /\ Durations \o Select(jobs \o history, recent) \in Seq(Requests)
         /\ Plan(Durations \o Select(jobs \o history, recent), StartRuns)
<1> DEFINE last == Select(jobs \o history, recent)
           s == Durations \o last
           n == Len(s)
           A == Replays(last, "replay")
           B == Replays(last, "verify")
           one == Item(Base, "verify", FALSE)
<1>1. last \in Seq(Requests) /\ Len(last) <= recent /\ recent \in Nat
  <2>1. jobs \o history \in Seq(Requests)
    BY DEF Types
  <2>2. recent \in Nat
    BY Constants DEF Types
  <2> QED
    BY <2>1, <2>2, Selected
<1>2. StartRuns = A \o (IF verify THEN <<one>> \o B ELSE <<>>)
  BY DEF StartRuns
<1> HIDE DEF last
<1>3. s \in Seq(Requests) /\ n \in Nat /\ n <= MaxShapes - 1
  <2>1. s \in Seq(Requests) /\ n = Len(Durations) + Len(last) /\ Len(last) \in Nat
    BY <1>1, ConcatProperties, Constants
  <2>2. recent + Len(Durations) <= MaxShapes - 1
    BY Constants DEF Types
  <2> QED
    BY <1>1, <2>1, <2>2, Constants
<1>4. /\ A \in Seq(Items) /\ Len(A) = n
      /\ \A k \in 1 .. n : A[k].req = s[k] /\ A[k].mode = "replay"
  BY <1>1, ReplaysAre DEF AreRuns
<1>5. /\ B \in Seq(Items) /\ Len(B) = n
      /\ \A k \in 1 .. n : B[k].req = s[k] /\ B[k].mode = "verify"
  BY <1>1, ReplaysAre DEF AreRuns
<1>6. one \in Items /\ one.req = Base /\ one.mode = "verify"
  BY ItemType, Constants
<1> HIDE DEF A, B, one, s
<1>7. ASSUME ~verify PROVE StartRuns \in Seq(Items) /\ Plan(s, StartRuns)
  <2>1. StartRuns = A
    BY <1>2, <1>4, <1>7, ConcatEmptySeq
  <2>2. Plan(s, StartRuns)
    BY <1>3, <1>4, <2>1 DEF Plan
  <2> QED
    BY <1>3, <1>4, <2>1, <2>2
<1>8. ASSUME verify PROVE StartRuns \in Seq(Items) /\ Plan(s, StartRuns)
  <2> DEFINE C == <<one>> \o B
  <2>1. StartRuns = A \o C
    BY <1>2, <1>8
  <2>2. C \in Seq(Items) /\ Len(C) = n + 1 /\ C[1] = one /\ \A k \in 1 .. n : C[k + 1] = B[k]
    <3>1. <<one>> \in Seq(Items) /\ Len(<<one>>) = 1 /\ <<one>>[1] = one
      BY <1>6
    <3>2. /\ C \in Seq(Items) /\ Len(C) = 1 + n
          /\ \A i \in 1 .. 1 + n : C[i] = IF i <= 1 THEN <<one>>[i] ELSE B[i - 1]
      BY <1>5, <3>1, ConcatProperties
    <3> HIDE DEF C
    <3> QED
      BY <1>3, <3>1, <3>2
  <2> HIDE DEF C
  <2>3. /\ StartRuns \in Seq(Items) /\ Len(StartRuns) = 2 * n + 1
        /\ \A i \in 1 .. 2 * n + 1 : StartRuns[i] = IF i <= n THEN A[i] ELSE C[i - n]
    <3>1. /\ A \o C \in Seq(Items) /\ Len(A \o C) = Len(A) + Len(C)
          /\ \A i \in 1 .. Len(A) + Len(C) : (A \o C)[i] = IF i <= Len(A) THEN A[i] ELSE C[i - Len(A)]
      <4>1. A \in Seq(Items) /\ C \in Seq(Items)
        BY <1>4, <2>2
      <4> QED
        BY <4>1, ConcatProperties
    <3>2. Len(A) = n /\ Len(A) + Len(C) = 2 * n + 1
      BY <1>3, <1>4, <2>2
    <3> QED
      BY <2>1, <3>1, <3>2
  <2>4. ASSUME NEW k \in 1 .. n PROVE StartRuns[k].req = s[k] /\ StartRuns[k].mode = "replay"
    <3>1. StartRuns[k] = A[k]
      BY <1>3, <2>3
    <3> QED
      BY <1>4, <3>1
  <2>5. StartRuns[n + 1].req = Base /\ StartRuns[n + 1].mode = "verify"
    <3>1. StartRuns[n + 1] = C[1]
      BY <1>3, <2>3
    <3> QED
      BY <1>6, <2>2, <3>1
  <2>6. ASSUME NEW k \in 1 .. n
        PROVE StartRuns[n + 1 + k].req = s[k] /\ StartRuns[n + 1 + k].mode = "verify"
    <3>1. n + 1 + k \in 1 .. 2 * n + 1 /\ ~(n + 1 + k <= n) /\ (n + 1 + k) - n = k + 1
      BY <1>3
    <3>2. StartRuns[n + 1 + k] = C[k + 1]
      BY <2>3, <3>1
    <3> QED
      BY <1>5, <2>2, <3>2
  <2>7. Plan(s, StartRuns)
    <3> HIDE DEF n
    <3>1. n = Len(s)
      BY DEF n
    <3> QED
      BY <1>3, <2>3, <2>4, <2>5, <2>6, <3>1 DEF Plan
  <2> QED
    BY <1>3, <2>3, <2>7
<1>9. StartRuns \in Seq(Items) /\ Plan(s, StartRuns)
  BY <1>7, <1>8 DEF Types
<1> QED
  BY <1>1, <1>3, <1>9 DEF s, last

LEMMA InitTypes == Init => Types
<1> SUFFICES ASSUME Init PROVE Types
  OBVIOUS
<1> QED
  BY DEF Init, Types

(* The first run to come is one of Items; so are those that follow it.     *)
LEMMA FirstRun ==
  ASSUME Types, todo # <<>>
  PROVE  /\ Current \in Requests /\ Current.prompt \in Prompts
         /\ Tail(todo) \in Seq(Items) /\ Len(Tail(todo)) = Len(todo) - 1
         /\ \A k \in 1 .. Len(todo) - 1 : Tail(todo)[k] = todo[k + 1]
         /\ Len(todo) \in Nat /\ Len(todo) >= 1
         /\ Current = todo[1].req /\ Mode = todo[1].mode
<1>1. todo \in Seq(Items) /\ Len(todo) \in Nat /\ Len(todo) >= 1
  BY DEF Types
<1>2. Head(todo) \in Items /\ Head(todo) = todo[1]
  BY <1>1
<1>3. Current \in Requests /\ Current = todo[1].req /\ Mode = todo[1].mode
  BY <1>2 DEF Items, Current, Mode
<1>4. /\ Tail(todo) \in Seq(Items) /\ Len(Tail(todo)) = Len(todo) - 1
      /\ \A k \in 1 .. Len(todo) - 1 : Tail(todo)[k] = todo[k + 1]
  BY <1>1
<1> QED
  BY <1>1, <1>3, <1>4, Constants

LEMMA TypesStep ==
  ASSUME Types, BudgetInv, FileInv, [Next]_wvars
  PROVE  Types'
<1> Main \in Ranks /\ Base \in Requests /\ MaxShapes \in Nat /\ Wanted \subseteq Requests
  BY Constants
<1>1. CASE Start
  <2>1. history' \in Seq(Requests)
    BY <1>1, NewestType DEF Types, Start
  <2>2. todo' \in Seq(Items)
    <3>1. Item(Base, "base", FALSE) \in Items
      BY ItemType
    <3> QED
      BY <1>1, <3>1, OneMore DEF Start, Types
  <2> QED
    BY <1>1, <2>1, <2>2 DEF Types, Start
<1>2. CASE Down
  BY <1>2 DEF Types, Down
<1>3. CASE Meet \/ Encode
  BY <1>3 DEF Types, Meet, Encode, Move
<1>4. CASE Publish
  <2>1. todo # <<>>
    BY <1>4 DEF Publish, FileInv
  <2>2. Current.prompt \in Prompts
    BY <2>1, FirstRun
  <2>3. file' \in [Prompts -> {"none", "whole"}]
    BY <1>4, <2>2 DEF Types, Publish
  <2> QED
    BY <1>4, <2>3 DEF Types, Publish, Move
<1>5. CASE Denoise
  BY <1>5 DEF Types, Denoise, Move
<1>6. CASE Finish
  <2>1. todo # <<>>
    <3>1. at[Main] = "denoised"
      BY <1>6 DEF Finish
    <3> QED
      BY <3>1 DEF FileInv
  <2>2. Current \in Requests /\ Tail(todo) \in Seq(Items)
    BY <2>1, FirstRun
  <2>3. todo' \in Seq(Items)
    BY <1>6, <2>2, StartRunsAre DEF Finish
  <2>4. history' \in Seq(Requests)
    BY <1>6, <2>2, RememberType DEF Types, Finish
  <2>5. jobs' \in Seq(Requests)
    <3>1. jobs' = jobs \/ jobs' = Append(jobs, Current)
      BY <1>6 DEF Finish
    <3>2. jobs \in Seq(Requests) /\ Current \in Requests
      BY <2>2 DEF Types
    <3> QED
      BY <3>1, <3>2, OneMore
  <2> QED
    BY <1>6, <2>3, <2>4, <2>5 DEF Types, Finish
<1>7. CASE Ready
  BY <1>7 DEF Types, Ready
<1>8. ASSUME NEW r \in Ranks, Check(r), ~Down PROVE Types'
  BY <1>8 DEF Types, Check, Move
<1>9. ASSUME NEW r \in Ranks, Load(r), ~Down PROVE Types'
  BY <1>9 DEF Types, Load, Move
<1>10. ASSUME NEW p \in Prompts, Lose(p) PROVE Types'
  BY <1>10 DEF Types, Lose
<1>11. ASSUME NEW q \in Wanted, Serve(q) PROVE Types'
  <2>1. todo' \in Seq(Items)
    <3>1. Item(q, "serve", FALSE) \in Items
      BY ItemType
    <3> QED
      BY <1>11, <3>1, OneMore DEF Serve, Types
  <2> QED
    BY <1>11, <2>1 DEF Types, Serve
<1>12. CASE UNCHANGED wvars
  BY <1>12 DEF Types, wvars
<1> QED
  BY <1>1, <1>2, <1>3, <1>4, <1>5, <1>6, <1>7, <1>8, <1>9, <1>10, <1>11, <1>12 DEF Next, Crash

LEMMA InitFile == Init => FileInv
BY Constants DEF Init, FileInv

LEMMA FileStep ==
  ASSUME Types, BudgetInv, FileInv, [Next]_wvars
  PROVE  FileInv'
<1> USE Constants
<1>1. ASSUME at' = AtAll("idle") \/ at' = AtAll("gone") PROVE FileInv'
  BY <1>1 DEF FileInv
<1>2. CASE Start \/ Down \/ Finish
  BY <1>1, <1>2 DEF Start, Down, Finish
<1>3. CASE Meet
  <2>1. at[Main] = "checked" /\ todo' = todo /\ todo # <<>>
    BY <1>3 DEF Meet, Move, FileInv
  <2>2. \A r \in Ranks : at'[r] \in {"encode", "wait"}
    BY <1>3 DEF Meet, Move
  <2>3. UNCHANGED <<hit, Here>>
    BY <1>3 DEF Meet, Move, Here, Current
  <2> QED
    BY <2>1, <2>2, <2>3 DEF FileInv
<1>4. CASE Encode
  <2>1. /\ at'[Main] = "encoding" /\ ~hit[Main] /\ todo' = todo /\ todo # <<>>
        /\ UNCHANGED <<hit, Here>> /\ \A r \in Ranks \ {Main} : at'[r] = at[r]
    BY <1>4 DEF Encode, Move, FileInv, BudgetInv, Here, Current
  <2> QED
    BY <2>1 DEF FileInv
<1>5. CASE Publish
  <2>1. todo # <<>> /\ todo' = todo /\ Current' = Current /\ at' = AtAll("load")
    BY <1>5 DEF Publish, Move, FileInv, Current
  <2>2. Here'
    <3>1. CASE hit[Main]
      BY <1>5, <2>1, <3>1 DEF Publish, Move, FileInv, Here
    <3>2. CASE ~hit[Main]
      <4>1. Current.prompt \in Prompts
        BY <2>1, FirstRun
      <4>2. file'[Current.prompt] = "whole"
        BY <1>5, <3>2, <4>1 DEF Publish, Types
      <4> QED
        BY <2>1, <4>2 DEF Here
    <3> QED
      BY <3>1, <3>2
  <2> QED
    BY <2>1, <2>2 DEF FileInv
<1>6. CASE Denoise
  <2>1. at[Main] = "denoise" /\ todo' = todo /\ \A r \in Ranks : at'[r] \in {"cold", "denoised"}
    BY <1>6 DEF Denoise, Move
  <2> QED
    BY <2>1 DEF FileInv
<1>7. CASE Ready
  BY <1>7 DEF Ready, FileInv, Here, Current
<1>8. ASSUME NEW r \in Ranks, Check(r), ~Down PROVE FileInv'
  <2>1. /\ todo # <<>> /\ todo' = todo /\ UNCHANGED Here
        /\ at'[r] = "checked" /\ \A q \in Ranks \ {r} : at'[q] = at[q]
        /\ hit'[r] = (file[Current.prompt] # "none") /\ \A q \in Ranks \ {r} : hit'[q] = hit[q]
    BY <1>8 DEF Check, Move, Types, BudgetInv, Here, Current
  <2>2. Current.prompt \in Prompts
    BY <2>1, FirstRun
  <2>3. hit'[r] => Here
    BY <2>1, <2>2 DEF Types, Here
  <2> QED
    BY <2>1, <2>3 DEF FileInv
<1>9. ASSUME NEW r \in Ranks, Load(r), ~Down PROVE FileInv'
  <2>1. /\ at[r] = "load" /\ todo' = todo /\ UNCHANGED <<Here, hit>>
        /\ at'[r] = "denoise" /\ \A q \in Ranks \ {r} : at'[q] = at[q]
    BY <1>9 DEF Load, Move, Types, BudgetInv, Here, Current
  <2> QED
    BY <2>1 DEF FileInv
<1>10. ASSUME NEW p \in Prompts, Lose(p) PROVE FileInv'
  <2>1. lost' > 0 /\ UNCHANGED <<at, hit, todo>>
    BY <1>10 DEF Lose, Types
  <2> QED
    BY <2>1 DEF FileInv, Here
<1>11. ASSUME NEW q \in Wanted, Serve(q) PROVE FileInv'
  BY <1>1, <1>11 DEF Serve
<1>12. CASE UNCHANGED wvars
  BY <1>12 DEF wvars, FileInv, Here, Current
<1> QED
  BY <1>2, <1>3, <1>4, <1>5, <1>6, <1>7, <1>8, <1>9, <1>10, <1>11, <1>12 DEF Next, Crash

-----------------------------------------------------------------------------
(* What a history, and a selection from it, keep of the newest requests.   *)

AllIn(s, I) == \A k \in 1 .. Len(s) : Identity(s[k]) \in I

(* After its entry k, a sequence has only identities of I.                 *)
OnlyAfter(s, k, I) == \A j \in k + 1 .. Len(s) : Identity(s[j]) \in I

(* An entry of this geometry, with only identities of I after it.          *)
Keeps(s, shape, I) ==
  \E k \in 1 .. Len(s) : ShapeOf(s[k]) = shape /\ OnlyAfter(s, k, I)

Distinct(s) == \A i, j \in 1 .. Len(s) : ShapeOf(s[i]) = ShapeOf(s[j]) => i = j

(* Distinct identities of I are no more than I has.                        *)
LEMMA NoMoreThan ==
  ASSUME NEW s \in Seq(Requests), NEW I, IsFiniteSet(I), AllIn(s, I),
         \A i, j \in 1 .. Len(s) : Identity(s[i]) = Identity(s[j]) => i = j
  PROVE  Len(s) <= Cardinality(I)
<1> DEFINE S == 1 .. Len(s)
           f == [k \in S |-> Identity(s[k])]
<1>1. f \in Injection(S, I)
  <2>1. f \in [S -> I]
    BY DEF AllIn
  <2>2. \A i, j \in S : f[i] = f[j] => i = j
    OBVIOUS
  <2> QED
    BY <2>1, <2>2 DEF Injection, IsInjective
<1>2. Cardinality(S) = Len(s)
  <2>1. Len(s) \in Nat
    OBVIOUS
  <2>2. Cardinality(1 .. Len(s)) = IF 1 > Len(s) THEN 0 ELSE Len(s) - 1 + 1
    BY <2>1, FS_Interval
  <2> QED
    BY <2>1, <2>2
<1> HIDE DEF S, f
<1> QED
  BY <1>1, <1>2, FS_Injection

(* All that is selected was a candidate.                                   *)
LEMMA SelectFrom ==
  ASSUME NEW candidates \in Seq(Requests), NEW limit \in Nat,
         NEW i \in 1 .. Len(Select(candidates, limit))
  PROVE  \E j \in 1 .. Len(candidates) : Select(candidates, limit)[i] = candidates[j]
<1> DEFINE n == Len(candidates)
           From(s) == \A a \in 1 .. Len(s) : \E j \in 1 .. n : s[a] = candidates[j]
<1>1. PICK chosen : Grows(chosen, candidates, limit) /\ Select(candidates, limit) = chosen[n]
  BY SelectIs
<1>2. n \in Nat /\ \A k \in 1 .. n : n - k + 1 \in 1 .. n /\ candidates[n - k + 1] \in Requests
  OBVIOUS
<1> DEFINE T == {k \in Nat : k <= n => From(chosen[k])}
<1>3. 0 \in T
  BY <1>1 DEF Grows
<1>4. ASSUME NEW k \in Nat, k \in T PROVE k + 1 \in T
  <2> SUFFICES ASSUME k + 1 <= n PROVE From(chosen[k + 1])
    OBVIOUS
  <2> DEFINE q == candidates[n - (k + 1) + 1]
  <2>1. /\ k \in 0 .. n /\ k + 1 \in 1 .. n /\ (k + 1) - 1 = k
        /\ n - (k + 1) + 1 \in 1 .. n /\ q \in Requests
    BY <1>2
  <2>2. chosen[k] \in Seq(Requests) /\ chosen[k + 1] = Taken(chosen[k], q, limit)
    BY <1>1, <2>1 DEF Grows
  <2>3. From(chosen[k]) /\ \E j \in 1 .. n : q = candidates[j]
    <3>1. k <= n
      BY <2>1
    <3>2. From(chosen[k])
      BY <1>4, <3>1
    <3> QED
      BY <2>1, <3>2
  <2> HIDE DEF q
  <2>4. CASE chosen[k + 1] = chosen[k]
    BY <2>3, <2>4
  <2>5. CASE /\ chosen[k + 1] \in Seq(Requests) /\ Len(chosen[k + 1]) = Len(chosen[k]) + 1
             /\ chosen[k + 1][1] = q
             /\ \A a \in 1 .. Len(chosen[k]) : chosen[k + 1][a + 1] = chosen[k][a]
    <3> SUFFICES ASSUME NEW a \in 1 .. Len(chosen[k + 1])
                 PROVE  \E j \in 1 .. n : chosen[k + 1][a] = candidates[j]
      OBVIOUS
    <3>1. CASE a = 1
      BY <2>3, <2>5, <3>1
    <3>2. CASE a > 1
      <4>1. a - 1 \in 1 .. Len(chosen[k]) /\ (a - 1) + 1 = a
        BY <2>2, <2>5, <3>2
      <4>2. chosen[k + 1][a] = chosen[k][a - 1]
        BY <2>5, <4>1
      <4> QED
        BY <2>3, <4>1, <4>2
    <3> QED
      BY <3>1, <3>2
  <2> DEFINE u == Taken(chosen[k], q, limit)
  <2>6. \/ u = chosen[k]
        \/ /\ u \in Seq(Requests) /\ Len(u) = Len(chosen[k]) + 1 /\ u[1] = q
           /\ \A a \in 1 .. Len(chosen[k]) : u[a + 1] = chosen[k][a]
    BY <2>1, <2>2, TakenIs
  <2>7. u = chosen[k + 1]
    BY <2>2
  <2>8. \/ chosen[k + 1] = chosen[k]
        \/ /\ chosen[k + 1] \in Seq(Requests) /\ Len(chosen[k + 1]) = Len(chosen[k]) + 1
           /\ chosen[k + 1][1] = q
           /\ \A a \in 1 .. Len(chosen[k]) : chosen[k + 1][a + 1] = chosen[k][a]
    <3> HIDE DEF u
    <3> QED
      BY <2>6, <2>7
  <2> HIDE DEF From
  <2> QED
    BY <2>4, <2>5, <2>8, Zenon
<1>5. n \in T
  <2> HIDE DEF T
  <2> QED
    BY <1>2, <1>3, <1>4, ZeroAndNext
<1>6. From(chosen[n])
  <2> HIDE DEF From
  <2>1. n \in Nat /\ n <= n
    BY <1>2
  <2> QED
    BY <1>5, <2>1
<1>7. From(Select(candidates, limit))
  BY <1>1, <1>6, Zenon
<1> QED
  BY <1>7

(* A candidate with fewer than the limit of identities after it is         *)
(* selected, or another of its identity is, and no others come after it.   *)
LEMMA SelectKeeps ==
  ASSUME NEW candidates \in Seq(Requests), NEW limit \in Nat,
         NEW p \in 1 .. Len(candidates), file[candidates[p].prompt] # "none",
         NEW I, IsFiniteSet(I), Cardinality(I) < limit, OnlyAfter(candidates, p, I)
  PROVE  \E i \in 1 .. Len(Select(candidates, limit)) :
            /\ Identity(Select(candidates, limit)[i]) = Identity(candidates[p])
            /\ OnlyAfter(Select(candidates, limit), i, I)
<1> DEFINE n == Len(candidates)
           at_p == n - p + 1
           Apart(s) == \A i, j \in 1 .. Len(s) : Identity(s[i]) = Identity(s[j]) => i = j
           Has(s) == \E i \in 1 .. Len(s) : Identity(s[i]) = Identity(candidates[p])
                                            /\ OnlyAfter(s, i, I)
<1>1. PICK chosen : Grows(chosen, candidates, limit) /\ Select(candidates, limit) = chosen[n]
  BY SelectIs
<1>2. /\ n \in Nat /\ \A k \in 1 .. n : n - k + 1 \in 1 .. n /\ candidates[n - k + 1] \in Requests
      /\ at_p \in 1 .. n /\ n - at_p + 1 = p /\ Cardinality(I) \in Nat /\ at_p - 1 \in Nat
  BY FS_CardinalityType
<1>3. \A k \in 1 .. n :
        /\ chosen[k - 1] \in Seq(Requests) /\ Len(chosen[k - 1]) \in Nat
        /\ chosen[k] = Taken(chosen[k - 1], candidates[n - k + 1], limit)
  <2> SUFFICES ASSUME NEW k \in 1 .. n
               PROVE  /\ chosen[k - 1] \in Seq(Requests) /\ Len(chosen[k - 1]) \in Nat
                      /\ chosen[k] = Taken(chosen[k - 1], candidates[n - k + 1], limit)
    OBVIOUS
  <2>1. k - 1 \in 0 .. n
    BY <1>2
  <2> QED
    BY <1>1, <2>1 DEF Grows
(* What one more candidate does to a selection.                            *)
<1>4. ASSUME NEW k \in 1 .. n
      PROVE  \/ /\ chosen[k] = chosen[k - 1]
                /\ \/ Len(chosen[k - 1]) >= limit \/ file[candidates[n - k + 1].prompt] = "none"
                   \/ \E j \in 1 .. Len(chosen[k - 1]) :
                        Identity(chosen[k - 1][j]) = Identity(candidates[n - k + 1])
             \/ /\ \A j \in 1 .. Len(chosen[k - 1]) :
                     Identity(chosen[k - 1][j]) # Identity(candidates[n - k + 1])
                /\ Len(chosen[k]) = Len(chosen[k - 1]) + 1
                /\ chosen[k][1] = candidates[n - k + 1]
                /\ \A j \in 1 .. Len(chosen[k - 1]) : chosen[k][j + 1] = chosen[k - 1][j]
  <2> DEFINE s == chosen[k - 1]
             q == candidates[n - k + 1]
  <2>1. s \in Seq(Requests) /\ q \in Requests /\ chosen[k] = Taken(s, q, limit)
    BY <1>2, <1>3
  <2> HIDE DEF s, q
  <2>2. \/ /\ chosen[k] = s
           /\ \/ Len(s) >= limit \/ file[q.prompt] = "none"
              \/ \E j \in 1 .. Len(s) : Identity(s[j]) = Identity(q)
        \/ /\ \A j \in 1 .. Len(s) : Identity(s[j]) # Identity(q)
           /\ Len(chosen[k]) = Len(s) + 1
           /\ chosen[k][1] = q
           /\ \A j \in 1 .. Len(s) : chosen[k][j + 1] = s[j]
    BY <2>1, TakenIs
  <2> QED
    BY <2>2 DEF s, q
<1> HIDE DEF n, at_p
(* Before the candidate itself, only identities of I are selected.         *)
<1> DEFINE T == {k \in Nat : k < at_p => AllIn(chosen[k], I) /\ Apart(chosen[k])}
<1>5. 0 \in T
  BY <1>1 DEF Grows, AllIn
<1>6. ASSUME NEW k \in Nat, k \in T PROVE k + 1 \in T
  <2> SUFFICES ASSUME k + 1 < at_p PROVE AllIn(chosen[k + 1], I) /\ Apart(chosen[k + 1])
    OBVIOUS
  <2> DEFINE c == n - (k + 1) + 1
  <2>1. /\ k + 1 \in 1 .. n /\ (k + 1) - 1 = k /\ c \in p + 1 .. n /\ k < at_p
    <3>1. n \in Nat /\ at_p \in 1 .. n /\ n - at_p + 1 = p
      BY <1>2
    <3> QED
      BY <3>1
  <2>2. AllIn(chosen[k], I) /\ Apart(chosen[k]) /\ chosen[k] \in Seq(Requests) /\ Len(chosen[k]) \in Nat
    BY <1>3, <1>6, <2>1
  <2>3. Identity(candidates[c]) \in I
    BY <2>1 DEF OnlyAfter, n
  <2>4. CASE chosen[k + 1] = chosen[k]
    BY <2>2, <2>4
  <2>5. CASE /\ \A j \in 1 .. Len(chosen[k]) : Identity(chosen[k][j]) # Identity(candidates[c])
             /\ Len(chosen[k + 1]) = Len(chosen[k]) + 1
             /\ chosen[k + 1][1] = candidates[c]
             /\ \A j \in 1 .. Len(chosen[k]) : chosen[k + 1][j + 1] = chosen[k][j]
    <3>1. ASSUME NEW j \in 1 .. Len(chosen[k + 1])
          PROVE  \/ j = 1
                 \/ /\ j > 1 /\ j - 1 \in 1 .. Len(chosen[k])
                    /\ chosen[k + 1][j] = chosen[k][j - 1]
      <4>1. CASE j > 1
        <5>1. j - 1 \in 1 .. Len(chosen[k]) /\ (j - 1) + 1 = j
          BY <2>2, <2>5, <4>1
        <5> QED
          BY <2>5, <4>1, <5>1
      <4> QED
        BY <2>2, <2>5, <4>1
    <3>2. AllIn(chosen[k + 1], I)
      <4> SUFFICES ASSUME NEW j \in 1 .. Len(chosen[k + 1]) PROVE Identity(chosen[k + 1][j]) \in I
        BY DEF AllIn
      <4> QED
        BY <2>2, <2>3, <2>5, <3>1 DEF AllIn
    <3>3. ASSUME NEW i \in 1 .. Len(chosen[k + 1]), NEW j \in 1 .. Len(chosen[k + 1]),
                 Identity(chosen[k + 1][i]) = Identity(chosen[k + 1][j])
          PROVE  i = j
      <4>1. CASE i = 1 \/ j = 1
        BY <2>5, <3>1, <3>3, <4>1
      <4>2. CASE i > 1 /\ j > 1
        <5>1. i - 1 \in 1 .. Len(chosen[k]) /\ chosen[k + 1][i] = chosen[k][i - 1]
          BY <3>1, <4>2
        <5>2. j - 1 \in 1 .. Len(chosen[k]) /\ chosen[k + 1][j] = chosen[k][j - 1]
          BY <3>1, <4>2
        <5>3. Identity(chosen[k][i - 1]) = Identity(chosen[k][j - 1])
          BY <3>3, <5>1, <5>2, Zenon
        <5>4. i - 1 = j - 1
          BY <2>2, <5>1, <5>2, <5>3
        <5> QED
          BY <5>4
      <4> QED
        BY <2>2, <2>5, <4>1, <4>2
    <3> QED
      BY <3>2, <3>3
  <2> QED
    BY <1>4, <2>1, <2>4, <2>5
<1>7. \A k \in Nat : k \in T
  <2> HIDE DEF T
  <2> QED
    BY <1>5, <1>6, ZeroAndNext
<1> DEFINE before == chosen[at_p - 1]
<1>8. AllIn(before, I) /\ Apart(before) /\ before \in Seq(Requests) /\ Len(before) \in Nat
  <2>1. at_p - 1 \in T
    BY <1>2, <1>7
  <2> QED
    BY <1>2, <1>3, <2>1
<1>9. Len(before) < limit
  <2>1. Len(before) <= Cardinality(I)
    BY <1>8, NoMoreThan
  <2> QED
    BY <1>2, <1>8, <2>1
(* The candidate itself, and what is put before it later.                  *)
<1>10. Has(chosen[at_p])
  <2>1. CASE /\ chosen[at_p] = before
             /\ \E j \in 1 .. Len(before) : Identity(before[j]) = Identity(candidates[p])
    BY <1>8, <2>1 DEF AllIn, OnlyAfter
  <2>2. CASE /\ Len(chosen[at_p]) = Len(before) + 1
             /\ chosen[at_p][1] = candidates[p]
             /\ \A j \in 1 .. Len(before) : chosen[at_p][j + 1] = before[j]
    <3>1. 1 \in 1 .. Len(chosen[at_p])
      BY <1>8, <2>2
    <3>2. OnlyAfter(chosen[at_p], 1, I)
      <4> SUFFICES ASSUME NEW j \in 2 .. Len(chosen[at_p]) PROVE Identity(chosen[at_p][j]) \in I
        BY DEF OnlyAfter
      <4>1. j - 1 \in 1 .. Len(before) /\ (j - 1) + 1 = j
        BY <1>8, <2>2
      <4>2. chosen[at_p][j] = before[j - 1]
        BY <2>2, <4>1
      <4> QED
        BY <1>8, <4>1, <4>2 DEF AllIn
    <3> QED
      BY <2>2, <3>1, <3>2
  <2>3. ~ (Len(before) >= limit) /\ file[candidates[p].prompt] # "none"
    BY <1>8, <1>9
  <2> QED
    BY <1>2, <1>4, <2>1, <2>2, <2>3
<1> DEFINE U == {k \in Nat : at_p + k <= n => Has(chosen[at_p + k])}
<1>11. 0 \in U
  <2>1. at_p + 0 = at_p
    BY <1>2
  <2> QED
    BY <1>10, <2>1
<1>12. ASSUME NEW k \in Nat, k \in U PROVE k + 1 \in U
  <2> SUFFICES ASSUME at_p + (k + 1) <= n PROVE Has(chosen[at_p + (k + 1)])
    OBVIOUS
  <2> DEFINE m == at_p + k
  <2>1. m + 1 \in 1 .. n /\ (m + 1) - 1 = m /\ m <= n /\ at_p + (k + 1) = m + 1
    BY <1>2
  <2>2. Has(chosen[m]) /\ Len(chosen[m]) \in Nat
    BY <1>3, <1>12, <2>1
  <2> HIDE DEF m
  <2>3. CASE chosen[m + 1] = chosen[m]
    BY <2>1, <2>2, <2>3
  <2>4. CASE /\ Len(chosen[m + 1]) = Len(chosen[m]) + 1
             /\ \A j \in 1 .. Len(chosen[m]) : chosen[m + 1][j + 1] = chosen[m][j]
    <3>1. PICK i \in 1 .. Len(chosen[m]) : /\ Identity(chosen[m][i]) = Identity(candidates[p])
                                           /\ OnlyAfter(chosen[m], i, I)
      BY <2>2
    <3>2. i + 1 \in 1 .. Len(chosen[m + 1]) /\ Identity(chosen[m + 1][i + 1]) = Identity(candidates[p])
      BY <2>2, <2>4, <3>1
    <3>3. OnlyAfter(chosen[m + 1], i + 1, I)
      <4> SUFFICES ASSUME NEW j \in (i + 1) + 1 .. Len(chosen[m + 1])
                   PROVE  Identity(chosen[m + 1][j]) \in I
        BY DEF OnlyAfter
      <4>1. j - 1 \in i + 1 .. Len(chosen[m]) /\ j - 1 \in 1 .. Len(chosen[m]) /\ (j - 1) + 1 = j
        BY <2>2, <2>4
      <4>2. chosen[m + 1][j] = chosen[m][j - 1]
        BY <2>4, <4>1
      <4> QED
        BY <3>1, <4>1, <4>2 DEF OnlyAfter
    <3> QED
      BY <2>1, <3>2, <3>3
  <2>5. \/ chosen[m + 1] = chosen[(m + 1) - 1]
        \/ /\ Len(chosen[m + 1]) = Len(chosen[(m + 1) - 1]) + 1
           /\ \A j \in 1 .. Len(chosen[(m + 1) - 1]) : chosen[m + 1][j + 1] = chosen[(m + 1) - 1][j]
    BY <1>4, <2>1, Zenon
  <2> QED
    BY <2>1, <2>3, <2>4, <2>5
<1>13. n - at_p \in U
  <2> HIDE DEF U
  <2>1. \A k \in Nat : k \in U
    BY <1>11, <1>12, ZeroAndNext
  <2> QED
    BY <1>2, <2>1
<1>14. Has(chosen[n])
  <2>1. at_p + (n - at_p) = n /\ n <= n
    BY <1>2
  <2> QED
    BY <1>13, <2>1
<1> QED
  BY <1>1, <1>14

(* remember(): some entry o gives way, that of the same geometry or, of a  *)
(* history that is full, the oldest; or the history grows.                 *)
Replaces(s, o, q, r) ==
  /\ Len(r) = Len(s)
  /\ \A i \in 1 .. Len(s) : r[i] = IF i = Len(s) THEN q ELSE IF i < o THEN s[i] ELSE s[i + 1]

Extends(s, q, r) ==
  /\ Len(r) = Len(s) + 1 /\ r[Len(s) + 1] = q
  /\ \A i \in 1 .. Len(s) : r[i] = s[i]

LEMMA RemoveAtIs ==
  ASSUME NEW s \in Seq(Requests), NEW o \in 1 .. Len(s)
  PROVE  LET w == RemoveAt(s, o) IN
         /\ w \in Seq(Requests) /\ Len(w) = Len(s) - 1
         /\ \A i \in 1 .. Len(s) - 1 : w[i] = IF i < o THEN s[i] ELSE s[i + 1]
<1> DEFINE a == SubSeq(s, 1, o - 1)
           b == SubSeq(s, o + 1, Len(s))
<1>1. Len(s) \in Nat /\ o \in Nat /\ o >= 1 /\ o <= Len(s)
  OBVIOUS
<1>2. /\ a \in Seq(Requests) /\ Len(a) = o - 1
      /\ \A i \in 1 .. o - 1 : a[i] = s[i]
  OBVIOUS
<1>3. /\ b \in Seq(Requests) /\ Len(b) = Len(s) - o
      /\ \A i \in 1 .. Len(s) - o : b[i] = s[o + i]
  <2> DEFINE m == o + 1
             z == Len(s)
  <2>1. m \in Int /\ z \in Int /\ \A i \in m .. z : s[i] \in Requests
    BY <1>1
  <2> HIDE DEF m, z
  <2>2. /\ SubSeq(s, m, z) \in Seq(Requests)
        /\ Len(SubSeq(s, m, z)) = IF m <= z THEN z - m + 1 ELSE 0
        /\ \A i \in 1 .. z - m + 1 : SubSeq(s, m, z)[i] = s[m + i - 1]
    BY <2>1, SubSeqProperties
  <2>3. b = SubSeq(s, m, z) /\ m = o + 1 /\ z = Len(s)
    BY DEF m, z
  <2> HIDE DEF b
  <2>4. z - m + 1 = Len(s) - o /\ (IF m <= z THEN z - m + 1 ELSE 0) = Len(s) - o
    BY <1>1, <2>3
  <2>5. \A i \in 1 .. Len(s) - o : m + i - 1 = o + i
    BY <1>1, <2>3
  <2> QED
    BY <2>2, <2>3, <2>4, <2>5
<1> HIDE DEF a, b
<1>4. /\ a \o b \in Seq(Requests) /\ Len(a \o b) = Len(a) + Len(b)
      /\ \A i \in 1 .. Len(a) + Len(b) : (a \o b)[i] = IF i <= Len(a) THEN a[i] ELSE b[i - Len(a)]
  BY <1>2, <1>3, ConcatProperties
<1>5. Len(a) + Len(b) = Len(s) - 1
  BY <1>1, <1>2, <1>3
<1>6. ASSUME NEW i \in 1 .. Len(s) - 1
      PROVE  (a \o b)[i] = IF i < o THEN s[i] ELSE s[i + 1]
  <2>1. (a \o b)[i] = IF i <= Len(a) THEN a[i] ELSE b[i - Len(a)]
    BY <1>4, <1>5
  <2>2. CASE i < o
    <3>1. i <= Len(a) /\ i \in 1 .. o - 1
      BY <1>1, <1>2, <2>2
    <3> QED
      BY <1>2, <2>1, <2>2, <3>1
  <2>3. CASE ~ (i < o)
    <3>1. /\ ~ (i <= Len(a)) /\ ~ (i < o)
          /\ i - Len(a) \in 1 .. Len(s) - o /\ o + (i - Len(a)) = i + 1
      BY <1>1, <1>2, <2>3
    <3>2. b[i - Len(a)] = s[i + 1]
      BY <1>3, <3>1
    <3> QED
      BY <2>1, <3>1, <3>2
  <2> QED
    BY <2>2, <2>3, Zenon
<1>7. RemoveAt(s, o) = a \o b
  BY DEF RemoveAt, a, b
<1> QED
  BY <1>4, <1>5, <1>6, <1>7

LEMMA WithoutIs ==
  ASSUME NEW s \in Seq(Requests), NEW q \in Requests
  PROVE  LET w == Without(s, q) IN
         /\ w \in Seq(Requests)
         /\ \/ w = s /\ \A i \in 1 .. Len(s) : ShapeOf(s[i]) # ShapeOf(q)
            \/ \E o \in 1 .. Len(s) :
                 /\ ShapeOf(s[o]) = ShapeOf(q)
                 /\ Len(w) = Len(s) - 1
                 /\ \A i \in 1 .. Len(s) - 1 : w[i] = IF i < o THEN s[i] ELSE s[i + 1]
<1> DEFINE known == {k \in DOMAIN s : ShapeOf(s[k]) = ShapeOf(q)}
           o == CHOOSE k \in known : TRUE
<1>1. Len(s) \in Nat /\ DOMAIN s = 1 .. Len(s)
  OBVIOUS
<1>2. CASE known = {}
  <2>1. Without(s, q) = s
    BY <1>2 DEF Without
  <2> QED
    BY <1>1, <1>2, <2>1
<1>3. CASE known # {}
  <2>1. o \in 1 .. Len(s) /\ ShapeOf(s[o]) = ShapeOf(q)
    BY <1>1, <1>3
  <2>2. Without(s, q) = RemoveAt(s, o)
    BY <1>3 DEF Without
  <2> HIDE DEF o
  <2> QED
    BY <2>1, <2>2, RemoveAtIs, ZenonT(60)
<1> QED
  BY <1>2, <1>3

LEMMA NewestIs ==
  ASSUME NEW s \in Seq(Requests), NEW n \in Nat
  PROVE  LET m == IF Len(s) < n THEN Len(s) ELSE n IN
         /\ Newest(s, n) \in Seq(Requests) /\ Len(Newest(s, n)) = m
         /\ \A i \in 1 .. m : Newest(s, n)[i] = s[Len(s) - m + i]
<1> DEFINE m == IF Len(s) < n THEN Len(s) ELSE n
<1>1. Len(s) \in Nat /\ m \in Nat /\ m <= Len(s) /\ m <= n
  OBVIOUS
<1>2. Newest(s, n) = SubSeq(s, Len(s) - m + 1, Len(s))
  BY DEF Newest
<1> HIDE DEF m
<1>3. /\ Newest(s, n) \in Seq(Requests) /\ Len(Newest(s, n)) = m
      /\ \A i \in 1 .. m : Newest(s, n)[i] = s[Len(s) - m + i]
  BY <1>1, <1>2
<1> QED
  BY <1>3 DEF m

LEMMA RememberIs ==
  ASSUME NEW s \in Seq(Requests), NEW q \in Requests, file[q.prompt] # "none", Len(s) <= MaxShapes
  PROVE  LET r == Remember(s, q) IN
         /\ r \in Seq(Requests) /\ Len(r) <= MaxShapes
         /\ \/ \E o \in 1 .. Len(s) : ShapeOf(s[o]) = ShapeOf(q) /\ Replaces(s, o, q, r)
            \/ /\ \A i \in 1 .. Len(s) : ShapeOf(s[i]) # ShapeOf(q)
               /\ Len(s) = MaxShapes /\ Replaces(s, 1, q, r)
            \/ /\ \A i \in 1 .. Len(s) : ShapeOf(s[i]) # ShapeOf(q)
               /\ Extends(s, q, r)
<1> DEFINE w == Without(s, q)
           a == Append(w, q)
           r == Remember(s, q)
<1>1. w \in Seq(Requests) /\ Len(w) \in Nat /\ Len(s) \in Nat /\ MaxShapes \in Nat /\ MaxShapes >= 1
  BY WithoutIs, BudgetNat
<1>2. r = Newest(a, MaxShapes)
  BY DEF Remember
<1>3. /\ \/ w = s /\ \A i \in 1 .. Len(s) : ShapeOf(s[i]) # ShapeOf(q)
         \/ \E o \in 1 .. Len(s) :
              /\ ShapeOf(s[o]) = ShapeOf(q)
              /\ Len(w) = Len(s) - 1
              /\ \A i \in 1 .. Len(s) - 1 : w[i] = IF i < o THEN s[i] ELSE s[i + 1]
  BY WithoutIs
<1> HIDE DEF w
<1>4. /\ a \in Seq(Requests) /\ Len(a) = Len(w) + 1 /\ a[Len(w) + 1] = q
      /\ \A i \in 1 .. Len(w) : a[i] = w[i]
  BY <1>1
<1> HIDE DEF a, r
<1>5. LET m == IF Len(a) < MaxShapes THEN Len(a) ELSE MaxShapes IN
      /\ r \in Seq(Requests) /\ Len(r) = m
      /\ \A i \in 1 .. m : r[i] = a[Len(a) - m + i]
  BY <1>1, <1>2, <1>4, NewestIs
<1>6. Len(r) <= MaxShapes /\ r \in Seq(Requests)
  BY <1>1, <1>4, <1>5
<1>7. ASSUME NEW o \in 1 .. Len(s), Len(w) = Len(s) - 1,
             \A i \in 1 .. Len(s) - 1 : w[i] = IF i < o THEN s[i] ELSE s[i + 1]
      PROVE  Replaces(s, o, q, r)
  <2>1. Len(a) = Len(s) /\ Len(r) = Len(s)
    BY <1>1, <1>4, <1>5, <1>7
  <2>2. \A i \in 1 .. Len(s) : r[i] = a[i]
    BY <1>1, <1>5, <2>1
  <2>3. ASSUME NEW i \in 1 .. Len(s)
        PROVE  r[i] = IF i = Len(s) THEN q ELSE IF i < o THEN s[i] ELSE s[i + 1]
    <3>1. CASE i = Len(s)
      BY <1>1, <1>4, <1>7, <2>2, <3>1
    <3>2. CASE i # Len(s)
      <4>1. i \in 1 .. Len(w) /\ i \in 1 .. Len(s) - 1
        BY <1>1, <1>7, <3>2
      <4> QED
        BY <1>4, <1>7, <2>2, <3>2, <4>1
    <3> QED
      BY <3>1, <3>2
  <2> QED
    BY <2>1, <2>3 DEF Replaces
<1>8. ASSUME w = s, Len(s) < MaxShapes PROVE Extends(s, q, r)
  <2>1. Len(a) = Len(s) + 1 /\ Len(r) = Len(s) + 1
    BY <1>1, <1>4, <1>5, <1>8
  <2>2. \A i \in 1 .. Len(s) + 1 : r[i] = a[i]
    BY <1>1, <1>5, <2>1
  <2> QED
    BY <1>1, <1>4, <1>8, <2>1, <2>2 DEF Extends
<1>9. ASSUME w = s, Len(s) = MaxShapes PROVE Replaces(s, 1, q, r)
  <2>1. Len(a) = Len(s) + 1 /\ Len(r) = Len(s)
    BY <1>1, <1>4, <1>5, <1>9
  <2>2. \A i \in 1 .. Len(s) : r[i] = a[i + 1]
    BY <1>1, <1>5, <1>9, <2>1
  <2>3. ASSUME NEW i \in 1 .. Len(s)
        PROVE  r[i] = IF i = Len(s) THEN q ELSE IF i < 1 THEN s[i] ELSE s[i + 1]
    <3>1. CASE i = Len(s)
      BY <1>1, <1>4, <1>9, <2>2, <3>1
    <3>2. CASE i # Len(s)
      <4>1. i + 1 \in 1 .. Len(w) /\ ~ (i < 1)
        BY <1>1, <1>9, <3>2
      <4> QED
        BY <1>4, <1>9, <2>2, <3>2, <4>1
    <3> QED
      BY <3>1, <3>2
  <2> QED
    BY <2>1, <2>3 DEF Replaces
<1>10. Len(s) < MaxShapes \/ Len(s) = MaxShapes
  BY <1>1
<1>11. CASE w = s /\ \A i \in 1 .. Len(s) : ShapeOf(s[i]) # ShapeOf(q)
  BY <1>6, <1>8, <1>9, <1>10, <1>11 DEF r
<1>12. CASE \E o \in 1 .. Len(s) :
              /\ ShapeOf(s[o]) = ShapeOf(q)
              /\ Len(w) = Len(s) - 1
              /\ \A i \in 1 .. Len(s) - 1 : w[i] = IF i < o THEN s[i] ELSE s[i + 1]
  BY <1>6, <1>7, <1>12 DEF r
<1> QED
  BY <1>3, <1>11, <1>12

(* One entry for each geometry, as before.                                 *)
LEMMA RememberDistinct ==
  ASSUME NEW s \in Seq(Requests), NEW q \in Requests, Len(s) <= MaxShapes, Distinct(s)
  PROVE  /\ Distinct(Remember(s, q)) /\ Len(Remember(s, q)) <= MaxShapes
         /\ \A i \in 1 .. Len(Remember(s, q)) :
              \/ file[q.prompt] # "none" /\ Remember(s, q)[i] = q
              \/ \E j \in 1 .. Len(s) : Remember(s, q)[i] = s[j]
<1> DEFINE r == Remember(s, q)
<1>1. CASE file[q.prompt] = "none"
  <2>1. r = s
    BY <1>1 DEF Remember
  <2> QED
    BY <2>1
<1>2. CASE file[q.prompt] # "none"
  <2>1. Len(r) <= MaxShapes /\ Len(s) \in Nat /\ r \in Seq(Requests)
    BY <1>2, RememberIs
  <2>2. CASE \E o \in 1 .. Len(s) : /\ \A i \in 1 .. Len(s) : i # o => ShapeOf(s[i]) # ShapeOf(q)
                                    /\ Replaces(s, o, q, r)
    <3>1. PICK o \in 1 .. Len(s) : /\ \A i \in 1 .. Len(s) : i # o => ShapeOf(s[i]) # ShapeOf(q)
                                   /\ Replaces(s, o, q, r)
      BY <2>2
    <3> HIDE DEF r
    <3> DEFINE from(i) == IF i < o THEN i ELSE i + 1
    <3>2. ASSUME NEW i \in 1 .. Len(r)
          PROVE  \/ i = Len(s) /\ r[i] = q
                 \/ i # Len(s) /\ from(i) \in 1 .. Len(s) /\ r[i] = s[from(i)] /\ from(i) # o
      BY <2>1, <3>1 DEF Replaces
    <3>3. ASSUME NEW i \in 1 .. Len(r), NEW j \in 1 .. Len(r), ShapeOf(r[i]) = ShapeOf(r[j])
          PROVE  i = j
      <4>1. CASE i = Len(s) \/ j = Len(s)
        BY <3>1, <3>2, <3>3, <4>1
      <4>2. CASE i # Len(s) /\ j # Len(s)
        <5>1. from(i) = from(j)
          BY <3>2, <3>3, <4>2 DEF Distinct
        <5> QED
          BY <5>1
      <4> QED
        BY <4>1, <4>2
    <3> HIDE DEF from
    <3> QED
      BY <1>2, <2>1, <3>2, <3>3 DEF Distinct, r
  <2>3. CASE Extends(s, q, r) /\ \A i \in 1 .. Len(s) : ShapeOf(s[i]) # ShapeOf(q)
    <3> HIDE DEF r
    <3>1. ASSUME NEW i \in 1 .. Len(r)
          PROVE  \/ i = Len(s) + 1 /\ r[i] = q
                 \/ i \in 1 .. Len(s) /\ r[i] = s[i]
      BY <2>1, <2>3 DEF Extends
    <3>2. ASSUME NEW i \in 1 .. Len(r), NEW j \in 1 .. Len(r), ShapeOf(r[i]) = ShapeOf(r[j])
          PROVE  i = j
      BY <2>3, <3>1, <3>2 DEF Distinct
    <3> QED
      BY <1>2, <2>1, <3>1, <3>2 DEF Distinct, r
  <2>4. CASE \E o \in 1 .. Len(s) : ShapeOf(s[o]) = ShapeOf(q) /\ Replaces(s, o, q, r)
    <3>1. PICK o \in 1 .. Len(s) : ShapeOf(s[o]) = ShapeOf(q) /\ Replaces(s, o, q, r)
      BY <2>4
    <3>2. \A i \in 1 .. Len(s) : i # o => ShapeOf(s[i]) # ShapeOf(q)
      BY <3>1 DEF Distinct
    <3> QED
      BY <2>2, <3>1, <3>2
  <2>5. CASE /\ \A i \in 1 .. Len(s) : ShapeOf(s[i]) # ShapeOf(q)
             /\ Len(s) = MaxShapes /\ Replaces(s, 1, q, r)
    <3>1. 1 \in 1 .. Len(s)
      BY <2>5, BudgetNat
    <3> QED
      BY <2>2, <2>5, <3>1
  <2> QED
    BY <1>2, <2>3, <2>4, <2>5, RememberIs
<1> QED
  BY <1>1, <1>2

(* What is kept stays so when one more of I is remembered, and when a      *)
(* request of its geometry is.                                             *)
LEMMA RememberKeeps ==
  ASSUME NEW s \in Seq(Requests), NEW q \in Requests, file[q.prompt] # "none",
         Len(s) <= MaxShapes, Distinct(s),
         \A i, j \in 1 .. Len(s) : Identity(s[i]) = Identity(s[j]) => ShapeOf(s[i]) = ShapeOf(s[j]),
         \A i \in 1 .. Len(s) : Identity(s[i]) = Identity(q) => ShapeOf(s[i]) = ShapeOf(q),
         NEW I, IsFiniteSet(I), Cardinality(I) < MaxShapes,
         NEW shape, \/ ShapeOf(q) = shape
                    \/ Keeps(s, shape, I) /\ Identity(q) \in I
  PROVE  Keeps(Remember(s, q), shape, I)
<1> DEFINE r == Remember(s, q)
<1>1. /\ r \in Seq(Requests) /\ Len(r) \in Nat /\ Len(s) \in Nat /\ MaxShapes \in Nat /\ MaxShapes >= 1
      /\ \/ \E o \in 1 .. Len(s) : ShapeOf(s[o]) = ShapeOf(q) /\ Replaces(s, o, q, r)
         \/ /\ \A i \in 1 .. Len(s) : ShapeOf(s[i]) # ShapeOf(q)
            /\ Len(s) = MaxShapes /\ Replaces(s, 1, q, r)
         \/ Extends(s, q, r)
  BY RememberIs, BudgetNat
<1> HIDE DEF r
<1>2. Len(r) \in 1 .. Len(r) /\ r[Len(r)] = q
  BY <1>1 DEF Replaces, Extends
<1>3. CASE ShapeOf(q) = shape
  <2>1. OnlyAfter(r, Len(r), I)
    BY <1>1 DEF OnlyAfter
  <2> QED
    BY <1>2, <1>3, <2>1 DEF Keeps, r
<1>4. CASE ShapeOf(q) # shape /\ Keeps(s, shape, I) /\ Identity(q) \in I
  <2>1. PICK p \in 1 .. Len(s) : ShapeOf(s[p]) = shape /\ OnlyAfter(s, p, I)
    BY <1>4 DEF Keeps
  <2>2. CASE \E o \in 1 .. Len(s) : o # p /\ Replaces(s, o, q, r)
    <3>1. PICK o \in 1 .. Len(s) : o # p /\ Replaces(s, o, q, r)
      BY <2>2
    <3> DEFINE k == IF p < o THEN p ELSE p - 1
    <3>2. k \in 1 .. Len(r) /\ k < Len(s) /\ k + 1 >= p
      BY <1>1, <3>1 DEF Replaces
    <3>3. r[k] = s[p]
      BY <1>1, <3>1, SMTT(30) DEF Replaces
    <3>4. ASSUME NEW j \in k + 1 .. Len(r) PROVE Identity(r[j]) \in I
      <4>1. CASE j = Len(s)
        BY <1>4, <3>1, <4>1 DEF Replaces
      <4>2. CASE j # Len(s)
        <5> DEFINE i == IF j < o THEN j ELSE j + 1
        <5>1. i \in p + 1 .. Len(s) /\ r[j] = s[i]
          BY <1>1, <3>1, <3>2, <4>2 DEF Replaces
        <5> QED
          BY <2>1, <5>1 DEF OnlyAfter
      <4> QED
        BY <4>1, <4>2
    <3> HIDE DEF k
    <3>5. OnlyAfter(r, k, I)
      BY <3>4 DEF OnlyAfter
    <3> QED
      BY <2>1, <3>2, <3>3, <3>5 DEF Keeps, r
  <2>3. CASE Extends(s, q, r)
    <3>1. p \in 1 .. Len(r) /\ r[p] = s[p]
      BY <1>1, <2>3 DEF Extends
    <3>2. ASSUME NEW j \in p + 1 .. Len(r) PROVE Identity(r[j]) \in I
      <4>1. CASE j = Len(s) + 1
        BY <1>4, <2>3, <4>1 DEF Extends
      <4>2. CASE j # Len(s) + 1
        <5>1. j \in p + 1 .. Len(s) /\ r[j] = s[j]
          BY <1>1, <2>3, <4>2 DEF Extends
        <5> QED
          BY <2>1, <5>1 DEF OnlyAfter
      <4> QED
        BY <4>1, <4>2
    <3>3. OnlyAfter(r, p, I)
      BY <3>2 DEF OnlyAfter
    <3> QED
      BY <2>1, <3>1, <3>3 DEF Keeps, r
(* The oldest entry is not this one: all newer ones, and q, are of I.      *)
  <2>4. CASE /\ \A i \in 1 .. Len(s) : ShapeOf(s[i]) # ShapeOf(q)
             /\ Len(s) = MaxShapes /\ p = 1
    <3> DEFINE t == [i \in 1 .. Len(s) |-> IF i = 1 THEN q ELSE s[i]]
    <3>1. t \in Seq(Requests) /\ Len(t) = Len(s)
      BY <1>1
    <3>2. \A i \in 1 .. Len(s) : t[i] = IF i = 1 THEN q ELSE s[i]
      OBVIOUS
    <3> HIDE DEF t
    <3>3. AllIn(t, I)
      <4> SUFFICES ASSUME NEW i \in 1 .. Len(t) PROVE Identity(t[i]) \in I
        BY DEF AllIn
      <4>1. CASE i = 1
        BY <1>4, <3>1, <3>2, <4>1
      <4>2. CASE i # 1
        <5>1. i \in p + 1 .. Len(s) /\ t[i] = s[i]
          BY <1>1, <2>4, <3>1, <3>2, <4>2
        <5> QED
          BY <2>1, <5>1 DEF OnlyAfter
      <4> QED
        BY <4>1, <4>2
    <3>4. ASSUME NEW i \in 1 .. Len(t), NEW j \in 1 .. Len(t), Identity(t[i]) = Identity(t[j])
          PROVE  i = j
      <4>1. CASE i # 1 /\ j # 1
        <5>1. t[i] = s[i] /\ t[j] = s[j] /\ i \in 1 .. Len(s) /\ j \in 1 .. Len(s)
          BY <3>1, <3>2, <4>1
        <5>2. ShapeOf(s[i]) = ShapeOf(s[j])
          BY <3>4, <5>1
        <5> QED
          BY <5>1, <5>2 DEF Distinct
      <4>2. CASE i = 1 /\ j # 1
        <5>1. t[i] = q /\ t[j] = s[j] /\ j \in 1 .. Len(s)
          BY <3>1, <3>2, <4>2
        <5>2. Identity(s[j]) = Identity(q)
          BY <3>4, <5>1
        <5> QED
          BY <2>4, <5>1, <5>2
      <4>3. CASE i # 1 /\ j = 1
        <5>1. t[j] = q /\ t[i] = s[i] /\ i \in 1 .. Len(s)
          BY <3>1, <3>2, <4>3
        <5>2. Identity(s[i]) = Identity(q)
          BY <3>4, <5>1
        <5> QED
          BY <2>4, <5>1, <5>2
      <4> QED
        BY <4>1, <4>2, <4>3
    <3>5. Len(t) <= Cardinality(I) /\ Cardinality(I) \in Nat
      BY <3>1, <3>3, <3>4, NoMoreThan, FS_CardinalityType
    <3> QED
      BY <1>1, <2>4, <3>1, <3>5
  <2>5. ASSUME NEW o \in 1 .. Len(s), ShapeOf(s[o]) = ShapeOf(q) PROVE o # p
    BY <1>4, <2>1, <2>5
  <2>6. 1 \in 1 .. Len(s)
    BY <1>1, <2>1
  <2> QED
    BY <1>1, <2>2, <2>3, <2>4, <2>5, <2>6
<1> QED
  BY <1>3, <1>4

LEMMA InitWarm == Init => WarmInv
BY Constants DEF Init, WarmInv

(* No more geometries than requests.                                       *)
LEMMA ShapesOf ==
  ASSUME NEW s \in Seq(Requests)
  PROVE  /\ IsFiniteSet({ShapeOf(s[k]) : k \in 1 .. Len(s)})
         /\ Cardinality({ShapeOf(s[k]) : k \in 1 .. Len(s)}) <= Len(s)
<1> DEFINE S == 1 .. Len(s)
           T == {ShapeOf(s[k]) : k \in S}
           f == [k \in S |-> ShapeOf(s[k])]
<1>1. f \in Surjection(S, T)
  BY DEF Surjection
<1>2. IsFiniteSet(S) /\ Cardinality(S) = Len(s)
  <2>1. Len(s) \in Nat
    OBVIOUS
  <2> QED
    BY <2>1, FS_Interval, SMTT(30)
<1> HIDE DEF S, T, f
<1>3. IsFiniteSet(T) /\ Cardinality(T) <= Len(s)
  BY <1>1, <1>2, FS_Surjection
<1> QED
  BY <1>3 DEF S, T

LEMMA ToDoFinite ==
  ASSUME Types, BudgetInv
  PROVE  IsFiniteSet(compiled \union ToDo)
<1> DEFINE f == [k \in 1 .. Len(todo) |-> ShapeOf(todo[k].req)]
<1>1. Len(todo) \in Nat /\ DOMAIN todo = 1 .. Len(todo)
  BY DEF Types
<1>2. f \in Surjection(1 .. Len(todo), ToDo)
  BY <1>1 DEF Surjection, ToDo
<1>3. IsFiniteSet(1 .. Len(todo))
  BY <1>1, FS_Interval
<1> HIDE DEF f
<1>4. IsFiniteSet(ToDo)
  BY <1>2, <1>3, FS_Surjection
<1> QED
  BY <1>4, FS_Union DEF BudgetInv

(* A start gives up no geometry it has compiled.                           *)
LEMMA NoRotation ==
  ASSUME Types, BudgetInv, FileInv, WarmInv, Denoise, phase = "starting"
  PROVE  ShapeOf(Current) \in ToDo /\ compiled' = compiled \union {ShapeOf(Current)}
<1> DEFINE shape == ShapeOf(Current)
<1>1. compiled = shapes /\ todo # <<>>
  BY Constants DEF Denoise, BudgetInv, Uncommitted, FileInv
<1>2. Current = todo[1].req /\ 1 \in DOMAIN todo
  BY <1>1, FirstRun DEF Types
<1>3. shape \in ToDo
  BY <1>2 DEF ToDo
<1>4. ~Rotates(shape)
  <2> SUFFICES ASSUME Rotates(shape) PROVE FALSE
    OBVIOUS
  <2>1. shape \notin compiled /\ Cardinality(compiled) >= MaxShapes
    BY <1>1 DEF Rotates
  <2>2. /\ IsFiniteSet(compiled \union {shape})
        /\ Cardinality(compiled \union {shape}) = Cardinality(compiled) + 1
    BY <2>1, FS_AddElement DEF BudgetInv
  <2>3. compiled \union {shape} \in SUBSET (compiled \union ToDo)
    BY <1>3
  <2>4. Cardinality(compiled \union {shape}) <= Cardinality(compiled \union ToDo)
    BY <2>3, ToDoFinite, FS_Subset
  <2>5. /\ Cardinality(compiled) \in Nat /\ Cardinality(compiled \union ToDo) \in Nat
        /\ Cardinality(compiled \union ToDo) <= MaxShapes
    BY ToDoFinite, FS_CardinalityType DEF BudgetInv, WarmInv
  <2> QED
    BY <2>1, <2>2, <2>4, <2>5, Constants
<1> QED
  BY <1>3, <1>4 DEF Denoise

(* The geometries at work fit: none is given up during a start, and the    *)
(* one a verification needs is compiled.                                   *)
LEMMA DenoiseWarm ==
  ASSUME Types, BudgetInv, FileInv, WarmInv, Denoise
  PROVE  WarmInv'
<1> DEFINE shape == ShapeOf(Current)
<1>1. /\ at[Main] = "denoise" /\ phase # "down" /\ compiled = shapes
      /\ todo # <<>> /\ phase' = phase /\ todo' = todo
  BY Constants DEF Denoise, Move, BudgetInv, Uncommitted, FileInv
<1>2. Current = todo[1].req /\ Mode = todo[1].mode /\ 1 \in DOMAIN todo
  BY <1>1, FirstRun DEF Types
<1>3. CASE phase = "ready"
  <2>1. Mode = "serve"
    BY <1>2, <1>3 DEF WarmInv
  <2>2. at' = AtAll("denoised") /\ at'[Main] = "denoised"
    BY <2>1, Constants DEF Denoise, Move
  <2>3. at' # AtAll("cold")
    BY <2>2, Constants
  <2> QED
    BY <1>1, <1>3, <2>3 DEF WarmInv
<1>4. CASE phase = "starting"
  <2>1. shape \in ToDo
    BY <1>4, NoRotation
  <2>3. compiled' = compiled \union {shape}
    BY <1>4, NoRotation
  <2>4. compiled' \union ToDo' = compiled \union ToDo
    BY <1>1, <2>1, <2>3 DEF ToDo
  <2>5. Mode = "verify" => shape \in compiled
    <3>1. Before(1) = {}
      BY DEF Before
    <3> QED
      BY <1>2, <1>4, <3>1 DEF WarmInv
  <2>6. at' = AtAll("denoised") /\ at'[Main] = "denoised"
    BY <2>5, Constants DEF Denoise, Move
  <2>7. at' # AtAll("cold")
    BY <2>6, Constants
  <2>8. \A k \in DOMAIN todo' : todo'[k].mode = "verify" =>
          ShapeOf(todo'[k].req) \in compiled' \union Before(k)'
    <3>1. \A k \in DOMAIN todo : todo[k].mode = "verify" =>
            ShapeOf(todo[k].req) \in compiled \union Before(k)
      BY <1>4 DEF WarmInv
    <3>2. \A k : Before(k)' = Before(k)
      BY <1>1 DEF Before
    <3> QED
      BY <1>1, <2>3, <3>1, <3>2 DEF ShapeOf
  <2>9. ASSUME NEW k \in DOMAIN todo', todo'[k].mode = "base"
        PROVE  todo' = <<Item(Base, "base", FALSE)>> /\ compiled' \subseteq {ShapeOf(Base)}
    <3>1. todo = <<Item(Base, "base", FALSE)>> /\ compiled \subseteq {ShapeOf(Base)}
      BY <1>1, <1>4, <2>9 DEF WarmInv
    <3>2. Current = Base
      BY <3>1 DEF Current, Item
    <3> QED
      BY <1>1, <2>3, <3>1, <3>2
  <2> QED
    BY <1>1, <1>4, <2>4, <2>7, <2>8, <2>9 DEF WarmInv
<1> QED
  BY <1>1, <1>3, <1>4 DEF Types

LEMMA PlanRun ==
  ASSUME NEW s \in Seq(Requests), NEW runs \in Seq(Items), Plan(s, runs), NEW k \in DOMAIN runs
  PROVE  LET n == Len(s) IN
         \/ k \in 1 .. n /\ runs[k].req = s[k] /\ runs[k].mode = "replay"
         \/ k = n + 1 /\ runs[k].req = Base /\ runs[k].mode = "verify"
         \/ k - n - 1 \in 1 .. n /\ runs[k].req = s[k - n - 1] /\ runs[k].mode = "verify"
<1> DEFINE n == Len(s)
<1>1. n \in Nat /\ Len(runs) \in Nat /\ DOMAIN runs = 1 .. Len(runs)
  BY DEF Plan
<1>2. /\ Len(runs) = n \/ Len(runs) = 2 * n + 1
      /\ \A j \in 1 .. n : runs[j].req = s[j] /\ runs[j].mode = "replay"
      /\ Len(runs) > n =>
           /\ runs[n + 1].req = Base /\ runs[n + 1].mode = "verify"
           /\ \A j \in 1 .. n : runs[n + 1 + j].req = s[j] /\ runs[n + 1 + j].mode = "verify"
  BY DEF Plan
<1> HIDE DEF n
<1>3. k \in Nat /\ k >= 1 /\ k <= Len(runs)
  BY <1>1
<1>4. ASSUME k <= n
      PROVE  k \in 1 .. n /\ runs[k].req = s[k] /\ runs[k].mode = "replay"
  <2>1. k \in 1 .. n
    BY <1>1, <1>3, <1>4
  <2> QED
    BY <1>2, <2>1, Zenon
<1>5. ASSUME k = n + 1
      PROVE  runs[k].req = Base /\ runs[k].mode = "verify"
  <2>1. Len(runs) > n
    BY <1>1, <1>3, <1>5
  <2> QED
    BY <1>2, <1>5, <2>1
<1>6. ASSUME k > n + 1
      PROVE  k - n - 1 \in 1 .. n /\ runs[k].req = s[k - n - 1] /\ runs[k].mode = "verify"
  <2>1. Len(runs) > n /\ Len(runs) = 2 * n + 1
    <3>1. Len(runs) # n
      <4> SUFFICES ASSUME Len(runs) = n PROVE FALSE
        OBVIOUS
      <4>1. k <= n /\ n \in Nat
        BY <1>1, <1>3
      <4> QED
        BY <1>3, <1>6, <4>1
    <3>2. Len(runs) = 2 * n + 1
      BY <1>2, <3>1, Zenon
    <3> QED
      BY <1>1, <3>2
  <2> DEFINE i == k - n - 1
  <2>2. i \in 1 .. n /\ n + 1 + i = k
    BY <1>1, <1>3, <1>6, <2>1
  <2> HIDE DEF i
  <2>3. runs[n + 1 + i].req = s[i] /\ runs[n + 1 + i].mode = "verify"
    BY <1>2, <2>1, <2>2, Zenon
  <2>4. i \in 1 .. n /\ runs[k].req = s[i] /\ runs[k].mode = "verify"
    BY <2>2, <2>3
  <2> QED
    BY <2>4 DEF i
<1>7. k <= n \/ k = n + 1 \/ k > n + 1
  BY <1>1, <1>3
<1>8. \/ k \in 1 .. n /\ runs[k].req = s[k] /\ runs[k].mode = "replay"
      \/ k = n + 1 /\ runs[k].req = Base /\ runs[k].mode = "verify"
      \/ k - n - 1 \in 1 .. n /\ runs[k].req = s[k - n - 1] /\ runs[k].mode = "verify"
  BY <1>4, <1>5, <1>6, <1>7
<1> QED
  BY <1>8 DEF n

(* When a start knows what it runs, all of it fits.                        *)
LEMMA PlanFits ==
  ASSUME NEW s \in Seq(Requests), NEW runs \in Seq(Items), Plan(s, runs),
         NEW base, base = ShapeOf(Base)
  PROVE  /\ Cardinality({base} \union {ShapeOf(runs[k].req) : k \in DOMAIN runs}) <= MaxShapes
         /\ \A k \in DOMAIN runs : runs[k].mode = "verify" =>
              \/ ShapeOf(runs[k].req) = base
              \/ ShapeOf(runs[k].req) \in {ShapeOf(runs[j].req) : j \in 1 .. k - 1}
         /\ \A k \in DOMAIN runs : runs[k].mode # "base"
<1> DEFINE n == Len(s)
           all == {ShapeOf(s[k]) : k \in 1 .. n}
           planned == {ShapeOf(runs[k].req) : k \in DOMAIN runs}
<1>1. n \in Nat /\ n <= MaxShapes - 1 /\ Len(runs) \in Nat /\ DOMAIN runs = 1 .. Len(runs)
  BY DEF Plan
<1>2. /\ Len(runs) = n \/ Len(runs) = 2 * n + 1
      /\ \A k \in 1 .. n : runs[k].req = s[k] /\ runs[k].mode = "replay"
      /\ Len(runs) > n =>
           /\ runs[n + 1].req = Base /\ runs[n + 1].mode = "verify"
           /\ \A k \in 1 .. n : runs[n + 1 + k].req = s[k] /\ runs[n + 1 + k].mode = "verify"
  BY DEF Plan
<1>3. IsFiniteSet(all) /\ Cardinality(all) <= n /\ Cardinality(all) \in Nat
  BY ShapesOf, FS_CardinalityType
<1> HIDE DEF n
<1>4. ASSUME NEW k \in DOMAIN runs
      PROVE  \/ k \in 1 .. n /\ runs[k].req = s[k] /\ runs[k].mode = "replay"
             \/ k = n + 1 /\ runs[k].req = Base /\ runs[k].mode = "verify"
             \/ /\ k - n - 1 \in 1 .. n /\ runs[k].req = s[k - n - 1] /\ runs[k].mode = "verify"
  BY PlanRun DEF n
<1>5. planned \subseteq all \union {base}
  <2> SUFFICES ASSUME NEW k \in DOMAIN runs
               PROVE  ShapeOf(runs[k].req) \in all \union {base}
    OBVIOUS
  <2> QED
    BY <1>4
<1>6. Cardinality({base} \union planned) <= MaxShapes
  <2> HIDE DEF all, planned
  <2>1. /\ IsFiniteSet(all \union {base})
        /\ Cardinality(all \union {base}) = IF base \in all THEN Cardinality(all) ELSE Cardinality(all) + 1
    BY <1>3, FS_AddElement
  <2>2. {base} \union planned \in SUBSET (all \union {base})
    BY <1>5
  <2>3. /\ Cardinality({base} \union planned) <= Cardinality(all \union {base})
        /\ Cardinality({base} \union planned) \in Nat
        /\ Cardinality(all \union {base}) \in Nat
    BY <2>1, <2>2, FS_Subset, FS_CardinalityType
  <2> QED
    BY <1>1, <1>3, <2>1, <2>3, Constants
<1>7. ASSUME NEW k \in DOMAIN runs, runs[k].mode = "verify"
      PROVE  \/ ShapeOf(runs[k].req) = base
             \/ ShapeOf(runs[k].req) \in {ShapeOf(runs[j].req) : j \in 1 .. k - 1}
  <2>1. CASE k = n + 1 /\ runs[k].req = Base
    BY <2>1
  <2>2. CASE k - n - 1 \in 1 .. n /\ runs[k].req = s[k - n - 1]
    <3> DEFINE i == k - n - 1
    <3>1. i \in 1 .. n /\ i \in 1 .. k - 1 /\ runs[k].req = s[i]
      BY <1>1, <2>2
    <3> HIDE DEF i
    <3>2. runs[i].req = s[i]
      BY <1>2, <3>1
    <3> QED
      BY <3>1, <3>2
  <2> QED
    BY <1>4, <1>7, <2>1, <2>2
<1>8. ASSUME NEW k \in DOMAIN runs PROVE runs[k].mode # "base"
  BY <1>4
<1> QED
  BY <1>6, <1>7, <1>8

LEMMA FinishWarm ==
  ASSUME Types, BudgetInv, FileInv, WarmInv, Finish
  PROVE  WarmInv'
<1>1. /\ at[Main] = "denoised" /\ phase # "down" /\ todo # <<>>
      /\ compiled = shapes \union {ShapeOf(Current)} /\ compiled' = compiled
      /\ phase' = phase /\ at'[Main] = "idle"
  BY Constants DEF Finish, BudgetInv, Uncommitted, FileInv
<1>2. at' # AtAll("cold")
  BY <1>1, Constants
<1>3. /\ Current = todo[1].req /\ Mode = todo[1].mode /\ Len(todo) \in Nat /\ Len(todo) >= 1
      /\ Tail(todo) \in Seq(Items) /\ Len(Tail(todo)) = Len(todo) - 1
      /\ \A k \in 1 .. Len(todo) - 1 : Tail(todo)[k] = todo[k + 1]
      /\ DOMAIN todo = 1 .. Len(todo) /\ DOMAIN Tail(todo) = 1 .. Len(todo) - 1
  BY <1>1, FirstRun DEF Types
<1>4. CASE phase = "ready"
  <2>1. Mode = "serve"
    BY <1>3, <1>4 DEF WarmInv
  <2>2. todo' = Tail(todo)
    BY <2>1 DEF Finish
  <2>3. \A k \in DOMAIN todo' : todo'[k].mode = "serve"
    BY <1>3, <1>4, <2>2 DEF WarmInv
  <2> QED
    BY <1>1, <1>2, <1>4, <2>3 DEF WarmInv
<1>5. CASE phase = "starting" /\ Mode = "base"
  <2>1. todo = <<Item(Base, "base", FALSE)>> /\ compiled \subseteq {ShapeOf(Base)}
    <3>1. \E k \in DOMAIN todo : todo[k].mode = "base"
      <4>1. 1 \in DOMAIN todo /\ todo[1].mode = "base"
        BY <1>3, <1>5
      <4> QED
        BY <4>1, Zenon
    <3> QED
      BY <1>5, <3>1 DEF WarmInv
  <2>2. Current = Base
    BY <2>1 DEF Current, Item
  <2>3. compiled' = {ShapeOf(Base)}
    BY <1>1, <2>1, <2>2
  <2>4. todo' = StartRuns
    BY <1>5 DEF Finish
  <2>5. StartRuns \in Seq(Items)
    BY StartRunsAre
  <2>6. PICK s \in Seq(Requests) : Plan(s, StartRuns)
    BY StartRunsAre
  <2>7. /\ Cardinality(compiled' \union {ShapeOf(StartRuns[k].req) : k \in DOMAIN StartRuns}) <= MaxShapes
        /\ \A k \in DOMAIN StartRuns : StartRuns[k].mode = "verify" =>
             \/ ShapeOf(StartRuns[k].req) = ShapeOf(Base)
             \/ ShapeOf(StartRuns[k].req) \in {ShapeOf(StartRuns[j].req) : j \in 1 .. k - 1}
        /\ \A k \in DOMAIN StartRuns : StartRuns[k].mode # "base"
    BY <2>3, <2>5, <2>6, PlanFits
  <2>8. ToDo' = {ShapeOf(StartRuns[k].req) : k \in DOMAIN StartRuns}
    BY <2>4 DEF ToDo, ShapeOf
  <2>9. \A k : Before(k)' = {ShapeOf(StartRuns[j].req) : j \in 1 .. k - 1}
    BY <2>4 DEF Before, ShapeOf
  <2>10. \A k \in DOMAIN todo' : todo'[k].mode = "verify" =>
           ShapeOf(todo'[k].req) \in compiled' \union Before(k)'
    BY <2>3, <2>4, <2>7, <2>9
  <2>11. \A k \in DOMAIN todo' : todo'[k].mode # "base"
    BY <2>4, <2>7
  <2> QED
    BY <1>1, <1>2, <1>5, <2>7, <2>8, <2>10, <2>11 DEF WarmInv
<1>6. CASE phase = "starting" /\ Mode # "base"
  <2>1. todo' = Tail(todo)
    BY <1>6 DEF Finish
  <2>2. ASSUME NEW k \in DOMAIN todo'
        PROVE  k \in 1 .. Len(todo) - 1 /\ k + 1 \in DOMAIN todo /\ todo'[k] = todo[k + 1]
    BY <1>3, <2>1
  <2>3. compiled' \union ToDo' \in SUBSET (compiled \union ToDo)
    BY <1>1, <2>2 DEF ToDo, ShapeOf
  <2>4. Cardinality(compiled' \union ToDo') <= MaxShapes
    <3>1. /\ Cardinality(compiled' \union ToDo') <= Cardinality(compiled \union ToDo)
          /\ Cardinality(compiled' \union ToDo') \in Nat /\ Cardinality(compiled \union ToDo) \in Nat
      BY <2>3, ToDoFinite, FS_Subset, FS_CardinalityType
    <3> QED
      BY <1>6, <3>1, Constants DEF WarmInv
  <2>5. ASSUME NEW k \in DOMAIN todo', todo'[k].mode = "verify"
        PROVE  ShapeOf(todo'[k].req) \in compiled' \union Before(k)'
    <3>1. ShapeOf(todo[k + 1].req) \in compiled \union Before(k + 1)
      BY <1>6, <2>2, <2>5 DEF WarmInv
    <3>2. ShapeOf(todo'[k].req) = ShapeOf(todo[k + 1].req)
      BY <2>2 DEF ShapeOf
    <3>3. ASSUME NEW j \in 1 .. k, ShapeOf(todo[j].req) = ShapeOf(todo[k + 1].req)
          PROVE  ShapeOf(todo'[k].req) \in compiled' \union Before(k)'
      <4>1. CASE j = 1
        BY <1>1, <1>3, <3>2, <3>3, <4>1
      <4>2. CASE j > 1
        <5>1. j - 1 \in 1 .. k - 1 /\ j - 1 \in 1 .. Len(todo) - 1 /\ (j - 1) + 1 = j
          BY <1>3, <2>2, <4>2
        <5>2. todo'[j - 1] = todo[j]
          BY <1>3, <2>1, <5>1
        <5>3. ShapeOf(todo'[j - 1].req) = ShapeOf(todo[j].req)
          BY <5>2 DEF ShapeOf
        <5> QED
          BY <3>2, <3>3, <5>1, <5>3 DEF Before
      <4> QED
        BY <2>2, <4>1, <4>2
    <3>4. CASE ShapeOf(todo[k + 1].req) \in compiled
      BY <1>1, <3>2, <3>4
    <3>5. CASE ShapeOf(todo[k + 1].req) \in Before(k + 1)
      <4>1. (k + 1) - 1 = k
        BY <2>2
      <4> QED
        BY <3>3, <3>5, <4>1 DEF Before
    <3> QED
      BY <3>1, <3>4, <3>5
  <2>6. ASSUME NEW k \in DOMAIN todo', todo'[k].mode = "base" PROVE FALSE
    <3>1. k + 1 \in DOMAIN todo /\ todo[k + 1].mode = "base" /\ k + 1 >= 2
      BY <2>2, <2>6
    <3>2. todo = <<Item(Base, "base", FALSE)>>
      BY <1>6, <3>1 DEF WarmInv
    <3>3. Len(todo) = 1
      BY <3>2
    <3> QED
      BY <1>3, <3>1, <3>3
  <2> QED
    BY <1>1, <1>2, <1>6, <2>4, <2>5, <2>6 DEF WarmInv
<1> QED
  BY <1>1, <1>4, <1>5, <1>6 DEF Types

LEMMA WarmStep ==
  ASSUME Types, BudgetInv, FileInv, WarmInv, [Next]_wvars
  PROVE  WarmInv'
<1> Main \in Ranks
  BY Constants
<1>1. CASE Start
  <2>1. todo' = <<Item(Base, "base", FALSE)>> /\ compiled' = {} /\ phase' = "starting"
    BY <1>1 DEF Start, WarmInv
  <2>2. at'[Main] = "idle"
    BY <1>1 DEF Start
  <2>3. at' # AtAll("cold")
    BY <2>2
  <2>4. ToDo' = {ShapeOf(Base)}
    BY <2>1 DEF ToDo, Item
  <2>5. Cardinality(compiled' \union ToDo') <= MaxShapes
    <3>1. Cardinality({ShapeOf(Base)}) = 1 /\ compiled' \union ToDo' = {ShapeOf(Base)}
      BY <2>1, <2>4, FS_Singleton
    <3> QED
      BY <3>1, BudgetNat
  <2>6. \A k \in DOMAIN todo' : todo'[k].mode = "base"
    BY <2>1 DEF Item
  <2> QED
    BY <2>1, <2>3, <2>5, <2>6 DEF WarmInv
<1>2. CASE Down
  <2>1. phase' = "down" /\ todo' = <<>> /\ compiled' = {} /\ at'[Main] = "gone"
    BY <1>2 DEF Down
  <2>2. at' # AtAll("cold")
    BY <2>1
  <2> QED
    BY <2>1, <2>2 DEF WarmInv
<1>3. CASE Denoise
  BY <1>3, DenoiseWarm
<1>4. CASE Finish
  BY <1>4, FinishWarm
<1>5. ASSUME UNCHANGED <<phase, todo, compiled>>, at' # AtAll("cold") PROVE WarmInv'
  BY <1>5 DEF WarmInv, ToDo, Before
<1>6. CASE Meet \/ Encode \/ Publish
  <2>1. at'[Main] \in {"encode", "encoding", "load"}
    BY <1>6 DEF Meet, Encode, Publish, Move, BudgetInv
  <2>2. at' # AtAll("cold")
    BY <2>1
  <2>3. UNCHANGED <<phase, todo, compiled>>
    BY <1>6 DEF Meet, Encode, Publish, Move
  <2> QED
    BY <1>5, <2>2, <2>3
<1>7. ASSUME NEW r \in Ranks, Check(r) \/ Load(r), ~Down PROVE WarmInv'
  <2>1. at'[r] \in {"checked", "denoise"}
    BY <1>7 DEF Check, Load, Move, BudgetInv
  <2>2. at' # AtAll("cold")
    BY <2>1
  <2>3. UNCHANGED <<phase, todo, compiled>>
    BY <1>7 DEF Check, Load, Move
  <2> QED
    BY <1>5, <2>2, <2>3
<1>8. ASSUME NEW p \in Prompts, Lose(p) PROVE WarmInv'
  BY <1>5, <1>8 DEF Lose, WarmInv
<1>9. CASE Ready
  <2>1. phase' = "ready" /\ todo' = <<>> /\ at' = at
    BY <1>9 DEF Ready
  <2> QED
    BY <2>1 DEF WarmInv
<1>10. ASSUME NEW q \in Wanted, Serve(q) PROVE WarmInv'
  <2>1. /\ phase' = "ready" /\ todo' = <<Item(q, "serve", FALSE)>> /\ at' = at
    BY <1>10 DEF Serve
  <2>2. \A k \in DOMAIN todo' : todo'[k].mode = "serve"
    BY <2>1 DEF Item
  <2> QED
    BY <2>1, <2>2 DEF WarmInv
<1>11. CASE UNCHANGED wvars
  BY <1>5, <1>11 DEF wvars, WarmInv
<1> QED
  BY <1>1, <1>2, <1>3, <1>4, <1>6, <1>7, <1>8, <1>9, <1>10, <1>11 DEF Next, Crash

WarmStartInv == Types /\ BudgetInv /\ FileInv /\ WarmInv

LEMMA WarmStartInvHolds == Spec => []WarmStartInv
<1>1. Init => WarmStartInv
  BY InitTypes, InitBudget, InitFile, InitWarm DEF WarmStartInv
<1>2. WarmStartInv /\ [Next]_wvars => WarmStartInv'
  BY TypesStep, BudgetStep, FileStep, WarmStep DEF WarmStartInv
<1> QED
  BY <1>1, <1>2, PTL DEF Spec

(* However an encoding, a crash and the ranks interleave, the cache that a *)
(* rank loads is complete, or someone has removed it.                      *)
THEOREM LoadsAreWhole == Spec => []LoadsWhole
<1>1. WarmStartInv => LoadsWhole
  <2> SUFFICES ASSUME WarmStartInv, NEW r \in Ranks, at[r] = "load"
               PROVE  \/ file[Current.prompt] = "whole"
                      \/ file[Current.prompt] = "none" /\ lost > 0
    BY DEF LoadsWhole
  <2>1. todo # <<>> /\ Here
    BY DEF WarmStartInv, FileInv
  <2>2. Current.prompt \in Prompts
    BY <2>1, FirstRun DEF WarmStartInv
  <2>3. file[Current.prompt] \in {"none", "whole"} /\ lost \in Nat
    BY <2>2 DEF WarmStartInv, Types
  <2> QED
    BY <2>1, <2>3 DEF Here
<1> QED
  BY <1>1, WarmStartInvHolds, PTL

(* For every accepted number of recent requests, and whatever a history    *)
(* and the jobs hold: what a start verifies, it has compiled and kept.     *)
THEOREM NoColdVerification == Spec => []VerificationIsHot
<1>1. WarmStartInv => VerificationIsHot
  BY DEF WarmStartInv, WarmInv, VerificationIsHot
<1> QED
  BY <1>1, WarmStartInvHolds, PTL

-----------------------------------------------------------------------------
(* The last requests are warm.  For each of them an entry of its geometry  *)
(* is in the history, or among the runs that a start has still to make,    *)
(* and nothing newer than that entry but what users asked for later.       *)

Agree(K) == \A p, q \in K : Identity(p) = Identity(q) => p.options = q.options

Known == {served[k] : k \in DOMAIN served} \union Range(Durations) \union {Base}

(* Identities of the requests after the k-th.                              *)
Later(s, k) == {Identity(s[j]) : j \in k + 1 .. Len(s)}

Requested(runs) == [k \in 1 .. Len(runs) |-> runs[k].req]

LEMMA SameShape ==
  ASSUME NEW K, Agree(K), NEW p \in K, NEW q \in K, Identity(p) = Identity(q)
  PROVE  ShapeOf(p) = ShapeOf(q)
<1>1. p.options = q.options
  BY DEF Agree
<1> QED
  BY <1>1 DEF Identity, ShapeOf

LEMMA LaterFinite ==
  ASSUME NEW s \in Seq(Requests), NEW k \in Nat
  PROVE  IsFiniteSet(Later(s, k))
<1> DEFINE S == k + 1 .. Len(s)
           f == [j \in S |-> Identity(s[j])]
<1>1. f \in Surjection(S, Later(s, k))
  BY DEF Surjection, Later
<1>2. IsFiniteSet(S)
  <2>1. Len(s) \in Int /\ k + 1 \in Int
    OBVIOUS
  <2> QED
    BY <2>1, FS_Interval
<1> HIDE DEF S, f
<1> QED
  BY <1>1, <1>2, FS_Surjection

(* One more request is later than all before it.                           *)
LEMMA OneLater ==
  ASSUME NEW s \in Seq(Requests), NEW q \in Requests, NEW k \in 1 .. Len(s)
  PROVE  Later(s, k) \subseteq Later(Append(s, q), k) /\ Identity(q) \in Later(Append(s, q), k)
<1> DEFINE a == Append(s, q)
<1>1. /\ Len(s) \in Nat /\ Len(a) = Len(s) + 1 /\ a[Len(s) + 1] = q
      /\ \A j \in 1 .. Len(s) : a[j] = s[j]
  OBVIOUS
<1> HIDE DEF a
<1>2. ASSUME NEW j \in k + 1 .. Len(s) PROVE Identity(s[j]) \in Later(a, k)
  <2>1. j \in 1 .. Len(s) /\ j \in k + 1 .. Len(a)
    BY <1>1
  <2>2. a[j] = s[j]
    BY <1>1, <2>1
  <2> QED
    BY <2>1, <2>2 DEF Later
<1>3. Identity(q) \in Later(a, k)
  <2>1. Len(s) + 1 \in k + 1 .. Len(a)
    BY <1>1
  <2> QED
    BY <1>1, <2>1 DEF Later
<1> QED
  BY <1>2, <1>3 DEF Later, a

LEMMA KeepsMore ==
  ASSUME NEW s, NEW shape, NEW I, NEW J, I \subseteq J, Keeps(s, shape, I)
  PROVE  Keeps(s, shape, J)
BY DEF Keeps, OnlyAfter

LEMMA RequestedIs ==
  ASSUME NEW t \in Seq(Items)
  PROVE  /\ Requested(t) \in Seq(Requests) /\ Len(Requested(t)) = Len(t) /\ Len(t) \in Nat
         /\ \A k \in 1 .. Len(t) : Requested(t)[k] = t[k].req
<1>1. Len(t) \in Nat /\ \A k \in 1 .. Len(t) : t[k] \in Items
  OBVIOUS
<1>2. \A k \in 1 .. Len(t) : t[k].req \in Requests
  BY <1>1 DEF Items
<1> QED
  BY <1>1, <1>2 DEF Requested

(* The first run is done: it was the entry, or the entry is still to come. *)
LEMMA TailKeeps ==
  ASSUME NEW t \in Seq(Items), t # <<>>, NEW shape, NEW I
  PROVE  /\ AllIn(Requested(t), I) => Identity(t[1].req) \in I /\ AllIn(Requested(Tail(t)), I)
         /\ Keeps(Requested(t), shape, I) =>
              \/ Keeps(Requested(Tail(t)), shape, I)
              \/ ShapeOf(t[1].req) = shape /\ AllIn(Requested(Tail(t)), I)
<1> DEFINE u == Requested(t)
           v == Requested(Tail(t))
<1>1. /\ Len(t) \in Nat /\ Len(t) >= 1 /\ Tail(t) \in Seq(Items) /\ Len(Tail(t)) = Len(t) - 1
      /\ \A k \in 1 .. Len(t) - 1 : Tail(t)[k] = t[k + 1]
  OBVIOUS
<1>2. /\ Len(u) = Len(t) /\ u[1] = t[1].req /\ Len(v) = Len(t) - 1
      /\ \A k \in 1 .. Len(t) - 1 : v[k] = u[k + 1]
  <2>1. /\ Len(u) = Len(t) /\ \A k \in 1 .. Len(t) : u[k] = t[k].req
        /\ Len(v) = Len(Tail(t)) /\ \A k \in 1 .. Len(Tail(t)) : v[k] = Tail(t)[k].req
    BY <1>1, RequestedIs
  <2> HIDE DEF u, v
  <2> QED
    BY <1>1, <2>1
<1> HIDE DEF u, v
<1>3. ASSUME AllIn(u, I) PROVE Identity(t[1].req) \in I /\ AllIn(v, I)
  <2>1. 1 \in 1 .. Len(u) /\ \A k \in 1 .. Len(v) : k + 1 \in 1 .. Len(u) /\ v[k] = u[k + 1]
    BY <1>1, <1>2
  <2> QED
    BY <1>2, <1>3, <2>1 DEF AllIn
<1>4. ASSUME Keeps(u, shape, I)
      PROVE  Keeps(v, shape, I) \/ (ShapeOf(t[1].req) = shape /\ AllIn(v, I))
  <2>1. PICK p \in 1 .. Len(u) : ShapeOf(u[p]) = shape /\ OnlyAfter(u, p, I)
    BY <1>4 DEF Keeps
  <2>2. CASE p = 1
    <3>1. \A k \in 1 .. Len(v) : k + 1 \in 1 + 1 .. Len(u) /\ v[k] = u[k + 1]
      BY <1>1, <1>2
    <3> QED
      BY <1>2, <2>1, <2>2, <3>1 DEF AllIn, OnlyAfter
  <2>3. CASE p > 1
    <3>1. p - 1 \in 1 .. Len(v) /\ v[p - 1] = u[p]
      BY <1>1, <1>2, <2>3
    <3>2. \A k \in (p - 1) + 1 .. Len(v) : k + 1 \in p + 1 .. Len(u) /\ v[k] = u[k + 1]
      BY <1>1, <1>2, <2>3
    <3>3. OnlyAfter(v, p - 1, I)
      BY <2>1, <3>2 DEF OnlyAfter
    <3>4. ShapeOf(v[p - 1]) = shape
      BY <2>1, <3>1
    <3>5. Keeps(v, shape, I)
      BY <3>1, <3>3, <3>4, Zenon DEF Keeps
    <3> QED
      BY <3>5
  <2> QED
    BY <1>1, <1>2, <2>2, <2>3
<1> QED
  BY <1>3, <1>4 DEF u, v

(* A history that fits is read as it is.                                   *)
LEMMA NewestAll ==
  ASSUME NEW s \in Seq(Requests), NEW n \in Nat, Len(s) <= n
  PROVE  Newest(s, n) = s
<1> DEFINE m == IF Len(s) < n THEN Len(s) ELSE n
           r == Newest(s, n)
<1>1. Len(s) \in Nat /\ m = Len(s)
  OBVIOUS
<1>2. r \in Seq(Requests) /\ Len(r) = m /\ \A i \in 1 .. m : r[i] = s[Len(s) - m + i]
  BY NewestIs
<1> HIDE DEF m, r
<1>3. Len(s) = Len(r) /\ \A i \in 1 .. Len(s) : r[i] = s[i]
  BY <1>1, <1>2
<1> QED
  BY <1>2, <1>3, SeqEqual DEF r

(* A start runs requests that are known, and the selected ones in order.   *)
LEMMA StartKnown ==
  ASSUME Types, NEW K, Base \in K, Range(Durations) \subseteq K,
         \A j \in DOMAIN jobs : jobs[j] \in K, \A j \in DOMAIN history : history[j] \in K
  PROVE  /\ \A i \in 1 .. Len(Select(jobs \o history, recent)) : Select(jobs \o history, recent)[i] \in K
         /\ \A k \in DOMAIN StartRuns :
              StartRuns[k].req \in K /\ StartRuns[k].mode \in {"replay", "verify"}
<1> DEFINE last == Select(jobs \o history, recent)
           s == Durations \o last
<1>1. jobs \o history \in Seq(Requests) /\ recent \in Nat
  BY Constants DEF Types
<1>2. ASSUME NEW i \in 1 .. Len(jobs \o history) PROVE (jobs \o history)[i] \in K
  <2>1. /\ jobs \in Seq(Requests) /\ history \in Seq(Requests)
        /\ Len(jobs \o history) = Len(jobs) + Len(history) /\ Len(jobs) \in Nat /\ Len(history) \in Nat
        /\ (jobs \o history)[i] = IF i <= Len(jobs) THEN jobs[i] ELSE history[i - Len(jobs)]
    BY ConcatProperties DEF Types
  <2>2. CASE i <= Len(jobs)
    <3>1. i \in DOMAIN jobs
      BY <2>1, <2>2
    <3> QED
      BY <2>1, <2>2, <3>1
  <2>3. CASE ~ (i <= Len(jobs))
    <3>1. i - Len(jobs) \in DOMAIN history
      BY <2>1, <2>3
    <3> QED
      BY <2>1, <2>3, <3>1
  <2> QED
    BY <2>2, <2>3
<1>3. ASSUME NEW i \in 1 .. Len(last) PROVE last[i] \in K
  <2>1. PICK j \in 1 .. Len(jobs \o history) : last[i] = (jobs \o history)[j]
    BY <1>1, SelectFrom
  <2> QED
    BY <1>2, <2>1
<1>4. last \in Seq(Requests) /\ s \in Seq(Requests) /\ StartRuns \in Seq(Items) /\ Plan(s, StartRuns)
  BY StartRunsAre
<1> HIDE DEF last
<1>5. ASSUME NEW i \in 1 .. Len(s) PROVE s[i] \in K
  <2>1. /\ Len(s) = Len(Durations) + Len(last) /\ Len(Durations) \in Nat /\ Len(last) \in Nat
        /\ s[i] = IF i <= Len(Durations) THEN Durations[i] ELSE last[i - Len(Durations)]
    BY <1>4, ConcatProperties, Constants
  <2>2. CASE i <= Len(Durations)
    <3>1. i \in DOMAIN Durations
      BY <2>1, <2>2, Constants
    <3> QED
      BY <2>1, <2>2, <3>1 DEF Range
  <2>3. CASE ~ (i <= Len(Durations))
    <3>1. i - Len(Durations) \in 1 .. Len(last)
      BY <2>1, <2>3
    <3> QED
      BY <1>3, <2>1, <2>3, <3>1
  <2> QED
    BY <2>2, <2>3
<1> HIDE DEF s
<1>6. ASSUME NEW k \in DOMAIN StartRuns
      PROVE  StartRuns[k].req \in K /\ StartRuns[k].mode \in {"replay", "verify"}
  <2> DEFINE n == Len(s)
  <2>1. \/ k \in 1 .. n /\ StartRuns[k].req = s[k] /\ StartRuns[k].mode = "replay"
        \/ k = n + 1 /\ StartRuns[k].req = Base /\ StartRuns[k].mode = "verify"
        \/ k - n - 1 \in 1 .. n /\ StartRuns[k].req = s[k - n - 1] /\ StartRuns[k].mode = "verify"
    BY <1>4, PlanRun
  <2> QED
    BY <1>5, <2>1
<1> QED
  BY <1>3, <1>6 DEF last

LEMMA LastRuns ==
  ASSUME Types
  PROVE  LET last == Select(jobs \o history, recent) IN
         \E d \in Nat : /\ Len(StartRuns) = d + Len(last)
                        /\ \A i \in 1 .. Len(last) : StartRuns[d + i].req = last[i]
<1> DEFINE last == Select(jobs \o history, recent)
           s == Durations \o last
           m == Len(Durations)
<1>1. last \in Seq(Requests) /\ s \in Seq(Requests) /\ StartRuns \in Seq(Items) /\ Plan(s, StartRuns)
  BY StartRunsAre
<1> HIDE DEF last
<1>2. /\ m \in Nat /\ Len(last) \in Nat /\ Len(s) = m + Len(last)
      /\ \A i \in 1 .. m + Len(last) : s[i] = IF i <= m THEN Durations[i] ELSE last[i - m]
  BY <1>1, ConcatProperties, Constants
<1> HIDE DEF s, m
<1>3. ASSUME NEW i \in 1 .. Len(last) PROVE m + i \in 1 .. Len(s) /\ s[m + i] = last[i]
  <2>1. m + i \in 1 .. m + Len(last) /\ ~ (m + i <= m) /\ (m + i) - m = i
    BY <1>2
  <2> QED
    BY <1>2, <2>1
<1> DEFINE Found(d) == /\ Len(StartRuns) = d + Len(last)
                       /\ \A i \in 1 .. Len(last) : StartRuns[d + i].req = last[i]
<1>4. CASE Len(StartRuns) = Len(s)
  <2>1. Found(m)
    BY <1>1, <1>2, <1>3, <1>4 DEF Plan
  <2> QED
    BY <1>2, <2>1 DEF last
<1>5. CASE Len(StartRuns) = 2 * Len(s) + 1
  <2> DEFINE d == Len(s) + 1 + m
  <2>1. d \in Nat /\ Len(StartRuns) = d + Len(last) /\ Len(StartRuns) > Len(s)
    BY <1>2, <1>5
  <2>2. ASSUME NEW i \in 1 .. Len(last) PROVE StartRuns[d + i].req = last[i]
    <3>1. d + i = Len(s) + 1 + (m + i) /\ m + i \in 1 .. Len(s) /\ s[m + i] = last[i]
      BY <1>2, <1>3
    <3>2. StartRuns[Len(s) + 1 + (m + i)].req = s[m + i]
      BY <1>1, <2>1, <3>1 DEF Plan
    <3> QED
      BY <3>1, <3>2
  <2> HIDE DEF d
  <2>3. Found(d)
    BY <2>1, <2>2
  <2> QED
    BY <2>1, <2>3 DEF last
<1> QED
  BY <1>1, <1>4, <1>5 DEF Plan

(* What the history keeps, a start runs: as entry or as another request of *)
(* its identity, in either case in its geometry.                           *)
LEMMA StartKeeps ==
  ASSUME Types, NEW K, Agree(K), Base \in K, Range(Durations) \subseteq K,
         \A j \in DOMAIN jobs : jobs[j] \in K, \A j \in DOMAIN history : history[j] \in K,
         \A j \in DOMAIN history : file[history[j].prompt] # "none",
         NEW I, IsFiniteSet(I), Cardinality(I) < recent, NEW shape, Keeps(history, shape, I)
  PROVE  Keeps(Requested(StartRuns), shape, I)
<1> DEFINE last == Select(jobs \o history, recent)
           c == jobs \o history
           t == Requested(StartRuns)
<1>1. PICK h \in 1 .. Len(history) : ShapeOf(history[h]) = shape /\ OnlyAfter(history, h, I)
  BY DEF Keeps
<1> DEFINE p == Len(jobs) + h
<1>2. /\ c \in Seq(Requests) /\ recent \in Nat /\ Len(jobs) \in Nat /\ Len(history) \in Nat
      /\ Len(c) = Len(jobs) + Len(history)
      /\ \A i \in 1 .. Len(jobs) + Len(history) :
           c[i] = IF i <= Len(jobs) THEN jobs[i] ELSE history[i - Len(jobs)]
  BY ConcatProperties, Constants DEF Types
<1>3. h \in DOMAIN history
  BY DEF Types
<1> HIDE DEF c
<1>4. ASSUME NEW i \in h .. Len(history) PROVE c[Len(jobs) + i] = history[i]
  <2>1. /\ Len(jobs) + i \in 1 .. Len(jobs) + Len(history) /\ ~ (Len(jobs) + i <= Len(jobs))
        /\ (Len(jobs) + i) - Len(jobs) = i
    BY <1>2
  <2> QED
    BY <1>2, <2>1
<1>5. p \in 1 .. Len(c) /\ c[p] = history[h] /\ file[c[p].prompt] # "none"
  BY <1>2, <1>3, <1>4
<1>6. OnlyAfter(c, p, I)
  <2> SUFFICES ASSUME NEW j \in p + 1 .. Len(c) PROVE Identity(c[j]) \in I
    BY DEF OnlyAfter
  <2>1. /\ j - Len(jobs) \in h + 1 .. Len(history) /\ j - Len(jobs) \in h .. Len(history)
        /\ Len(jobs) + (j - Len(jobs)) = j
    BY <1>2
  <2>2. c[j] = history[j - Len(jobs)]
    BY <1>4, <2>1
  <2> QED
    BY <1>1, <2>1, <2>2 DEF OnlyAfter
<1>7. PICK i \in 1 .. Len(Select(c, recent)) : /\ Identity(Select(c, recent)[i]) = Identity(c[p])
                                               /\ OnlyAfter(Select(c, recent), i, I)
  <2> HIDE DEF p
  <2> QED
    BY <1>2, <1>5, <1>6, SelectKeeps
<1>8. last = Select(c, recent)
  BY DEF c
<1>9. last[i] \in K /\ last \in Seq(Requests) /\ StartRuns \in Seq(Items)
  BY <1>7, <1>8, StartKnown, StartRunsAre
<1>10. PICK d \in Nat : /\ Len(StartRuns) = d + Len(last)
                        /\ \A j \in 1 .. Len(last) : StartRuns[d + j].req = last[j]
  BY LastRuns
<1> HIDE DEF last, p
<1>11. ShapeOf(last[i]) = shape
  <2>1. history[h] \in K
    BY <1>3
  <2>2. Identity(last[i]) = Identity(history[h])
    BY <1>5, <1>7, <1>8
  <2> QED
    BY <1>1, <1>9, <2>1, <2>2, SameShape
<1>12. Len(t) = d + Len(last) /\ \A j \in 1 .. Len(last) : t[d + j] = last[j]
  <2>1. Len(last) \in Nat /\ \A j \in 1 .. Len(last) : d + j \in 1 .. Len(StartRuns)
    BY <1>9, <1>10
  <2> QED
    BY <1>9, <1>10, <2>1, RequestedIs
<1> HIDE DEF t
<1>13. d + i \in 1 .. Len(t) /\ ShapeOf(t[d + i]) = shape
  BY <1>7, <1>8, <1>9, <1>11, <1>12
<1>14. OnlyAfter(t, d + i, I)
  <2> SUFFICES ASSUME NEW j \in (d + i) + 1 .. Len(t) PROVE Identity(t[j]) \in I
    BY DEF OnlyAfter
  <2>1. j - d \in i + 1 .. Len(last) /\ j - d \in 1 .. Len(last) /\ d + (j - d) = j
    BY <1>7, <1>8, <1>9, <1>12
  <2>2. t[j] = last[j - d]
    BY <1>12, <2>1
  <2> QED
    BY <1>7, <1>8, <2>1, <2>2 DEF OnlyAfter
<1> QED
  BY <1>13, <1>14, Zenon DEF Keeps, t

(* Where the requests of histories, jobs and starts come from, and what is *)
(* on disk for them.                                                       *)
HistoryInv ==
  /\ served \in Seq(Requests)
  /\ Len(history) <= MaxShapes /\ Distinct(history)
  /\ \A k \in DOMAIN history :
       history[k] \in Known /\ (lost = 0 => file[history[k].prompt] = "whole")
  /\ \A k \in DOMAIN jobs : jobs[k] \in Known
  /\ phase = "starting" => \A k \in DOMAIN todo : todo[k].req \in Known /\ todo[k].mode # "serve"
  /\ \A r \in Ranks : at[r] \in {"denoise", "denoised"} => Here

(* A start has its base warm-up behind it, and its runs decided.           *)
Based == phase = "starting" /\ \A k \in DOMAIN todo : todo[k].mode # "base"

Kept(shape, I) ==
  IF Based
    THEN /\ shape \in compiled \union ToDo
         /\ \/ Keeps(Requested(todo), shape, I)
            \/ Keeps(history, shape, I) /\ AllIn(Requested(todo), I)
    ELSE Keeps(history, shape, I)

RecentInv ==
  lost = 0 /\ ~cut /\ Agree(Known) =>
    \A k \in 1 .. Len(served) :
      Cardinality(Later(served, k)) < recent => Kept(ShapeOf(served[k]), Later(served, k))

LEMMA InitHistory == Init => HistoryInv /\ RecentInv
<1> SUFFICES ASSUME Init PROVE HistoryInv /\ RecentInv
  OBVIOUS
<1>1. /\ history = <<>> /\ jobs = <<>> /\ served = <<>> /\ phase = "down"
      /\ \A r \in Ranks : at[r] = "gone"
  BY DEF Init
<1>2. HistoryInv
  <2>1. Distinct(history) /\ Len(history) <= MaxShapes
    BY <1>1, BudgetNat DEF Distinct
  <2> QED
    BY <1>1, <2>1 DEF HistoryInv
<1>3. RecentInv
  BY <1>1 DEF RecentInv
<1> QED
  BY <1>2, <1>3

(* A step that is not the end of a run: only files and ranks change, and   *)
(* the runs to come may be given up.                                       *)
LEMMA QuietHistory ==
  ASSUME HistoryInv, UNCHANGED <<served, history, jobs>>,
         lost' = 0 => lost = 0 /\ \A k \in DOMAIN history :
                        file[history[k].prompt] = "whole" => file'[history[k].prompt] = "whole",
         \/ phase' # "starting" \/ UNCHANGED <<phase, todo>>
         \/ \A k \in DOMAIN todo' : todo'[k].req = Base /\ todo'[k].mode = "base",
         \A r \in Ranks : at'[r] \in {"denoise", "denoised"} => Here'
  PROVE  HistoryInv'
<1>1. Known' = Known /\ Base \in Known
  BY DEF Known
<1>2. \A k \in DOMAIN history' :
        history'[k] \in Known' /\ (lost' = 0 => file'[history'[k].prompt] = "whole")
  BY <1>1 DEF HistoryInv
<1>3. phase' = "starting" =>
        \A k \in DOMAIN todo' : todo'[k].req \in Known' /\ todo'[k].mode # "serve"
  BY <1>1 DEF HistoryInv
<1>4. Distinct(history')
  BY DEF HistoryInv
<1> QED
  BY <1>1, <1>2, <1>3, <1>4 DEF HistoryInv

(* What the end of a run finds.                                            *)
LEMMA AtTheEnd ==
  ASSUME Types, BudgetInv, FileInv, WarmInv, HistoryInv, Finish
  PROVE  /\ at[Main] = "denoised" /\ todo # <<>> /\ phase \in {"starting", "ready"} /\ phase' = phase
         /\ Current \in Requests /\ ShapeOf(Current) \in compiled /\ compiled' = compiled
         /\ phase = "ready" => Mode = "serve"
         /\ phase = "starting" => Mode # "serve"
         /\ served' = IF Mode = "serve" THEN Append(served, Current) ELSE served
         /\ Known \subseteq Known' /\ Current \in Known'
         /\ lost = 0 => file[Current.prompt] = "whole"
<1>1. /\ at[Main] = "denoised" /\ phase # "down" /\ todo # <<>> /\ phase' = phase
      /\ ShapeOf(Current) \in compiled /\ compiled' = compiled
  BY Constants DEF Finish, BudgetInv, Uncommitted, FileInv
<1>2. /\ Current \in Requests /\ Current = todo[1].req /\ Mode = todo[1].mode /\ 1 \in DOMAIN todo
  BY <1>1, FirstRun DEF Types
<1>3. phase = "ready" => Mode = "serve"
  BY <1>2 DEF WarmInv
<1>4. phase = "starting" => Mode # "serve" /\ Current \in Known
  BY <1>2 DEF HistoryInv
<1>5. served' = IF Mode = "serve" THEN Append(served, Current) ELSE served
  BY DEF Finish
<1>6. Known \subseteq Known' /\ (Mode = "serve" => Current \in Known')
  <2>1. CASE Mode # "serve"
    <3>1. served' = served
      BY <1>5, <2>1
    <3> QED
      BY <2>1, <3>1 DEF Known
  <2>2. CASE Mode = "serve"
    <3>1. /\ DOMAIN served = 1 .. Len(served) /\ Len(served) \in Nat
          /\ DOMAIN served' = 1 .. Len(served) + 1 /\ served'[Len(served) + 1] = Current
          /\ \A k \in 1 .. Len(served) : served'[k] = served[k]
      BY <1>2, <1>5, <2>2 DEF HistoryInv
    <3>2. \A k \in DOMAIN served : k \in DOMAIN served' /\ served'[k] = served[k]
      BY <3>1
    <3>3. Len(served) + 1 \in DOMAIN served'
      BY <3>1
    <3> QED
      BY <3>1, <3>2, <3>3 DEF Known
  <2> QED
    BY <2>1, <2>2
<1>7. lost = 0 => file[Current.prompt] = "whole"
  BY <1>1, Constants DEF HistoryInv, Here
<1>8. phase \in {"starting", "ready"}
  BY <1>1 DEF Types
<1> QED
  BY <1>1, <1>2, <1>3, <1>4, <1>5, <1>6, <1>7, <1>8

LEMMA FinishHistory ==
  ASSUME Types, BudgetInv, FileInv, WarmInv, HistoryInv, Finish
  PROVE  HistoryInv'
<1>1. /\ at[Main] = "denoised" /\ todo # <<>> /\ phase \in {"starting", "ready"} /\ phase' = phase
      /\ Current \in Requests /\ Known \subseteq Known' /\ Current \in Known'
      /\ phase = "ready" => Mode = "serve"
      /\ phase = "starting" => Mode # "serve"
      /\ served' = IF Mode = "serve" THEN Append(served, Current) ELSE served
      /\ lost = 0 => file[Current.prompt] = "whole"
  BY AtTheEnd
<1>2. UNCHANGED <<file, lost>> /\ \A r \in Ranks : at'[r] = "idle"
  BY DEF Finish
<1>3. served' \in Seq(Requests)
  BY <1>1 DEF HistoryInv
<1>4. /\ Len(history') <= MaxShapes /\ Distinct(history')
      /\ \A k \in DOMAIN history' :
           history'[k] \in Known' /\ (lost' = 0 => file'[history'[k].prompt] = "whole")
  <2>1. CASE Mode = "base"
    <3>1. history' = history
      BY <2>1 DEF Finish
    <3> QED
      BY <1>1, <1>2, <3>1 DEF HistoryInv
  <2>2. CASE Mode # "base"
    <3>1. history' = Remember(history, Current)
      BY <2>2 DEF Finish
    <3>2. /\ history \in Seq(Requests) /\ Len(history) <= MaxShapes /\ Distinct(history)
          /\ DOMAIN history = 1 .. Len(history)
      BY DEF Types, HistoryInv
    <3>3. /\ Distinct(history') /\ Len(history') <= MaxShapes
          /\ \A i \in 1 .. Len(history') : \/ history'[i] = Current
                                           \/ \E j \in 1 .. Len(history) : history'[i] = history[j]
      BY <1>1, <3>1, <3>2, RememberDistinct
    <3>4. DOMAIN history' = 1 .. Len(history')
      BY <1>1, <3>1, <3>2, RememberType
    <3> QED
      BY <1>1, <1>2, <3>2, <3>3, <3>4, SMTT(30) DEF HistoryInv
  <2> QED
    BY <2>1, <2>2
<1>5. \A k \in DOMAIN jobs' : jobs'[k] \in Known'
  <2>1. CASE jobs' = jobs
    BY <1>1, <2>1 DEF HistoryInv
  <2>2. CASE jobs' = Append(jobs, Current)
    <3>1. /\ DOMAIN jobs = 1 .. Len(jobs) /\ Len(jobs) \in Nat /\ DOMAIN jobs' = 1 .. Len(jobs) + 1
          /\ jobs'[Len(jobs) + 1] = Current /\ \A k \in 1 .. Len(jobs) : jobs'[k] = jobs[k]
      BY <1>1, <2>2 DEF Types
    <3>2. \A k \in DOMAIN jobs' : k = Len(jobs) + 1 \/ k \in DOMAIN jobs
      BY <3>1
    <3> QED
      BY <1>1, <3>1, <3>2 DEF HistoryInv
  <2> QED
    BY <2>1, <2>2 DEF Finish
<1>6. phase' = "starting" =>
        \A k \in DOMAIN todo' : todo'[k].req \in Known' /\ todo'[k].mode # "serve"
  <2> SUFFICES ASSUME phase = "starting", NEW k \in DOMAIN todo'
               PROVE  todo'[k].req \in Known' /\ todo'[k].mode # "serve"
    BY <1>1
  <2>1. CASE Mode = "base"
    <3>1. todo' = StartRuns
      BY <2>1 DEF Finish
    <3>2. /\ Base \in Known /\ Range(Durations) \subseteq Known
          /\ \A j \in DOMAIN jobs : jobs[j] \in Known
          /\ \A j \in DOMAIN history : history[j] \in Known
      BY DEF HistoryInv, Known
    <3>3. \A j \in DOMAIN StartRuns : StartRuns[j].req \in Known /\ StartRuns[j].mode \in {"replay", "verify"}
      BY <3>2, StartKnown
    <3> QED
      BY <1>1, <3>1, <3>3
  <2>2. CASE Mode # "base"
    <3>1. todo' = Tail(todo)
      BY <2>2 DEF Finish
    <3>2. /\ Len(todo) \in Nat /\ Tail(todo) \in Seq(Items) /\ Len(Tail(todo)) = Len(todo) - 1
          /\ \A j \in 1 .. Len(todo) - 1 : Tail(todo)[j] = todo[j + 1]
          /\ DOMAIN todo = 1 .. Len(todo)
      BY <1>1, FirstRun DEF Types
    <3>3. k \in 1 .. Len(todo) - 1 /\ k + 1 \in DOMAIN todo /\ todo'[k] = todo[k + 1]
      BY <3>1, <3>2
    <3> QED
      BY <1>1, <3>3 DEF HistoryInv
  <2> QED
    BY <2>1, <2>2
<1>7. \A r \in Ranks : at'[r] \in {"denoise", "denoised"} => Here'
  BY <1>2
<1> QED
  BY <1>3, <1>4, <1>5, <1>6, <1>7 DEF HistoryInv

LEMMA HistoryStep ==
  ASSUME Types, BudgetInv, FileInv, WarmInv, HistoryInv, [Next]_wvars
  PROVE  HistoryInv'
<1> Main \in Ranks
  BY Constants
<1>1. CASE Start
  <2>1. /\ UNCHANGED <<served, jobs, file, lost>> /\ \A r \in Ranks : at'[r] = "idle"
        /\ history' = Newest(history, MaxShapes) /\ todo' = <<Item(Base, "base", FALSE)>>
    BY <1>1 DEF Start
  <2>2. history' = history
    BY <2>1, NewestAll, BudgetNat DEF Types, HistoryInv
  <2>3. \A k \in DOMAIN todo' : todo'[k].req = Base /\ todo'[k].mode = "base"
    BY <2>1 DEF Item
  <2> QED
    BY <2>1, <2>2, <2>3, QuietHistory
<1>2. CASE Down
  <2>1. /\ UNCHANGED <<served, jobs, history, file, lost>> /\ phase' = "down"
        /\ \A r \in Ranks : at'[r] = "gone"
    BY <1>2 DEF Down
  <2> QED
    BY <2>1, QuietHistory
<1>3. CASE Finish
  BY <1>3, FinishHistory
<1>4. CASE Denoise
  <2>1. UNCHANGED <<served, jobs, history, file, lost, phase, todo>> /\ at[Main] = "denoise"
    BY <1>4 DEF Denoise, Move
  <2>2. Here'
    BY <2>1 DEF HistoryInv, Here, Current
  <2> QED
    BY <2>1, <2>2, QuietHistory
<1>5. CASE Publish
  <2>1. UNCHANGED <<served, jobs, history, lost, phase, todo>> /\ \A r \in Ranks : at'[r] = "load"
    BY <1>5 DEF Publish, Move
  <2>2. ASSUME NEW p, p \in Prompts, file[p] = "whole" PROVE file'[p] = "whole"
    BY <1>5, <2>2 DEF Publish, Types
  <2>3. \A k \in DOMAIN history : history[k].prompt \in Prompts
    BY Constants DEF Types
  <2> QED
    BY <2>1, <2>2, <2>3, QuietHistory
<1>6. ASSUME UNCHANGED <<served, jobs, history, file, lost, phase, todo>>,
             NEW r \in Ranks, at'[r] = "denoise" => file[Current.prompt] = "whole",
             \A q \in Ranks : at'[q] \in {"denoise", "denoised"} => q = r \/ at[q] = at'[q],
             at'[r] # "denoised" \/ at'[r] = at[r]
      PROVE  HistoryInv'
  <2>1. \A q \in Ranks : at'[q] \in {"denoise", "denoised"} => Here'
    BY <1>6 DEF HistoryInv, Here, Current
  <2> QED
    BY <1>6, <2>1, QuietHistory
<1>7. CASE Meet \/ Encode
  <2>1. UNCHANGED <<served, jobs, history, file, lost, phase, todo>>
    BY <1>7 DEF Meet, Encode, Move
  <2>2. /\ at'[Main] \in {"encode", "encoding"}
        /\ \A q \in Ranks : at'[q] \in {"denoise", "denoised"} => at[q] = at'[q]
    BY <1>7 DEF Meet, Encode, Move, BudgetInv
  <2> QED
    BY <1>6, <2>1, <2>2
<1>8. ASSUME NEW r \in Ranks, Check(r) \/ Load(r), ~Down PROVE HistoryInv'
  <2>1. UNCHANGED <<served, jobs, history, file, lost, phase, todo>>
    BY <1>8 DEF Check, Load, Move
  <2>2. /\ at'[r] \in {"checked", "denoise"} /\ (at'[r] = "denoise" => file[Current.prompt] = "whole")
        /\ \A q \in Ranks : q # r => at'[q] = at[q]
    BY <1>8 DEF Check, Load, Move, BudgetInv
  <2> QED
    BY <1>6, <2>1, <2>2
<1>9. ASSUME NEW p \in Prompts, Lose(p) PROVE HistoryInv'
  <2>1. UNCHANGED <<served, jobs, history, phase, todo, at>> /\ lost' = lost + 1
    BY <1>9 DEF Lose
  <2>2. lost' > 0 /\ lost' # 0
    BY <2>1 DEF Types
  <2> QED
    BY <2>1, <2>2, QuietHistory DEF Here
<1>10. CASE Ready \/ \E q \in Wanted : Serve(q)
  <2>1. UNCHANGED <<served, jobs, history, file, lost, at>> /\ phase' # "starting" /\ at[Main] = "idle"
    BY <1>10 DEF Ready, Serve
  <2>2. \A r \in Ranks : at'[r] = "idle"
    BY <1>10 DEF Ready, Serve
  <2> QED
    BY <2>1, <2>2, QuietHistory
<1>11. CASE UNCHANGED wvars
  <2>1. UNCHANGED <<served, jobs, history, file, lost, phase, todo, at>>
    BY <1>11 DEF wvars
  <2>2. \A r \in Ranks : at'[r] \in {"denoise", "denoised"} => Here'
    BY <2>1 DEF HistoryInv, Here, Current
  <2> QED
    BY <2>1, <2>2, QuietHistory
<1> QED
  BY <1>1, <1>2, <1>3, <1>4, <1>5, <1>7, <1>8, <1>9, <1>10, <1>11 DEF Next, Crash

(* Nothing that counts for a start changes: what is kept stays so.         *)
LEMMA QuietRecent ==
  ASSUME RecentInv, UNCHANGED <<recent, served, history>>, lost' = 0 => lost = 0, ~cut' => ~cut,
         \A shape, I : ~cut' /\ Kept(shape, I) => Kept(shape, I)'
  PROVE  RecentInv'
<1>1. Known' = Known
  BY DEF Known
<1> QED
  BY <1>1 DEF RecentInv

LEMMA Framed ==
  ASSUME NEW shape, NEW I, UNCHANGED <<phase, todo, history>>, Kept(shape, I),
         Based => compiled \union ToDo \subseteq compiled' \union ToDo'
  PROVE  Kept(shape, I)'
<1>1. Based' = Based /\ Requested(todo)' = Requested(todo)
  BY DEF Based
<1> QED
  BY <1>1 DEF Kept

(* One more run of a start: the entry is still to come, or has become the  *)
(* newest of the history, or stays in it.                                  *)
LEMMA RunKept ==
  ASSUME Types, BudgetInv, FileInv, WarmInv, HistoryInv, Finish,
         phase = "starting", Mode # "base", lost = 0, Agree(Known),
         NEW I, IsFiniteSet(I), Cardinality(I) < recent, NEW shape, Kept(shape, I)
  PROVE  Kept(shape, I)'
<1>1. /\ todo # <<>> /\ phase' = phase /\ Current \in Requests
      /\ ShapeOf(Current) \in compiled /\ compiled' = compiled
      /\ Mode # "serve" /\ file[Current.prompt] = "whole"
  BY AtTheEnd
<1>2. todo' = Tail(todo) /\ history' = Remember(history, Current) /\ served' = served
  BY <1>1 DEF Finish
<1>3. /\ Current = todo[1].req /\ Len(todo) \in Nat /\ Len(todo) >= 1 /\ DOMAIN todo = 1 .. Len(todo)
      /\ Tail(todo) \in Seq(Items) /\ DOMAIN Tail(todo) = 1 .. Len(todo) - 1
      /\ \A k \in 1 .. Len(todo) - 1 : Tail(todo)[k] = todo[k + 1]
      /\ Mode = todo[1].mode
  BY <1>1, FirstRun DEF Types
<1>4. Based /\ Based'
  <2>1. ASSUME NEW k \in DOMAIN todo, todo[k].mode = "base" PROVE FALSE
    <3>1. todo = <<Item(Base, "base", FALSE)>>
      BY <2>1 DEF WarmInv
    <3>2. todo[1].mode = "base"
      BY <3>1 DEF Item
    <3> QED
      BY <1>3, <3>2
  <2>2. ASSUME NEW k \in DOMAIN todo' PROVE todo'[k].mode # "base"
    <3>1. k + 1 \in DOMAIN todo /\ todo'[k] = todo[k + 1]
      BY <1>2, <1>3
    <3> QED
      BY <2>1, <3>1
  <2> QED
    BY <1>1, <2>1, <2>2 DEF Based
<1>5. shape \in compiled' \union ToDo'
  <2>1. CASE shape \in compiled
    BY <1>1, <2>1
  <2>2. CASE shape \in ToDo
    <3>1. PICK k \in DOMAIN todo : shape = ShapeOf(todo[k].req)
      BY <2>2 DEF ToDo
    <3>2. CASE k = 1
      BY <1>1, <1>3, <3>1, <3>2
    <3>3. CASE k # 1
      <4>1. k - 1 \in DOMAIN todo' /\ todo'[k - 1] = todo[k]
        BY <1>2, <1>3, <3>3
      <4> QED
        BY <3>1, <4>1 DEF ToDo
    <3> QED
      BY <3>2, <3>3
  <2> QED
    BY <1>4, <2>1, <2>2 DEF Kept
<1>6. ASSUME \/ ShapeOf(Current) = shape
             \/ Keeps(history, shape, I) /\ Identity(Current) \in I
      PROVE  Keeps(history', shape, I)
  <2>1. /\ history \in Seq(Requests) /\ Len(history) <= MaxShapes /\ Distinct(history)
        /\ Current \in Known /\ \A k \in 1 .. Len(history) : history[k] \in Known
    BY <1>3 DEF Types, HistoryInv
  <2>2. /\ \A i, j \in 1 .. Len(history) :
             Identity(history[i]) = Identity(history[j]) => ShapeOf(history[i]) = ShapeOf(history[j])
        /\ \A i \in 1 .. Len(history) :
             Identity(history[i]) = Identity(Current) => ShapeOf(history[i]) = ShapeOf(Current)
    BY <2>1, SameShape
  <2>3. Cardinality(I) < MaxShapes /\ file[Current.prompt] # "none"
    <3>1. /\ recent \in Nat /\ recent + Len(Durations) <= MaxShapes - 1 /\ Len(Durations) \in Nat
          /\ MaxShapes \in Nat /\ Cardinality(I) \in Nat
      BY Constants, FS_CardinalityType DEF Types
    <3> QED
      BY <1>1, <3>1
  <2> QED
    BY <1>1, <1>2, <1>6, <2>1, <2>2, <2>3, RememberKeeps
<1>7. /\ AllIn(Requested(todo), I) => Identity(Current) \in I /\ AllIn(Requested(todo'), I)
      /\ Keeps(Requested(todo), shape, I) =>
           Keeps(Requested(todo'), shape, I) \/ (ShapeOf(Current) = shape /\ AllIn(Requested(todo'), I))
  BY <1>1, <1>2, <1>3, TailKeeps DEF Types
<1>8. \/ Keeps(Requested(todo'), shape, I)
      \/ Keeps(history', shape, I) /\ AllIn(Requested(todo'), I)
  BY <1>4, <1>6, <1>7 DEF Kept
<1> QED
  BY <1>4, <1>5, <1>8 DEF Kept

(* The base warm-up is done: the runs are chosen from jobs and history.    *)
LEMMA ChosenKept ==
  ASSUME Types, BudgetInv, FileInv, WarmInv, HistoryInv, Finish,
         phase = "starting", Mode = "base", lost = 0, Agree(Known),
         NEW I, IsFiniteSet(I), Cardinality(I) < recent, NEW shape, Kept(shape, I)
  PROVE  Kept(shape, I)'
<1>1. todo # <<>> /\ phase' = phase /\ todo' = StartRuns
  BY AtTheEnd DEF Finish
<1>2. 1 \in DOMAIN todo /\ todo[1].mode = "base"
  BY <1>1, FirstRun DEF Types
<1>3. Keeps(history, shape, I)
  BY <1>2 DEF Kept, Based
<1>4. /\ Base \in Known /\ Range(Durations) \subseteq Known
      /\ \A j \in DOMAIN jobs : jobs[j] \in Known
      /\ \A j \in DOMAIN history : history[j] \in Known /\ file[history[j].prompt] # "none"
  BY DEF HistoryInv, Known
<1>5. Keeps(Requested(todo'), shape, I)
  BY <1>1, <1>3, <1>4, StartKeeps
<1>6. StartRuns \in Seq(Items) /\ \A k \in DOMAIN StartRuns : StartRuns[k].mode # "base"
  BY <1>4, StartKnown, StartRunsAre
<1>7. Based'
  BY <1>1, <1>6 DEF Based
<1>8. shape \in ToDo'
  <2>1. PICK k \in 1 .. Len(Requested(StartRuns)) : ShapeOf(Requested(StartRuns)[k]) = shape
    BY <1>1, <1>5 DEF Keeps
  <2>2. k \in DOMAIN StartRuns /\ Requested(StartRuns)[k] = StartRuns[k].req
    BY <1>6, RequestedIs
  <2> QED
    BY <1>1, <2>1, <2>2 DEF ToDo
<1> QED
  BY <1>5, <1>7, <1>8 DEF Kept

LEMMA FinishRecent ==
  ASSUME Types, BudgetInv, FileInv, WarmInv, HistoryInv, RecentInv, Finish
  PROVE  RecentInv'
<1>1. /\ todo # <<>> /\ phase \in {"starting", "ready"} /\ phase' = phase
      /\ Current \in Requests
      /\ phase = "ready" => Mode = "serve"
      /\ phase = "starting" => Mode # "serve"
      /\ served' = IF Mode = "serve" THEN Append(served, Current) ELSE served
      /\ Known \subseteq Known' /\ Current \in Known'
      /\ lost = 0 => file[Current.prompt] = "whole"
  BY AtTheEnd
<1> SUFFICES ASSUME lost' = 0, ~cut', Agree(Known'), NEW k \in 1 .. Len(served'),
                    NEW shape, NEW J, shape = ShapeOf(served'[k]), J = Later(served', k),
                    Cardinality(J) < recent'
             PROVE  Kept(shape, J)'
  BY DEF RecentInv
<1>2. lost = 0 /\ ~cut /\ Agree(Known) /\ recent' = recent /\ compiled' = compiled
  BY <1>1 DEF Finish, Agree
<1>3. recent \in Nat /\ served \in Seq(Requests) /\ served' \in Seq(Requests)
  BY <1>1, Constants DEF Types, HistoryInv
<1>4. IsFiniteSet(J)
  BY <1>3, LaterFinite
<1>5. CASE phase = "starting"
  <2>1. served' = served
    BY <1>1, <1>5
  <2>2. Kept(shape, J)
    BY <1>2, <2>1 DEF RecentInv
  <2> QED
    BY <1>2, <1>4, <1>5, <2>2, RunKept, ChosenKept
<1>6. CASE phase = "ready"
  <2>1. Mode = "serve" /\ Mode # "base" /\ served' = Append(served, Current)
    BY <1>1, <1>6
  <2>2. history' = Remember(history, Current)
    BY <2>1 DEF Finish
  <2>3. \/ ShapeOf(Current) = shape
        \/ Keeps(history, shape, J) /\ Identity(Current) \in J
    <3>1. CASE k \in 1 .. Len(served)
      <4>1. served'[k] = served[k]
        BY <1>3, <2>1, <3>1
      <4>2. Later(served, k) \subseteq J /\ Identity(Current) \in J
        BY <1>1, <1>3, <2>1, <3>1, OneLater
      <4>3. Cardinality(Later(served, k)) < recent
        <5>1. /\ Cardinality(Later(served, k)) <= Cardinality(J)
              /\ Cardinality(Later(served, k)) \in Nat /\ Cardinality(J) \in Nat
          BY <1>4, <4>2, FS_Subset, FS_CardinalityType
        <5> QED
          BY <1>2, <1>3, <5>1
      <4>4. Kept(shape, Later(served, k))
        BY <1>2, <3>1, <4>1, <4>3 DEF RecentInv
      <4>5. Keeps(history, shape, Later(served, k))
        BY <1>6, <4>4 DEF Kept, Based
      <4> QED
        BY <4>2, <4>5, KeepsMore
    <3>2. CASE k = Len(served) + 1
      BY <1>3, <2>1, <3>2
    <3> QED
      BY <1>3, <2>1, <3>1, <3>2
  <2>4. /\ history \in Seq(Requests) /\ Len(history) <= MaxShapes /\ Distinct(history)
        /\ \A j \in 1 .. Len(history) : history[j] \in Known'
    BY <1>1 DEF Types, HistoryInv
  <2>5. /\ \A i, j \in 1 .. Len(history) :
             Identity(history[i]) = Identity(history[j]) => ShapeOf(history[i]) = ShapeOf(history[j])
        /\ \A i \in 1 .. Len(history) :
             Identity(history[i]) = Identity(Current) => ShapeOf(history[i]) = ShapeOf(Current)
    BY <1>1, <2>4, SameShape
  <2>6. Cardinality(J) < MaxShapes /\ file[Current.prompt] # "none"
    <3>1. /\ recent + Len(Durations) <= MaxShapes - 1 /\ Len(Durations) \in Nat
          /\ MaxShapes \in Nat /\ Cardinality(J) \in Nat
      BY <1>4, Constants, FS_CardinalityType DEF Types
    <3> QED
      BY <1>1, <1>2, <1>3, <3>1
  <2>7. Keeps(Remember(history, Current), shape, J)
    BY <1>1, <1>4, <2>3, <2>4, <2>5, <2>6, RememberKeeps
  <2>8. ~Based'
    BY <1>1, <1>6 DEF Based
  <2> QED
    BY <2>2, <2>7, <2>8 DEF Kept
<1> QED
  BY <1>1, <1>5, <1>6

LEMMA RecentStep ==
  ASSUME Types, BudgetInv, FileInv, WarmInv, HistoryInv, RecentInv, [Next]_wvars
  PROVE  RecentInv'
<1>1. CASE Start
  <2>1. /\ UNCHANGED <<recent, served, lost, cut>> /\ phase = "down"
        /\ history' = Newest(history, MaxShapes) /\ todo' = <<Item(Base, "base", FALSE)>>
    BY <1>1 DEF Start
  <2>2. history' = history
    BY <2>1, NewestAll, BudgetNat DEF Types, HistoryInv
  <2>3. ~Based /\ ~Based'
    <3>1. 1 \in DOMAIN todo' /\ todo'[1].mode = "base"
      BY <2>1 DEF Item
    <3> QED
      BY <2>1, <3>1 DEF Based
  <2> QED
    BY <2>1, <2>2, <2>3, QuietRecent DEF Kept
<1>2. CASE Down
  <2>1. /\ UNCHANGED <<recent, served, history, lost>> /\ phase' = "down"
        /\ cut' = (cut \/ phase = "starting")
    BY <1>2 DEF Down
  <2>2. ~cut' => ~cut /\ ~Based /\ ~Based'
    BY <2>1 DEF Based
  <2> QED
    BY <2>1, <2>2, QuietRecent DEF Kept
<1>3. CASE Denoise
  <2>1. UNCHANGED <<recent, served, history, lost, cut, phase, todo>>
    BY <1>3 DEF Denoise, Move
  <2>2. Based => compiled \union ToDo \subseteq compiled' \union ToDo'
    <3>1. ToDo' = ToDo
      BY <2>1 DEF ToDo
    <3>2. Based => compiled' = compiled \union {ShapeOf(Current)}
      BY <1>3, NoRotation DEF Based
    <3> QED
      BY <3>1, <3>2
  <2>3. \A shape, I : Kept(shape, I) => Kept(shape, I)'
    BY <2>1, <2>2, Framed
  <2> QED
    BY <2>1, <2>3, QuietRecent
<1>4. CASE Finish
  BY <1>4, FinishRecent
<1>5. CASE Ready
  <2>1. /\ UNCHANGED <<recent, served, history, lost, cut>> /\ phase = "starting" /\ todo = <<>>
        /\ phase' = "ready"
    BY <1>5 DEF Ready
  <2>2. Based /\ ~Based'
    BY <2>1 DEF Based
  <2>3. \A shape, I : ~Keeps(Requested(todo), shape, I)
    <3>1. Len(Requested(todo)) = 0
      BY <2>1, RequestedIs DEF Types
    <3> QED
      BY <3>1 DEF Keeps
  <2> QED
    BY <2>1, <2>2, <2>3, QuietRecent DEF Kept
<1>6. ASSUME NEW q \in Wanted, Serve(q) PROVE RecentInv'
  <2>1. UNCHANGED <<recent, served, history, lost, cut>> /\ phase = "ready" /\ phase' = "ready"
    BY <1>6 DEF Serve
  <2>2. ~Based /\ ~Based'
    BY <2>1 DEF Based
  <2> QED
    BY <2>1, <2>2, QuietRecent DEF Kept
<1>7. ASSUME NEW p \in Prompts, Lose(p) PROVE RecentInv'
  <2>1. lost' = lost + 1 /\ lost \in Nat
    BY <1>7 DEF Lose, Types
  <2>2. lost' # 0
    BY <2>1
  <2> QED
    BY <2>2 DEF RecentInv
<1>8. ASSUME UNCHANGED <<recent, served, history, lost, cut, phase, todo, compiled>> PROVE RecentInv'
  <2>1. compiled' \union ToDo' = compiled \union ToDo
    BY <1>8 DEF ToDo
  <2>2. \A shape, I : Kept(shape, I) => Kept(shape, I)'
    BY <1>8, <2>1, Framed
  <2> QED
    BY <1>8, <2>2, QuietRecent
<1>9. CASE Meet \/ Encode \/ Publish
  BY <1>8, <1>9 DEF Meet, Encode, Publish, Move
<1>10. ASSUME NEW r \in Ranks, Check(r) \/ Load(r), ~Down PROVE RecentInv'
  BY <1>8, <1>10 DEF Check, Load, Move
<1>11. CASE UNCHANGED wvars
  BY <1>8, <1>11 DEF wvars
<1> QED
  BY <1>1, <1>2, <1>3, <1>4, <1>5, <1>6, <1>7, <1>9, <1>10, <1>11 DEF Next, Crash

(* Whatever was asked for, however often the service was restarted and a   *)
(* history rotated: when the service becomes ready, each of the requests   *)
(* that were last asked for, as many as it replays, finds its graphs, as   *)
(* long as no cache was removed, no start was cut short and every prompt   *)
(* and plan came with one choice of options.                               *)
THEOREM LastRequestsWarm == Spec => []RecentIsWarm
<1>1. Init => HistoryInv /\ RecentInv
  BY InitHistory
<1>2. WarmStartInv /\ HistoryInv /\ RecentInv /\ [Next]_wvars => HistoryInv' /\ RecentInv'
  BY HistoryStep, RecentStep DEF WarmStartInv
<1>3. WarmStartInv /\ HistoryInv /\ RecentInv => RecentIsWarm
  <2> SUFFICES ASSUME WarmStartInv, HistoryInv, RecentInv,
                      phase = "starting", todo = <<>>, lost = 0, ~cut, OptionsDecided,
                      NEW k \in DOMAIN served,
                      Cardinality({Identity(served[j]) : j \in k + 1 .. Len(served)}) < recent
               PROVE  ShapeOf(served[k]) \in compiled
    BY DEF RecentIsWarm
  <2>1. Agree(Known)
    BY DEF OptionsDecided, Agree, Known, Range
  <2>2. k \in 1 .. Len(served)
    BY DEF HistoryInv
  <2>3. Kept(ShapeOf(served[k]), Later(served, k))
    BY <2>1, <2>2 DEF RecentInv, Later
  <2>4. Based /\ ToDo = {}
    BY DEF Based, ToDo
  <2> QED
    BY <2>3, <2>4 DEF Kept
<1> QED
  BY <1>1, <1>2, <1>3, WarmStartInvHolds, PTL DEF Spec

=============================================================================
