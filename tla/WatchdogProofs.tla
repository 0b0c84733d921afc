--------------------------- MODULE WatchdogProofs ---------------------------
(***************************************************************************)
(* Theorems about the watchdog and the controller's loop, for any number   *)
(* of ranks, any deadlines and any policy of restarts: the wait before the *)
(* next attempt, no group taken down without cause, and no hang overlooked.*)
(***************************************************************************)
EXTENDS Watchdog, FiniteSetTheorems, WellFoundedInduction, TLAPS

-----------------------------------------------------------------------------
(* The helpers of the model on ages.                                       *)

LEMMA MinOfTwo ==
  ASSUME NEW a \in Int, NEW b \in Int
  PROVE  Min({a, b}) = IF a <= b THEN a ELSE b
  BY DEF Min

LEMMA MaxOfTwo ==
  ASSUME NEW a \in Int, NEW b \in Int
  PROVE  Max({a, b}) = IF a >= b THEN a ELSE b
  BY DEF Max

(* An age grows by a tick until its cap; one that is unset stays so.       *)
LEMMA OlderIs ==
  ASSUME NEW age \in Int, NEW limit \in Int
  PROVE  Older(age, limit) =
           IF age = -1 THEN -1 ELSE IF age + 1 <= limit THEN age + 1 ELSE limit
  BY MinOfTwo DEF Older, None

-----------------------------------------------------------------------------
(* Types.                                                                  *)

GroupTypes ==
  /\ group \in {"none", "loading", "ready", "exited"}
  /\ mode \in [Ranks -> {"loop", "busy", "hung"}]
  /\ quiet \in [Ranks -> 0 .. BeatEvery]
  /\ heartbeat \in [Ranks -> {"absent", "seen", "new"}]
  /\ command \in [token : -1 .. 2, age : 0 .. RequestTimeout + 1, answered : BOOLEAN]
  /\ cancel \in {"none", "cancelled", "timeout"}

LoopTypes ==
  /\ turn \in {"read", "check", "sleep"}
  /\ current \in BOOLEAN
  /\ consecutive \in 0 .. Bound
  /\ wait \in Nat

WatchdogTypes ==
  /\ started \in 0 .. StartupTimeout + 1
  /\ ready_since \in -1 .. StableSeconds
  /\ token \in -1 .. 2
  /\ request_started \in -1 .. RequestTimeout + 1
  /\ idle_since \in -1 .. IdleTimeout + 1
  /\ beats \in [Ranks -> -1 .. IdleTimeout + 1]

GhostTypes ==
  /\ ready_for \in -1 .. StableSeconds + 2
  /\ sick \in -1 .. Longest + 1
  /\ row = <<>> \/ row \in (0 .. Bound) \X (0 .. Bound)
  /\ idle_for \in Nat

Types == GroupTypes /\ LoopTypes /\ WatchdogTypes /\ GhostTypes

LEMMA Constants ==
  /\ StartupTimeout \in Nat /\ StartupTimeout > 0
  /\ RequestTimeout \in Nat /\ RequestTimeout > 0
  /\ IdleTimeout \in Nat /\ IdleTimeout > 0
  /\ RestartDelay \in Nat /\ RestartDelay > 0
  /\ RestartMaxDelay \in Nat /\ RestartMaxDelay >= RestartDelay
  /\ StableSeconds \in Nat /\ StableSeconds > 0
  /\ CancelDelay \in Nat /\ CancelDelay > 0
  /\ BeatEvery \in Nat /\ BeatEvery > 0 /\ BeatEvery < IdleTimeout
  /\ Bound \in Nat /\ Bound > 0 /\ Bound <= 17
  /\ Ranks # {}
<1>1. {StartupTimeout, RequestTimeout, IdleTimeout, RestartDelay, RestartMaxDelay,
        StableSeconds, CancelDelay, BeatEvery, Bound} \subseteq Nat \ {0}
  BY WatchdogAssumption
<1>2. \A n \in Nat \ {0} : n > 0
  OBVIOUS
<1> QED
  BY WatchdogAssumption, <1>1, <1>2 DEF LargestExponent

(* How long a hang may last, from the deadlines alone.                     *)
LEMMA LongestIs ==
  /\ Longest \in Nat
  /\ Longest >= StartupTimeout + 3
  /\ Longest >= IdleTimeout + RequestTimeout + 3
  BY Constants, MaxOfTwo DEF Longest, Slack

LEMMA TypesInit == WatchdogInit => Types
<1> SUFFICES ASSUME WatchdogInit PROVE Types
  OBVIOUS
<1> USE DEF WatchdogInit, EachRank, None
<1>1. GroupTypes
  BY Constants DEF GroupTypes, NoCommand
<1>2. LoopTypes
  <2>1. 0 \in 0 .. Bound /\ 0 \in Nat
    BY Constants
  <2> QED
    BY <2>1, Zenon DEF LoopTypes
<1>3. WatchdogTypes
  BY Constants DEF WatchdogTypes
<1>4. GhostTypes
  BY Constants, LongestIs DEF GhostTypes
<1> QED
  BY <1>1, <1>2, <1>3, <1>4 DEF Types

-----------------------------------------------------------------------------
(* The wait.  A set of numbers that holds 0, and with each of its members  *)
(* the next, is all of Nat: what it leaves out would have a least member.  *)

LEMMA ZeroAndNext ==
  ASSUME NEW T, 0 \in T, \A n \in Nat : n \in T => n + 1 \in T
  PROVE  \A n \in Nat : n \in T
<1> SUFFICES ASSUME NEW m \in Nat, m \notin T PROVE FALSE
  OBVIOUS
<1> DEFINE Left == {n \in Nat : n \notin T}
<1>1. PICK x \in Left : \A y \in Left : ~ (<<y, x>> \in OpToRel(<, Nat))
  <2> HIDE DEF Left
  <2>1. Left \subseteq Nat /\ Left # {}
    BY DEF Left
  <2> QED
    BY <2>1, NatLessThanWellFounded, WFMin
<1>2. x # 0 /\ x - 1 \in Nat /\ x - 1 < x
  OBVIOUS
<1>3. x - 1 \notin Left
  BY <1>1, <1>2 DEF OpToRel
<1>4. x - 1 \in T
  BY <1>2, <1>3
<1>5. x - 1 + 1 = x
  BY <1>2
<1> QED
  BY <1>2, <1>4, <1>5

(* A function on 0 .. n that has a first value and follows a step.         *)
Follows(f, first, Step, n) ==
  /\ f \in [0 .. n -> Nat]
  /\ f[0] = first
  /\ \A k \in 1 .. n : f[k] = Step[<<k, f[k - 1]>>]

(* There is one: it can be defined by recursion.                           *)
LEMMA RecursionExists ==
  ASSUME NEW first \in Nat, NEW Step \in [Nat \X Nat -> Nat], NEW n \in Nat
  PROVE  \E f : Follows(f, first, Step, n)
<1> DEFINE Defines(f, m) == Follows(f, first, Step, m)
           T == {m \in Nat : \E f : Defines(f, m)}
<1>1. 0 \in T
  <2> DEFINE f == [k \in 0 .. 0 |-> first]
  <2>1. Defines(f, 0)
    BY DEF Follows
  <2> HIDE DEF Defines, f
  <2> QED
    BY <2>1
<1>2. ASSUME NEW m \in Nat, m \in T PROVE m + 1 \in T
  <2>1. PICK f : Defines(f, m)
    <3> HIDE DEF Defines
    <3> QED
      BY <1>2
  <2>2. f[m] \in Nat
    BY <2>1 DEF Follows
  <2> DEFINE v == Step[<<m + 1, f[m]>>]
  <2>3. v \in Nat
    BY <2>2
  <2> DEFINE g == [k \in 0 .. m + 1 |-> IF k = m + 1 THEN v ELSE f[k]]
  <2> HIDE DEF v
  <2>4. g \in [0 .. m + 1 -> Nat] /\ g[m + 1] = v /\ \A k \in 0 .. m : g[k] = f[k]
    BY <2>1, <2>3 DEF Follows
  <2> HIDE DEF g
  <2>5. g[0] = first
    BY <2>1, <2>4 DEF Follows
  <2>6. ASSUME NEW k \in 1 .. m + 1 PROVE g[k] = Step[<<k, g[k - 1]>>]
    <3>1. CASE k = m + 1
      <4>1. k - 1 = m /\ g[k - 1] = f[m]
        BY <2>4, <3>1
      <4> QED
        BY <2>4, <3>1, <4>1 DEF v
    <3>2. CASE k \in 1 .. m
      <4>1. g[k] = f[k] /\ g[k - 1] = f[k - 1]
        BY <2>4, <3>2
      <4> QED
        BY <2>1, <3>2, <4>1 DEF Follows
    <3> QED
      BY <3>1, <3>2
  <2>7. Defines(g, m + 1)
    BY <2>4, <2>5, <2>6 DEF Follows
  <2> HIDE DEF Defines
  <2> QED
    BY <2>7
<1>3. n \in T
  <2> HIDE DEF T
  <2> QED
    BY <1>1, <1>2, ZeroAndNext
<1> HIDE DEF Defines
<1> QED
  BY <1>3 DEF Defines

LEMMA DoubledIs ==
  /\ \A k \in 0 .. 16 : Doubled[k] \in Nat
  /\ Doubled[0] = 1
  /\ \A k \in 1 .. 16 : Doubled[k] = 2 * Doubled[k - 1]
<1> DEFINE Step == [p \in Nat \X Nat |-> 2 * p[2]]
           Body(g) == [k \in 0 .. 16 |-> IF k = 0 THEN 1 ELSE 2 * g[k - 1]]
<1>1. Step \in [Nat \X Nat -> Nat] /\ \A k, v \in Nat : Step[<<k, v>>] = 2 * v
  OBVIOUS
<1> HIDE DEF Step
<1>2. PICK f \in [0 .. 16 -> Nat] : f[0] = 1 /\ \A k \in 1 .. 16 : f[k] = 2 * f[k - 1]
  <2>1. PICK f : Follows(f, 1, Step, 16)
    BY <1>1, RecursionExists
  <2>2. ASSUME NEW k \in 1 .. 16 PROVE f[k] = 2 * f[k - 1]
    <3>1. k \in Nat /\ f[k - 1] \in Nat
      BY <2>1 DEF Follows
    <3> QED
      BY <1>1, <2>1, <3>1 DEF Follows
  <2> QED
    BY <2>1, <2>2 DEF Follows
<1>3. f = Body(f)
  BY <1>2
<1>4. Doubled = Body(Doubled)
  <2>1. Doubled = CHOOSE g : g = Body(g)
    BY DEF Doubled, LargestExponent
  <2> HIDE DEF Body
  <2> QED
    BY <1>3, <2>1
<1>5. Doubled[0] = 1 /\ \A k \in 1 .. 16 : Doubled[k] = 2 * Doubled[k - 1]
  BY <1>4
<1>6. \A m \in Nat : m \in {k \in Nat : k <= 16 => Doubled[k] \in Nat}
  <2> DEFINE T == {k \in Nat : k <= 16 => Doubled[k] \in Nat}
  <2>1. 0 \in T
    BY <1>5
  <2>2. ASSUME NEW m \in Nat, m \in T PROVE m + 1 \in T
    BY <1>5, <2>2
  <2> HIDE DEF T
  <2> QED
    BY <2>1, <2>2, ZeroAndNext DEF T
<1> QED
  BY <1>5, <1>6

LEMMA AtMostMaxDelayIs ==
  \A delay \in Nat : AtMostMaxDelay(delay) = IF RestartMaxDelay <= delay THEN RestartMaxDelay ELSE delay
  BY MinOfTwo, Constants DEF AtMostMaxDelay

LEMMA OwedIs ==
  /\ \A k \in 0 .. Bound : Owed[k] \in Nat
  /\ Owed[0] = CancelDelay
  /\ Owed[1] = RestartDelay
  /\ \A k \in 2 .. Bound :
       Owed[k] = IF RestartMaxDelay <= 2 * Owed[k - 1] THEN RestartMaxDelay ELSE 2 * Owed[k - 1]
<1> DEFINE Next1(k, v) == IF k = 1 THEN RestartDelay ELSE AtMostMaxDelay(2 * v)
           Step == [p \in Nat \X Nat |-> Next1(p[1], p[2])]
           Body(g) == [k \in 0 .. Bound |-> IF k = 0 THEN CancelDelay
                                          ELSE IF k = 1 THEN RestartDelay
                                          ELSE AtMostMaxDelay(2 * g[k - 1])]
<1>1. \A k, v \in Nat : Next1(k, v) \in Nat
  BY AtMostMaxDelayIs, Constants
<1>2. PICK f \in [0 .. Bound -> Nat] :
        f[0] = CancelDelay /\ \A k \in 1 .. Bound : f[k] = Next1(k, f[k - 1])
  <2> HIDE DEF Next1
  <2>1. Step \in [Nat \X Nat -> Nat] /\ \A k, v \in Nat : Step[<<k, v>>] = Next1(k, v)
    BY <1>1
  <2> HIDE DEF Step
  <2>2. PICK f : Follows(f, CancelDelay, Step, Bound)
    BY <2>1, Constants, RecursionExists
  <2>3. ASSUME NEW k \in 1 .. Bound PROVE f[k] = Next1(k, f[k - 1])
    <3>1. k \in Nat /\ f[k - 1] \in Nat
      BY <2>2, Constants DEF Follows
    <3> QED
      BY <2>1, <2>2, <3>1 DEF Follows
  <2> QED
    BY <2>2, <2>3 DEF Follows
<1>3. f = Body(f)
  BY <1>2, Constants
<1>4. Owed = Body(Owed)
  <2>1. Owed = CHOOSE g : g = Body(g)
    BY DEF Owed
  <2> HIDE DEF Body
  <2> QED
    BY <1>3, <2>1
<1>5. /\ Owed[0] = CancelDelay
      /\ Owed[1] = RestartDelay
      /\ \A k \in 2 .. Bound : Owed[k] = AtMostMaxDelay(2 * Owed[k - 1])
  BY <1>4, Constants
<1>6. \A m \in Nat : m \in {k \in Nat : k <= Bound => Owed[k] \in Nat}
  <2> DEFINE T == {k \in Nat : k <= Bound => Owed[k] \in Nat}
  <2>1. 0 \in T
    BY <1>5, Constants
  <2>2. ASSUME NEW m \in Nat, m \in T PROVE m + 1 \in T
    <3>1. CASE m = 0
      BY <1>5, <3>1, Constants
    <3>2. CASE m > 0 /\ m + 1 <= Bound
      <4>1. Owed[m] \in Nat
        BY <2>2, <3>2, Constants
      <4>2. Owed[m + 1] = AtMostMaxDelay(2 * Owed[m])
        BY <1>5, <3>2, Constants
      <4>3. 2 * Owed[m] \in Nat
        BY <4>1
      <4>4. Owed[m + 1] \in Nat
        BY <4>2, <4>3, AtMostMaxDelayIs, Constants
      <4> QED
        BY <4>4
    <3> QED
      BY <3>1, <3>2, Constants
  <2> HIDE DEF T
  <2> QED
    BY <2>1, <2>2, ZeroAndNext DEF T
<1>7. ASSUME NEW k \in 2 .. Bound
      PROVE  Owed[k] = IF RestartMaxDelay <= 2 * Owed[k - 1] THEN RestartMaxDelay ELSE 2 * Owed[k - 1]
  <2>1. Owed[k - 1] \in Nat
    BY <1>6, Constants
  <2>2. 2 * Owed[k - 1] \in Nat
    BY <2>1
  <2> QED
    BY <1>5, <2>2, AtMostMaxDelayIs
<1> QED
  BY <1>5, <1>6, <1>7, Constants

(* Policy.delay() is what is owed: its power of two, cut at                *)
(* restart_max_delay, is the delay before, doubled and cut.                *)
THEOREM DelayIsOwed == \A n \in 1 .. Bound : Delay(n) = Owed[n]
<1> DEFINE Power(k) == RestartDelay * Doubled[k]
<1>1. ASSUME NEW n \in 1 .. Bound
      PROVE  /\ Power(n - 1) \in Nat
             /\ Delay(n) = IF RestartMaxDelay <= Power(n - 1) THEN RestartMaxDelay ELSE Power(n - 1)
  <2>1. Exponent(n) = n - 1
    BY Constants, MinOfTwo, MaxOfTwo DEF Exponent, LargestExponent
  <2>2. Power(n - 1) \in Nat
    BY DoubledIs, Constants
  <2> QED
    BY <2>1, <2>2, AtMostMaxDelayIs, Constants DEF Delay
<1>2. \A n \in 1 .. Bound : n > 1 => Power(n - 1) = 2 * Power(n - 2)
  <2> SUFFICES ASSUME NEW n \in 1 .. Bound, n > 1 PROVE Power(n - 1) = 2 * Power(n - 2)
    OBVIOUS
  <2>1. Doubled[n - 1] = 2 * Doubled[n - 2] /\ Doubled[n - 2] \in Nat
    <3>1. n - 1 \in 1 .. 16 /\ n - 2 \in 0 .. 16 /\ (n - 1) - 1 = n - 2
      BY Constants
    <3> QED
      BY <3>1, DoubledIs
  <2> QED
    BY <2>1, Constants
<1> DEFINE T == {m \in Nat : m \in 1 .. Bound => Delay(m) = Owed[m]}
<1>3. 0 \in T
  OBVIOUS
<1>4. ASSUME NEW m \in Nat, m \in T PROVE m + 1 \in T
  <2>1. CASE m = 0
    <3>1. Delay(1) = RestartDelay
      <4>1. Power(0) = RestartDelay
        BY DoubledIs, Constants
      <4> HIDE DEF Power
      <4> QED
        BY <1>1, <4>1, Constants
    <3> QED
      BY <2>1, <3>1, OwedIs
  <2>2. CASE m > 0 /\ m + 1 <= Bound
    <3>1. m \in 1 .. Bound /\ m + 1 \in 1 .. Bound /\ m + 1 \in 2 .. Bound
      BY <2>2, Constants
    <3>2. Delay(m) = Owed[m] /\ Owed[m] \in Nat
      BY <1>4, <3>1, OwedIs, Constants
    <3>3. Owed[m + 1] = IF RestartMaxDelay <= 2 * Owed[m] THEN RestartMaxDelay ELSE 2 * Owed[m]
      BY <3>1, OwedIs
    <3>4. Power(m) = 2 * Power(m - 1)
      <4>1. m + 1 > 1 /\ (m + 1) - 1 = m /\ (m + 1) - 2 = m - 1
        BY <2>2
      <4> HIDE DEF Power
      <4> QED
        BY <1>2, <3>1, <4>1
    <3>5. /\ Power(m) \in Nat /\ Power(m - 1) \in Nat
          /\ Delay(m + 1) = IF RestartMaxDelay <= Power(m) THEN RestartMaxDelay ELSE Power(m)
          /\ Delay(m) = IF RestartMaxDelay <= Power(m - 1) THEN RestartMaxDelay ELSE Power(m - 1)
      <4>1. (m + 1) - 1 = m
        OBVIOUS
      <4> HIDE DEF Power
      <4> QED
        BY <1>1, <3>1, <4>1
    <3> HIDE DEF Power
    <3>6. Delay(m + 1) = Owed[m + 1]
      BY <3>2, <3>3, <3>4, <3>5, Constants
    <3> QED
      BY <3>6
  <2> QED
    BY <2>1, <2>2, Constants
<1>5. \A m \in Nat : m \in T
  <2> HIDE DEF T
  <2> QED
    BY <1>3, <1>4, ZeroAndNext
<1> QED
  BY <1>5

(* More failures are never owed a shorter wait.                            *)
LEMMA OwedGrows ==
  ASSUME NEW m \in 1 .. Bound, NEW n \in 1 .. Bound, m <= n
  PROVE  Owed[m] <= Owed[n] /\ Owed[n] <= RestartMaxDelay
<1>1. \A k \in 1 .. Bound : Owed[k] <= RestartMaxDelay
  <2> TAKE k \in 1 .. Bound
  <2>1. CASE k = 1
    BY <2>1, OwedIs, Constants
  <2>2. CASE k \in 2 .. Bound
    <3>1. k - 1 \in 0 .. Bound
      BY Constants
    <3> QED
      BY <2>2, <3>1, OwedIs, Constants
  <2> QED
    BY <2>1, <2>2, Constants
<1>2. \A k \in 2 .. Bound : Owed[k - 1] <= Owed[k]
  <2> TAKE k \in 2 .. Bound
  <2>1. k - 1 \in 1 .. Bound /\ k - 1 \in 0 .. Bound
    BY Constants
  <2> QED
    BY <2>1, <1>1, OwedIs, Constants
<1> DEFINE T == {k \in Nat : m <= k /\ k <= Bound => Owed[m] <= Owed[k]}
<1>3. 0 \in T
  OBVIOUS
<1>4. ASSUME NEW k \in Nat, k \in T PROVE k + 1 \in T
  <2>1. CASE m <= k /\ k + 1 <= Bound
    <3>1. k + 1 \in 2 .. Bound /\ k \in 0 .. Bound /\ k + 1 \in 0 .. Bound /\ (k + 1) - 1 = k /\ m \in 0 .. Bound
      BY <2>1, Constants
    <3>2. Owed[k] <= Owed[k + 1]
      BY <3>1, <1>2
    <3>3. Owed[m] <= Owed[k]
      BY <1>4, <2>1, Constants
    <3> QED
      BY <3>1, <3>2, <3>3, OwedIs
  <2>2. CASE m = k + 1
    BY <2>2, OwedIs, Constants
  <2> QED
    BY <2>1, <2>2, Constants
<1>5. n \in T
  <2> HIDE DEF T
  <2> QED
    BY <1>3, <1>4, ZeroAndNext
<1> QED
  BY <1>1, <1>5, Constants

(* What Forget leaves has its type.                                        *)
LEMMA ForgetTypes ==
  ASSUME Types, Forget, group' \in {"none", "loading"}, turn' = "read",
         consecutive' \in 0 .. Bound, wait' \in Nat,
         row' = <<>> \/ row' \in (0 .. Bound) \X (0 .. Bound)
  PROVE  Types'
<1> USE DEF Forget, EachRank, None
<1>1. GroupTypes'
  BY Constants DEF GroupTypes, NoCommand
<1>2. LoopTypes'
  BY Constants DEF LoopTypes
<1>3. WatchdogTypes'
  BY Constants DEF WatchdogTypes
<1>4. GhostTypes'
  BY Constants, LongestIs DEF GhostTypes
<1> QED
  BY <1>1, <1>2, <1>3, <1>4 DEF Types

(* So does a recovery.                                                     *)
LEMMA RecoverTypes ==
  ASSUME Types, NEW cancelled \in BOOLEAN, Recover(cancelled)
  PROVE  Types'
<1>1. Fewest \in 0 .. Bound /\ Most \in 0 .. Bound
  BY Constants DEF Types, GhostTypes, Fewest, Most
<1>2. \A n \in 0 .. Bound : Min({n + 1, Bound}) \in 1 .. Bound
  BY Constants, MinOfTwo
<1>3. consecutive' \in 0 .. Bound
  BY <1>2, Constants DEF Recover, Types, LoopTypes
<1>4. wait' \in Nat
  <2>1. CASE cancelled
    BY <2>1, Constants DEF Recover
  <2>2. CASE ~cancelled
    <3>1. consecutive' \in 1 .. Bound
      BY <1>2, <2>2 DEF Recover, Types, LoopTypes
    <3>2. wait' = Owed[consecutive']
      BY <2>2, <3>1, DelayIsOwed DEF Recover
    <3> QED
      BY <3>1, <3>2, OwedIs
  <2> QED
    BY <2>1, <2>2
<1>5. row' \in (0 .. Bound) \X (0 .. Bound)
  BY <1>1, <1>2, Constants DEF Recover
<1> QED
  BY <1>3, <1>4, <1>5, ForgetTypes DEF Recover

LEMMA TypesStep == Types /\ [WatchdogNext]_wvars => Types'
<1> SUFFICES ASSUME Types, [WatchdogNext]_wvars PROVE Types'
  OBVIOUS
<1> USE DEF Types, None
<1>1. CASE BecomeReady
  <2>1. GroupTypes'
    BY <1>1, Constants, LongestIs DEF BecomeReady, EachRank, GroupTypes, worldVars, watchdogVars, ghosts
  <2>2. LoopTypes'
    BY <1>1, Constants, LongestIs DEF BecomeReady, EachRank, LoopTypes, worldVars, watchdogVars, ghosts
  <2>3. WatchdogTypes'
    BY <1>1, Constants, LongestIs DEF BecomeReady, EachRank, WatchdogTypes, worldVars, watchdogVars, ghosts
  <2>4. GhostTypes'
    BY <1>1, Constants, LongestIs DEF BecomeReady, EachRank, GhostTypes, worldVars, watchdogVars, ghosts
  <2> QED
    BY <2>1, <2>2, <2>3, <2>4
<1>2. CASE \E r \in Ranks : Beat(r)
  <2>1. GroupTypes'
    BY <1>2, Constants, LongestIs DEF Beat, GroupTypes, worldVars, watchdogVars, ghosts
  <2>2. LoopTypes'
    BY <1>2, Constants, LongestIs DEF Beat, LoopTypes, worldVars, watchdogVars, ghosts
  <2>3. WatchdogTypes'
    BY <1>2, Constants, LongestIs DEF Beat, WatchdogTypes, worldVars, watchdogVars, ghosts
  <2>4. GhostTypes'
    BY <1>2, Constants, LongestIs DEF Beat, GhostTypes, worldVars, watchdogVars, ghosts
  <2> QED
    BY <2>1, <2>2, <2>3, <2>4
<1>3. CASE Publish
  <2>1. GroupTypes'
    BY <1>3, Constants, LongestIs DEF Publish, GroupTypes, worldVars, watchdogVars, ghosts
  <2>2. LoopTypes'
    BY <1>3, Constants, LongestIs DEF Publish, LoopTypes, worldVars, watchdogVars, ghosts
  <2>3. WatchdogTypes'
    BY <1>3, Constants, LongestIs DEF Publish, WatchdogTypes, worldVars, watchdogVars, ghosts
  <2>4. GhostTypes'
    BY <1>3, Constants, LongestIs DEF Publish, GhostTypes, worldVars, watchdogVars, ghosts
  <2> QED
    BY <2>1, <2>2, <2>3, <2>4
<1>4. CASE \E r \in Ranks : Take(r)
  <2>1. GroupTypes'
    BY <1>4, Constants, LongestIs DEF Take, GroupTypes, worldVars, watchdogVars, ghosts
  <2>2. LoopTypes'
    BY <1>4, Constants, LongestIs DEF Take, LoopTypes, worldVars, watchdogVars, ghosts
  <2>3. WatchdogTypes'
    BY <1>4, Constants, LongestIs DEF Take, WatchdogTypes, worldVars, watchdogVars, ghosts
  <2>4. GhostTypes'
    BY <1>4, Constants, LongestIs DEF Take, GhostTypes, worldVars, watchdogVars, ghosts
  <2> QED
    BY <2>1, <2>2, <2>3, <2>4
<1>5. CASE Answer
  <2>1. GroupTypes'
    BY <1>5, Constants, LongestIs DEF Answer, EachRank, GroupTypes, worldVars, watchdogVars, ghosts
  <2>2. LoopTypes'
    BY <1>5, Constants, LongestIs DEF Answer, EachRank, LoopTypes, worldVars, watchdogVars, ghosts
  <2>3. WatchdogTypes'
    BY <1>5, Constants, LongestIs DEF Answer, EachRank, WatchdogTypes, worldVars, watchdogVars, ghosts
  <2>4. GhostTypes'
    BY <1>5, Constants, LongestIs DEF Answer, EachRank, GhostTypes, worldVars, watchdogVars, ghosts
  <2> QED
    BY <2>1, <2>2, <2>3, <2>4
<1>6. CASE \E reason \in {"cancelled", "timeout"} : Cancel(reason)
  <2>1. GroupTypes'
    BY <1>6, Constants, LongestIs DEF Cancel, GroupTypes, worldVars, watchdogVars, ghosts
  <2>2. LoopTypes'
    BY <1>6, Constants, LongestIs DEF Cancel, LoopTypes, worldVars, watchdogVars, ghosts
  <2>3. WatchdogTypes'
    BY <1>6, Constants, LongestIs DEF Cancel, WatchdogTypes, worldVars, watchdogVars, ghosts
  <2>4. GhostTypes'
    BY <1>6, Constants, LongestIs DEF Cancel, GhostTypes, worldVars, watchdogVars, ghosts
  <2> QED
    BY <2>1, <2>2, <2>3, <2>4
<1>7. CASE \E r \in Ranks : Hang(r)
  <2>1. GroupTypes'
    BY <1>7, Constants, LongestIs DEF Hang, GroupTypes, worldVars, watchdogVars, ghosts
  <2>2. LoopTypes'
    BY <1>7, Constants, LongestIs DEF Hang, LoopTypes, worldVars, watchdogVars, ghosts
  <2>3. WatchdogTypes'
    BY <1>7, Constants, LongestIs DEF Hang, WatchdogTypes, worldVars, watchdogVars, ghosts
  <2>4. GhostTypes'
    BY <1>7, Constants, LongestIs DEF Hang, GhostTypes, worldVars, watchdogVars, ghosts
  <2> QED
    BY <2>1, <2>2, <2>3, <2>4
<1>8. CASE Exit
  <2>1. GroupTypes'
    BY <1>8, Constants, LongestIs DEF Exit, GroupTypes, worldVars, watchdogVars, ghosts
  <2>2. LoopTypes'
    BY <1>8, Constants, LongestIs DEF Exit, LoopTypes, worldVars, watchdogVars, ghosts
  <2>3. WatchdogTypes'
    BY <1>8, Constants, LongestIs DEF Exit, WatchdogTypes, worldVars, watchdogVars, ghosts
  <2>4. GhostTypes'
    BY <1>8, Constants, LongestIs DEF Exit, GhostTypes, worldVars, watchdogVars, ghosts
  <2> QED
    BY <2>1, <2>2, <2>3, <2>4
<1>9. CASE ReadHealth
  <2>1. GroupTypes'
    BY <1>9, Constants, LongestIs DEF ReadHealth, GroupTypes, worldVars, watchdogVars, ghosts
  <2>2. LoopTypes'
    BY <1>9, Constants, LongestIs DEF ReadHealth, LoopTypes, worldVars, watchdogVars, ghosts
  <2>3. WatchdogTypes'
    BY <1>9, Constants, LongestIs DEF ReadHealth, WatchdogTypes, worldVars, watchdogVars, ghosts
  <2>4. GhostTypes'
    BY <1>9, Constants, LongestIs DEF ReadHealth, GhostTypes, worldVars, watchdogVars, ghosts
  <2> QED
    BY <2>1, <2>2, <2>3, <2>4
<1>10. CASE Launch
  BY <1>10, ForgetTypes, RecoverTypes DEF Launch, LoopTypes, GhostTypes
<1>11. CASE LaunchFails
  BY <1>11, ForgetTypes, RecoverTypes DEF LaunchFails, LoopTypes, GhostTypes
<1>12. CASE RecoverCancelled
  BY <1>12, ForgetTypes, RecoverTypes DEF RecoverCancelled, LoopTypes, GhostTypes
<1>13. CASE RecoverFailed
  BY <1>13, ForgetTypes, RecoverTypes DEF RecoverFailed, LoopTypes, GhostTypes
<1>14. CASE Watch
  <2> USE Constants DEF GroupTypes, LoopTypes, WatchdogTypes, GhostTypes
  <2>1. /\ UNCHANGED <<group, mode, quiet, command, cancel, current, wait, started, ghosts>>
        /\ turn' = "sleep"
        /\ ready_since' \in {0, ready_since}
        /\ consecutive' \in {0, consecutive}
    BY <1>14 DEF Watch
  <2>2. RequestAge \in -1 .. RequestTimeout + 1 /\ IdleAge \in -1 .. IdleTimeout + 1
    BY DEF RequestAge, IdleAge
  <2>3. /\ heartbeat' \in [Ranks -> {"absent", "seen", "new"}]
        /\ beats' \in [Ranks -> -1 .. IdleTimeout + 1]
        /\ token' \in -1 .. 2
        /\ request_started' \in -1 .. RequestTimeout + 1
        /\ idle_since' \in -1 .. IdleTimeout + 1
    <3>1. CASE WatchPending
      BY <2>2, <3>1 DEF WatchPending, EachRank
    <3>2. CASE WatchIdle
      BY <2>2, <3>2 DEF WatchIdle
    <3> QED
      BY <1>14, <3>1, <3>2 DEF Watch
  <2> QED
    BY <2>1, <2>3, LongestIs DEF ghosts
<1>15. CASE Tick
  <2> USE Constants
  <2>1. \A limit \in Nat : \A age \in -1 .. limit : Older(age, limit) \in -1 .. limit
    BY OlderIs
  <2>2. \A limit \in Nat : \A age \in 0 .. limit : Older(age, limit) \in 0 .. limit
    BY OlderIs
  <2>3. GroupTypes'
    <3>1. quiet' \in [Ranks -> 0 .. BeatEvery]
      <4>1. \A age \in 0 .. BeatEvery : Min({age + 1, BeatEvery}) \in 0 .. BeatEvery
        BY MinOfTwo
      <4> QED
        BY <1>15, <4>1 DEF Tick, GroupTypes
    <3>2. command' \in [token : -1 .. 2, age : 0 .. RequestTimeout + 1, answered : BOOLEAN]
      <4>1. command' = [command EXCEPT !.age = Older(command.age, RequestTimeout + 1)]
        BY <1>15 DEF Tick
      <4>2. command.age \in 0 .. RequestTimeout + 1 /\ RequestTimeout + 1 \in Nat
        BY DEF GroupTypes
      <4>3. Older(command.age, RequestTimeout + 1) \in 0 .. RequestTimeout + 1
        BY <2>2, <4>2
      <4> QED
        BY <4>1, <4>3 DEF GroupTypes
    <3>3. UNCHANGED <<group, mode, heartbeat, cancel>>
      BY <1>15 DEF Tick
    <3> QED
      BY <3>1, <3>2, <3>3 DEF GroupTypes
  <2>4. LoopTypes'
    <3>1. wait - 1 \in Int
      BY DEF LoopTypes
    <3>2. wait' \in Nat
      BY <1>15, <3>1, MaxOfTwo DEF Tick
    <3> QED
      BY <1>15, <3>2 DEF Tick, LoopTypes
  <2>5. WatchdogTypes'
    <3>1. started' \in 0 .. StartupTimeout + 1
      BY <1>15, <2>2 DEF Tick, WatchdogTypes
    <3>2. ready_since' \in -1 .. StableSeconds
      BY <1>15, <2>1 DEF Tick, WatchdogTypes
    <3>3. request_started' \in -1 .. RequestTimeout + 1
      BY <1>15, <2>1 DEF Tick, WatchdogTypes
    <3>4. idle_since' \in -1 .. IdleTimeout + 1
      BY <1>15, <2>1 DEF Tick, WatchdogTypes
    <3>5. beats' \in [Ranks -> -1 .. IdleTimeout + 1]
      BY <1>15, <2>1 DEF Tick, WatchdogTypes
    <3>6. token' = token
      BY <1>15 DEF Tick
    <3> QED
      BY <3>1, <3>2, <3>3, <3>4, <3>5, <3>6 DEF WatchdogTypes
  <2>6. GhostTypes'
    <3>1. ready_for' \in -1 .. StableSeconds + 2
      <4>1. StableSeconds + Slack \in Nat
        BY DEF Slack
      <4> QED
        BY <1>15, <2>1, <4>1 DEF Tick, GhostTypes, Slack
    <3>2. sick' \in -1 .. Longest + 1
      <4>1. Longest + 1 \in Nat
        BY LongestIs
      <4> QED
        BY <1>15, <2>1, <4>1 DEF Tick, GhostTypes
    <3>3. idle_for' \in Nat
      <4>1. PICK limit \in Nat : idle_for' = Older(idle_for, limit)
        BY <1>15, MaxOfTwo DEF Tick
      <4> QED
        BY <4>1, OlderIs DEF GhostTypes
    <3>4. row' = row
      BY <1>15 DEF Tick
    <3> QED
      BY <3>1, <3>2, <3>3, <3>4 DEF GhostTypes
  <2> QED
    BY <2>3, <2>4, <2>5, <2>6
<1>16. CASE UNCHANGED wvars
  BY <1>16 DEF wvars, worldVars, watchdogVars, ghosts, GroupTypes, LoopTypes, WatchdogTypes, GhostTypes
<1> QED
  BY <1>1, <1>2, <1>3, <1>4, <1>5, <1>6, <1>7, <1>8, <1>9, <1>10, <1>11, <1>12, <1>13, <1>14, <1>15, <1>16 DEF WatchdogNext

-----------------------------------------------------------------------------
(* The wait after a row of failures.                                       *)

(* The count of the controller lies within what the failures call for.     *)
Counted ==
  /\ row = <<>> => consecutive = 0
  /\ row # <<>> => row[1] <= row[2]
  /\ Fewest <= consecutive /\ consecutive <= Most

(* While there is no group, what was waited and what is left to wait add   *)
(* up to the delay that was fixed when the last one was given up.          *)
Waited ==
  group = "none" /\ row # <<>> =>
    \/ row[1] = 0 /\ row[2] = 0 /\ wait + idle_for = CancelDelay
    \/ 1 <= row[1] /\ wait + idle_for = Owed[consecutive]

(* The watchdog sees a group ready at most a turn late, and the count is   *)
(* cleared in the turn that sees it stable.                                *)
Lag ==
  /\ ready_since <= ready_for
  /\ consecutive # 0 /\ ready_for # None =>
       IF ready_since = None
         THEN ready_for <= (IF turn = "sleep" THEN 0 ELSE 1)
         ELSE /\ ready_for <= ready_since + 1
              /\ turn = "sleep" => ready_since < StableSeconds
  /\ turn = "check" /\ group = "ready" /\ (ready_for >= 1 \/ ready_since # None) => current

(* What the turn of the loop says of the group.                            *)
Turns ==
  /\ group = "none" => turn = "read"
  /\ group \in {"none", "loading"} => ready_for = None /\ ready_since = None /\ ~current
  /\ group = "ready" => ready_for # None

BackOffInv == Turns /\ Counted /\ Waited /\ Lag

(* What these are about.                                                   *)
loopVars == <<group, turn, current, consecutive, wait, ready_since, ready_for, row, idle_for>>

LEMMA BackOffInit == WatchdogInit => BackOffInv
  BY Constants
  DEF WatchdogInit, BackOffInv, Turns, Counted, Waited, Lag, Fewest, Most, None

LEMMA BackOffFrame ==
  ASSUME BackOffInv, UNCHANGED loopVars
  PROVE  BackOffInv'
  BY DEF loopVars, BackOffInv, Turns, Counted, Waited, Lag, Fewest, Most

(* A group that is given up: one failure more, or none.                    *)
LEMMA BackOffRecover ==
  ASSUME Types, BackOffInv, NEW cancelled \in BOOLEAN, Recover(cancelled)
  PROVE  BackOffInv'
<1>1. /\ Fewest \in 0 .. Bound /\ Most \in 0 .. Bound
      /\ Fewest <= consecutive /\ consecutive <= Most /\ consecutive \in 0 .. Bound
  BY Constants DEF Types, GhostTypes, LoopTypes, BackOffInv, Counted, Fewest, Most
<1>2. /\ group' = "none" /\ turn' = "read" /\ current' = FALSE
      /\ ready_since' = -1 /\ ready_for' = -1 /\ idle_for' = 0
  BY DEF Recover, Forget, None
<1>3. CASE cancelled
  <2>1. consecutive' = 0 /\ wait' = CancelDelay /\ row' = <<0, 0>>
    BY <1>3 DEF Recover
  <2> QED
    BY <1>2, <2>1, Constants DEF BackOffInv, Turns, Counted, Waited, Lag, Fewest, Most, None
<1>4. CASE ~cancelled
  <2> DEFINE next(n) == IF n + 1 <= Bound THEN n + 1 ELSE Bound
  <2>1. consecutive' = next(consecutive) /\ row' = <<next(Fewest), next(Most)>>
    BY <1>1, <1>4, MinOfTwo, Constants DEF Recover
  <2>2. /\ next(Fewest) <= next(consecutive) /\ next(consecutive) <= next(Most)
        /\ 1 <= next(Fewest) /\ next(consecutive) \in 1 .. Bound
    BY <1>1, Constants
  <2>3. wait' = Owed[consecutive']
    BY <1>4, <2>1, <2>2, DelayIsOwed DEF Recover
  <2>4. Owed[consecutive'] \in Nat
    BY <2>1, <2>2, OwedIs
  <2>5. /\ row' # <<>> /\ row[1]' = next(Fewest) /\ row[2]' = next(Most)
        /\ Fewest' = next(Fewest) /\ Most' = next(Most)
    BY <1>2, <2>1 DEF Fewest, Most, None
  <2> HIDE DEF next
  <2>6. next(Fewest) \in Int /\ next(Most) \in Int
    BY <1>1, Constants DEF next
  <2>7. Counted'
    BY <2>1, <2>2, <2>5, <2>6 DEF Counted
  <2>8. Waited'
    BY <1>2, <2>2, <2>3, <2>4, <2>5 DEF Waited
  <2> QED
    BY <1>2, <2>7, <2>8 DEF BackOffInv, Turns, Lag, None
<1> QED
  BY <1>3, <1>4

LEMMA BackOffWatch ==
  ASSUME Types, BackOffInv, Watch
  PROVE  BackOffInv'
<1> USE DEF Types, LoopTypes, WatchdogTypes, GhostTypes, None
<1>1. /\ turn = "check" /\ turn' = "sleep" /\ group # "exited"
      /\ ready_since' = IF ready_since = None /\ current THEN 0 ELSE ready_since
      /\ consecutive' = IF Settled THEN 0 ELSE consecutive
      /\ UNCHANGED <<group, current, wait, row, ready_for, idle_for>>
  BY DEF Watch, Fires, ghosts
<1>2. group # "none"
  BY <1>1 DEF BackOffInv, Turns
<1>3. Turns'
  BY <1>1, <1>2 DEF BackOffInv, Turns
<1>4. Settled => ready_for >= StableSeconds
  BY <1>1, Constants DEF BackOffInv, Turns, Lag, Settled
<1>5. Fewest' = Fewest /\ Most' = Most
  BY <1>1 DEF Fewest, Most
<1>6. Fewest \in Int /\ Most \in Nat
  BY Constants DEF Fewest, Most
<1>7. Counted'
  BY <1>1, <1>4, <1>5, <1>6, Constants DEF BackOffInv, Counted, Fewest
<1>8. Waited'
  BY <1>1, <1>2 DEF Waited
<1>9. Lag'
  <2>1. ready_since' <= ready_for'
    BY <1>1, <1>2, Constants DEF GroupTypes, BackOffInv, Turns, Lag
  <2>2. ASSUME consecutive' # 0, ready_for # None, ready_since' = None
        PROVE  ready_for <= 0
    BY <1>1, <1>2, <2>2, Constants DEF GroupTypes, BackOffInv, Turns, Lag, Settled
  <2>3. ASSUME consecutive' # 0, ready_for # None, ready_since' # None
        PROVE  ready_for <= ready_since' + 1 /\ ready_since' < StableSeconds
    BY <1>1, <1>2, <2>3, Constants DEF GroupTypes, BackOffInv, Turns, Lag, Settled
  <2> QED
    BY <1>1, <2>1, <2>2, <2>3 DEF Lag
<1> QED
  BY <1>3, <1>7, <1>8, <1>9 DEF BackOffInv

LEMMA BackOffTick ==
  ASSUME Types, BackOffInv, Tick
  PROVE  BackOffInv'
<1> USE DEF Types, LoopTypes, WatchdogTypes, GhostTypes, None
<1>1. /\ turn = "sleep" \/ (turn = "read" /\ group = "none" /\ wait > 0)
      /\ turn' = "read"
      /\ UNCHANGED <<group, current, consecutive, row>>
  BY DEF Tick
<1>2. wait' = IF wait >= 1 THEN wait - 1 ELSE 0
  <2>1. wait - 1 \in Int /\ 0 \in Int
    OBVIOUS
  <2>2. wait' = Max({wait - 1, 0})
    BY DEF Tick
  <2>3. wait' = IF wait - 1 >= 0 THEN wait - 1 ELSE 0
    BY <2>1, <2>2, MaxOfTwo
  <2> QED
    BY <2>3
<1>3. /\ ready_since' = IF ready_since = -1 THEN -1
                        ELSE IF ready_since + 1 <= StableSeconds THEN ready_since + 1 ELSE StableSeconds
      /\ ready_for' = IF ready_for = -1 THEN -1
                      ELSE IF ready_for + 1 <= StableSeconds + 2 THEN ready_for + 1 ELSE StableSeconds + 2
  <2>1. /\ ready_since' = Older(ready_since, StableSeconds)
        /\ ready_for' = Older(ready_for, StableSeconds + 2)
    BY DEF Tick, Slack
  <2>2. ready_since \in Int /\ ready_for \in Int /\ StableSeconds \in Int /\ StableSeconds + 2 \in Int
    BY Constants
  <2> QED
    BY <2>1, <2>2, OlderIs
<1>4. idle_for < RestartMaxDelay \/ idle_for < CancelDelay => idle_for' = idle_for + 1
  <2> DEFINE limit == Max({RestartMaxDelay, CancelDelay}) + 1
  <2>1. limit \in Nat /\ limit > RestartMaxDelay /\ limit > CancelDelay
    BY MaxOfTwo, Constants
  <2>2. idle_for' = Older(idle_for, limit)
    BY DEF Tick
  <2> HIDE DEF limit
  <2> QED
    BY <2>1, <2>2, OlderIs, Constants
<1>5. Turns'
  BY <1>1, <1>3 DEF BackOffInv, Turns
<1>6. Counted'
  <2>1. Fewest' \in {0, Fewest} /\ Fewest \in Nat /\ Fewest' <= Fewest
    BY <1>1, <1>3, Constants DEF Fewest
  <2>2. Most' = Most \/ (Most' = 0 /\ ready_for' >= StableSeconds + 2)
    BY <1>1, <1>3, Constants DEF Most, Slack
  <2>3. Most \in Nat /\ (ready_for >= StableSeconds + 2 => Most = 0)
    BY Constants DEF Most, Slack
  <2>4. turn = "sleep" /\ ready_for >= StableSeconds + 1 => consecutive = 0
    BY Constants DEF BackOffInv, Lag
  <2>5. ready_for' >= StableSeconds + 2 => consecutive = 0
    BY <1>1, <1>3, <2>4, Constants DEF BackOffInv, Turns
  <2> QED
    BY <1>1, <2>1, <2>2, <2>3, <2>5, Constants DEF BackOffInv, Counted
<1>7. Waited'
  <2> SUFFICES ASSUME group' = "none", row' # <<>>
               PROVE  \/ row[1]' = 0 /\ row[2]' = 0 /\ wait' + idle_for' = CancelDelay
                      \/ 1 <= row[1]' /\ wait' + idle_for' = Owed[consecutive']
    BY DEF Waited
  <2>1. wait > 0 /\ wait' = wait - 1
    BY <1>1, <1>2 DEF BackOffInv, Turns
  <2>2. CASE row[1] = 0 /\ row[2] = 0 /\ wait + idle_for = CancelDelay
    BY <1>1, <1>4, <2>1, <2>2, Constants
  <2>3. CASE 1 <= row[1] /\ wait + idle_for = Owed[consecutive]
    <3>1. consecutive \in 1 .. Bound
      BY <1>1, <2>3, Constants DEF BackOffInv, Counted, Turns, Fewest
    <3>2. Owed[consecutive] <= RestartMaxDelay /\ Owed[consecutive] \in Nat
      BY <3>1, OwedGrows, OwedIs, Constants
    <3> QED
      BY <1>1, <1>4, <2>1, <2>3, <3>2, Constants
  <2> QED
    BY <1>1, <2>2, <2>3 DEF BackOffInv, Waited
<1>8. Lag'
  BY <1>1, <1>3, Constants DEF BackOffInv, Turns, Lag
<1> QED
  BY <1>5, <1>6, <1>7, <1>8 DEF BackOffInv

LEMMA BackOffStep == Types /\ BackOffInv /\ [WatchdogNext]_wvars => BackOffInv'
<1> SUFFICES ASSUME Types, BackOffInv, [WatchdogNext]_wvars PROVE BackOffInv'
  OBVIOUS
<1>1. CASE BecomeReady
  BY <1>1, Constants DEF BecomeReady, watchdogVars, Types, LoopTypes, GhostTypes, WatchdogTypes,
     BackOffInv, Turns, Counted, Waited, Lag, Fewest, Most, None, Slack
<1>2. CASE Exit
  BY <1>2 DEF Exit, watchdogVars, ghosts, BackOffInv, Turns, Counted, Waited, Lag, Fewest, Most, None
<1>3. CASE ReadHealth
  BY <1>3 DEF ReadHealth, worldVars, watchdogVars, ghosts,
     BackOffInv, Turns, Counted, Waited, Lag, Fewest, Most, None
<1>4. CASE Launch
  BY <1>4 DEF Launch, Forget, BackOffInv, Turns, Counted, Waited, Lag, Fewest, Most, None
<1>5. CASE LaunchFails
  BY <1>5, BackOffRecover DEF LaunchFails
<1>6. CASE RecoverCancelled
  BY <1>6, BackOffRecover DEF RecoverCancelled
<1>7. CASE RecoverFailed
  BY <1>7, BackOffRecover DEF RecoverFailed
<1>8. CASE Watch
  BY <1>8, BackOffWatch
<1>9. CASE Tick
  BY <1>9, BackOffTick
<1>10. CASE \/ Publish \/ Answer
            \/ \E r \in Ranks : Beat(r) \/ Take(r) \/ Hang(r)
            \/ \E reason \in {"cancelled", "timeout"} : Cancel(reason)
            \/ UNCHANGED wvars
  <2>1. UNCHANGED loopVars
    BY <1>10 DEF loopVars, Publish, Answer, Beat, Take, Hang, Cancel, wvars, worldVars, watchdogVars, ghosts
  <2> QED
    BY <2>1, BackOffFrame
<1> QED
  BY <1>1, <1>2, <1>3, <1>4, <1>5, <1>6, <1>7, <1>8, <1>9, <1>10 DEF WatchdogNext

(* The next attempt waits for the delay that the failures in a row call    *)
(* for, as it is doubled by each of them, no less and no more.             *)
THEOREM BacksOff == WatchdogSpec => []BackOffHolds
<1>1. WatchdogInit => Types /\ BackOffInv
  BY TypesInit, BackOffInit
<1>2. Types /\ BackOffInv /\ [WatchdogNext]_wvars => (Types /\ BackOffInv)'
  BY TypesStep, BackOffStep
<1>3. Types /\ BackOffInv => BackOffHolds
  <2> SUFFICES ASSUME Types, BackOffInv, group = "none", row # <<>>
               PROVE  (wait = 0 => idle_for >= Owed[row[1]]) /\ idle_for <= Owed[row[2]]
    BY DEF BackOffHolds
  <2> USE DEF Types, LoopTypes, GhostTypes
  <2>1. /\ Fewest = row[1] /\ Most = row[2]
        /\ row[1] \in 0 .. Bound /\ row[2] \in 0 .. Bound
    BY DEF BackOffInv, Turns, Fewest, Most
  <2>2. row[1] <= consecutive /\ consecutive <= row[2]
    BY <2>1 DEF BackOffInv, Counted
  <2>3. CASE row[1] = 0 /\ row[2] = 0 /\ wait + idle_for = CancelDelay
    BY <2>3, OwedIs, Constants
  <2>4. CASE 1 <= row[1] /\ wait + idle_for = Owed[consecutive]
    <3>1. row[1] \in 1 .. Bound /\ row[2] \in 1 .. Bound /\ consecutive \in 1 .. Bound
      BY <2>1, <2>2, <2>4, Constants
    <3>2. Owed[row[1]] <= Owed[consecutive] /\ Owed[consecutive] <= Owed[row[2]]
      BY <2>2, <3>1, OwedGrows
    <3>3. Owed[row[1]] \in Nat /\ Owed[consecutive] \in Nat /\ Owed[row[2]] \in Nat
      BY <3>1, OwedIs, Constants
    <3> QED
      BY <2>4, <3>2, <3>3
  <2> QED
    BY <2>3, <2>4 DEF BackOffInv, Waited
<1> QED
  BY <1>1, <1>2, <1>3, PTL DEF WatchdogSpec

-----------------------------------------------------------------------------
(* No group is taken down without cause.                                   *)

(* Until its group is ready nothing has been asked of a rank or seen of it.*)
Unseen ==
  /\ group \in {"none", "loading"} =>
       /\ heartbeat = EachRank("absent")
       /\ \A r \in Ranks : mode[r] # "busy"
  /\ ready_since = None => /\ command.token = None /\ token = None
                          /\ idle_since = None /\ beats = EachRank(None)
  /\ ready_since = None /\ turn = "sleep" => ~current

(* The command the watchdog knows is the last one, and is not younger to   *)
(* it than it is; or up to two have been published since it looked.        *)
Known ==
  /\ token = None => request_started = None
  /\ token # None =>
       \/ command.token = token /\ request_started # None /\ request_started <= command.age
       \/ command.token = (token + 1) % 3 /\ (turn = "sleep" => command.age = 0)
       \/ command.token = (token + 2) % 3 /\ turn # "sleep" /\ command.age = 0

(* A rank that has never beaten is about to, before the next tick; what    *)
(* was seen of one that has is no older than its last beat.                *)
Beating(r) ==
  /\ mode[r] # "hung"
  /\ mode[r] = "busy" => Pending
  /\ heartbeat[r] = "absent" =>
       beats[r] = None /\ mode[r] = "loop" /\ quiet[r] = BeatEvery /\ idle_since <= 0
  /\ heartbeat[r] = "seen" =>
       /\ beats[r] # None /\ beats[r] <= quiet[r]
       /\ mode[r] = "busy" /\ turn = "sleep" => quiet[r] < BeatEvery

Healthy == sick = None => /\ \A r \in Ranks : mode[r] # "hung"
                          /\ group = "ready" => \A r \in Ranks : Beating(r)

HealthyInv == Unseen /\ Known /\ Healthy

LEMMA HealthyInit == WatchdogInit => HealthyInv
  BY DEF WatchdogInit, HealthyInv, Unseen, Known, Healthy, NoCommand, EachRank, None

(* A new instance starts with all of this.                                 *)
LEMMA HealthyForget ==
  ASSUME Forget, group' \in {"none", "loading"}
  PROVE  HealthyInv'
  BY DEF Forget, HealthyInv, Unseen, Known, Healthy, NoCommand, EachRank, None

LEMMA UnseenStep ==
  ASSUME Types, Turns, Unseen, [WatchdogNext]_wvars
  PROVE  Unseen'
<1> USE DEF Unseen, EachRank, None, Types, GroupTypes, worldVars, watchdogVars, ghosts
<1>1. CASE Launch \/ LaunchFails \/ RecoverCancelled \/ RecoverFailed
  BY <1>1, HealthyForget DEF Launch, LaunchFails, RecoverCancelled, RecoverFailed, Recover, HealthyInv
<1>2. CASE BecomeReady \/ Publish \/ Answer \/ Exit \/ ReadHealth
  BY <1>2 DEF BecomeReady, Publish, Answer, Exit, ReadHealth
<1>3. ASSUME NEW r \in Ranks, Beat(r) \/ Take(r) \/ Hang(r)
      PROVE  Unseen'
  BY <1>3 DEF Beat, Take, Hang
<1>4. ASSUME NEW reason \in {"cancelled", "timeout"}, Cancel(reason)
      PROVE  Unseen'
  BY <1>4 DEF Cancel
<1>5. CASE Watch
  <2>1. group # "none"
    BY <1>5 DEF Watch, Turns
  <2>2. CASE ~SeenReady
    BY <1>5, <2>1, <2>2 DEF Watch, SeenReady
  <2>3. CASE SeenReady
    <3>1. ready_since' # None /\ group # "loading" /\ group' = group
      BY <1>5, <2>3 DEF Watch, SeenReady, Turns
    <3> QED
      BY <2>1, <3>1
  <2> QED
    BY <2>2, <2>3
<1>6. CASE Tick
  <2>1. /\ UNCHANGED <<group, mode, heartbeat, token>> /\ turn' = "read"
        /\ command'.token = command.token
    BY <1>6 DEF Tick
  <2>2. ready_since' = None <=> ready_since = None
    BY <1>6, Constants, OlderIs DEF Tick, WatchdogTypes
  <2>3. ready_since = None => idle_since' = None /\ beats' = EachRank(None)
    BY <1>6 DEF Tick, Older
  <2> QED
    BY <2>1, <2>2, <2>3
<1>7. CASE UNCHANGED wvars
  BY <1>7 DEF wvars
<1> QED
  BY <1>1, <1>2, <1>3, <1>4, <1>5, <1>6, <1>7 DEF WatchdogNext

(* Three numbers tell the last commands apart.                             *)
LEMMA Modulo ==
  ASSUME NEW n \in 0 .. 2
  PROVE  /\ (n + 1) % 3 \in 0 .. 2 /\ (n + 2) % 3 \in 0 .. 2
         /\ (n + 1) % 3 # n /\ (n + 2) % 3 # n /\ (n + 1) % 3 # (n + 2) % 3
         /\ (((n + 1) % 3) + 1) % 3 = (n + 2) % 3
<1>1. n = 0 \/ n = 1 \/ n = 2
  OBVIOUS
<1> QED
  BY <1>1

LEMMA KnownStep ==
  ASSUME Types, Turns, Unseen, Known, [WatchdogNext]_wvars
  PROVE  Known'
<1> USE DEF Known, None, Types, GroupTypes, WatchdogTypes, worldVars, watchdogVars, ghosts
<1>1. CASE Launch \/ LaunchFails \/ RecoverCancelled \/ RecoverFailed
  BY <1>1, HealthyForget DEF Launch, LaunchFails, RecoverCancelled, RecoverFailed, Recover, HealthyInv
<1>2. CASE BecomeReady \/ Exit \/ ReadHealth
  BY <1>2 DEF BecomeReady, Exit, ReadHealth
<1>3. CASE Answer
  BY <1>3 DEF Answer
<1>4. CASE Publish
  <2>1. /\ command'.token = (command.token + 1) % 3 /\ command'.age = 0
        /\ command.token = -1 \/ command.age > 0
        /\ UNCHANGED <<token, request_started, turn>>
    BY <1>4 DEF Publish
  <2>2. CASE token = -1
    BY <2>1, <2>2
  <2>3. CASE token \in 0 .. 2
    BY <2>1, <2>3, Modulo
  <2> QED
    BY <2>2, <2>3
<1>5. ASSUME NEW r \in Ranks, Beat(r) \/ Take(r) \/ Hang(r)
      PROVE  Known'
  BY <1>5 DEF Beat, Take, Hang
<1>6. ASSUME NEW reason \in {"cancelled", "timeout"}, Cancel(reason)
      PROVE  Known'
  BY <1>6 DEF Cancel
<1>7. CASE Watch
  <2>1. UNCHANGED command /\ turn = "check" /\ turn' = "sleep"
    BY <1>7 DEF Watch
  <2>2. CASE ~SeenReady
    <3>1. UNCHANGED <<token, request_started>> /\ ~current /\ ready_since = None
      BY <1>7, <2>2 DEF Watch, SeenReady
    <3>2. token = None
      BY <3>1 DEF Unseen
    <3> QED
      BY <3>1, <3>2
  <2>3. CASE WatchPending
    BY <2>1, <2>3, Modulo DEF WatchPending, RequestAge
  <2>4. CASE WatchIdle
    BY <2>1, <2>4 DEF WatchIdle
  <2> QED
    BY <1>7, <2>2, <2>3, <2>4 DEF Watch
<1>8. CASE Tick
  <2>1. /\ token' = token /\ command'.token = command.token /\ turn' = "read"
        /\ command'.age = Older(command.age, RequestTimeout + 1)
        /\ request_started' = Older(request_started, RequestTimeout + 1)
        /\ turn = "sleep" \/ group = "none"
    BY <1>8 DEF Tick
  <2>2. request_started <= command.age => request_started' <= command'.age
    BY <2>1, OlderIs, Constants
  <2>3. request_started' = None <=> request_started = None
    BY <2>1, OlderIs, Constants
  <2>4. token # None => turn = "sleep"
    BY <2>1 DEF Unseen, Turns
  <2> QED
    BY <2>1, <2>2, <2>3, <2>4
<1>9. CASE UNCHANGED wvars
  BY <1>9 DEF wvars
<1> QED
  BY <1>1, <1>2, <1>3, <1>4, <1>5, <1>6, <1>7, <1>8, <1>9 DEF WatchdogNext

LEMMA HealthyStep ==
  ASSUME Types, Turns, Unseen, Known, Healthy, [WatchdogNext]_wvars
  PROVE  Healthy'
<1> USE DEF Healthy, Beating, EachRank, Pending, None, Types, GroupTypes, LoopTypes, WatchdogTypes,
            worldVars, watchdogVars, ghosts
<1>1. CASE Launch \/ LaunchFails \/ RecoverCancelled \/ RecoverFailed
  BY <1>1, HealthyForget DEF Launch, LaunchFails, RecoverCancelled, RecoverFailed, Recover, HealthyInv
<1>2. CASE BecomeReady
  <2>1. /\ UNCHANGED <<mode, heartbeat, command, sick, watchdogVars>>
        /\ group = "loading" /\ \A r \in Ranks : quiet'[r] = BeatEvery
    BY <1>2 DEF BecomeReady
  <2>2. \A r \in Ranks : /\ heartbeat[r] = "absent" /\ mode[r] # "busy"
                         /\ idle_since = -1 /\ beats[r] = -1
    BY <2>1 DEF Unseen, Turns
  <2> QED
    BY <2>1, <2>2
<1>3. ASSUME NEW r \in Ranks, Beat(r)
      PROVE  Healthy'
  BY <1>3, Constants DEF Beat
<1>4. CASE Publish
  <2>1. /\ UNCHANGED <<group, mode, quiet, heartbeat, turn, watchdogVars, sick>>
        /\ command'.token = (command.token + 1) % 3 /\ command'.answered = FALSE
    BY <1>4 DEF Publish
  <2>2. command'.token # -1
    <3>1. command.token = -1 \/ command.token = 0 \/ command.token = 1 \/ command.token = 2
      OBVIOUS
    <3> QED
      BY <2>1, <3>1
  <2> QED
    BY <2>1, <2>2
<1>5. ASSUME NEW r \in Ranks, Take(r)
      PROVE  Healthy'
  BY <1>5, Constants DEF Take
<1>6. CASE Answer
  BY <1>6 DEF Answer
<1>7. ASSUME NEW r \in Ranks, Hang(r)
      PROVE  Healthy'
  BY <1>7 DEF Hang
<1>8. CASE Exit
  BY <1>8 DEF Exit
<1>9. ASSUME NEW reason \in {"cancelled", "timeout"}, Cancel(reason)
      PROVE  Healthy'
  BY <1>9 DEF Cancel
<1>10. CASE ReadHealth
  BY <1>10 DEF ReadHealth
<1>11. CASE Watch
  <2>1. /\ UNCHANGED <<group, mode, quiet, command, sick>>
        /\ turn = "check" /\ turn' = "sleep"
    BY <1>11 DEF Watch
  <2> SUFFICES ASSUME sick = None, group = "ready", NEW r \in Ranks
               PROVE  Beating(r)'
    BY <2>1
  <2>2. CASE ~SeenReady
    BY <1>11, <2>1, <2>2 DEF Watch, SeenReady, Unseen
  <2>3. CASE Pending /\ WatchPending
    BY <2>1, <2>3 DEF WatchPending
  <2>4. CASE ~Pending /\ WatchIdle
    BY <2>1, <2>4 DEF WatchIdle, IdleAge
  <2> QED
    BY <1>11, <2>2, <2>3, <2>4 DEF Watch
<1>12. CASE Tick
  <2>1. /\ UNCHANGED <<group, mode, heartbeat>> /\ turn' = "read"
        /\ command'.token = command.token /\ command'.answered = command.answered
        /\ turn = "sleep" \/ group = "none"
        /\ group = "ready" => \A r \in Ranks : mode[r] = "loop" => quiet[r] < BeatEvery
    BY <1>12 DEF Tick
  <2>2. sick' = None <=> sick = None
    <3>1. sick' = Older(sick, Longest + 1) /\ sick \in -1 .. Longest + 1 /\ Longest + 1 \in Nat
      BY <1>12, LongestIs, SMTT(30) DEF Tick, GhostTypes
    <3> QED
      BY <3>1, OlderIs
  <2> SUFFICES ASSUME sick = None, group = "ready", NEW r \in Ranks
               PROVE  Beating(r)'
    BY <2>1, <2>2
  <2>3. heartbeat[r] # "absent"
    BY <2>1, Constants
  <2>4. ASSUME heartbeat[r] = "seen"
        PROVE  beats'[r] # None /\ beats'[r] <= quiet'[r]
    <3>1. beats[r] # -1 /\ beats[r] <= quiet[r]
      BY <2>4
    <3>2. quiet[r] < BeatEvery
      <4>1. turn = "sleep"
        BY <2>1
      <4>2. CASE mode[r] = "loop"
        BY <2>1, <4>2
      <4>3. CASE mode[r] = "busy"
        BY <2>4, <4>1, <4>3
      <4> QED
        BY <4>2, <4>3
    <3>3. quiet'[r] = quiet[r] + 1
      <4>1. quiet'[r] = Min({quiet[r] + 1, BeatEvery}) /\ quiet[r] + 1 \in Int /\ BeatEvery \in Int
        BY <1>12, Constants DEF Tick
      <4> QED
        BY <3>2, <4>1, MinOfTwo, Constants
    <3>4. beats'[r] = Older(beats[r], IdleTimeout + 1)
      BY <1>12 DEF Tick
    <3>5. beats'[r] \in Int /\ beats'[r] # -1 /\ beats'[r] <= beats[r] + 1
      <4>1. beats[r] \in -1 .. IdleTimeout + 1 /\ IdleTimeout + 1 \in Nat
        BY Constants
      <4> QED
        BY <3>1, <3>4, <4>1, OlderIs
    <3>6. beats[r] \in Int /\ quiet[r] \in Int
      BY Constants
    <3> QED
      BY <3>1, <3>3, <3>5, <3>6
  <2> QED
    BY <2>1, <2>3, <2>4
<1>13. CASE UNCHANGED wvars
  BY <1>13 DEF wvars
<1> QED
  BY <1>1, <1>2, <1>3, <1>4, <1>5, <1>6, <1>7, <1>8, <1>9, <1>10, <1>11, <1>12, <1>13 DEF WatchdogNext

(* A group that has not failed and meets its deadlines is not taken down.  *)
THEOREM SparesTheHealthy == WatchdogSpec => HealthyIsSpared
<1> DEFINE Inv == Types /\ BackOffInv /\ HealthyInv
           Spared == turn = "check" /\ cancel = "none" /\ turn' = "read" =>
                       \/ group = "exited"
                       \/ sick # None
                       \/ ready_since = None /\ started > StartupTimeout
                       \/ Pending /\ command.age > RequestTimeout
<1>1. WatchdogInit => Inv
  BY TypesInit, BackOffInit, HealthyInit
<1>2. Inv /\ [WatchdogNext]_wvars => Inv'
  BY TypesStep, BackOffStep, UnseenStep, KnownStep, HealthyStep DEF BackOffInv, HealthyInv
<1>3. Inv /\ [WatchdogNext]_wvars => [Spared]_wvars
  <2> SUFFICES ASSUME Inv, WatchdogNext, turn = "check", cancel = "none", turn' = "read"
               PROVE  \/ group = "exited"
                      \/ sick # None
                      \/ ready_since = None /\ started > StartupTimeout
                      \/ Pending /\ command.age > RequestTimeout
    OBVIOUS
  <2>1. Fires
    BY DEF WatchdogNext, BecomeReady, Publish, Answer, Exit, Beat, Take, Hang, Cancel, ReadHealth,
           Launch, LaunchFails, RecoverCancelled, RecoverFailed, Watch, Tick
  <2>2. CASE ~SeenReady /\ started > StartupTimeout
    BY <2>2 DEF SeenReady
  <2>3. CASE SeenReady /\ Pending /\ RequestAge > RequestTimeout
    <3>1. RequestAge <= command.age
      BY <2>3, Modulo DEF RequestAge, Pending, HealthyInv, Known, None, Types, GroupTypes, WatchdogTypes
    <3> QED
      BY <2>3, <3>1, Constants DEF RequestAge, Types, GroupTypes, WatchdogTypes
  <2>4. ASSUME SeenReady, ~Pending, sick = None, group # "exited",
               NEW r \in Ranks, heartbeat[r] # "new",
               (IF beats[r] = None THEN IdleAge ELSE beats[r]) > IdleTimeout
        PROVE  FALSE
    <3>1. Beating(r)
      BY <2>4 DEF SeenReady, BackOffInv, Turns, HealthyInv, Healthy, Types, GroupTypes
    <3>2. heartbeat[r] \in {"absent", "seen"} /\ quiet[r] \in 0 .. BeatEvery
          /\ beats[r] \in Int /\ idle_since \in Int
      BY <2>4 DEF Types, GroupTypes, WatchdogTypes
    <3> QED
      BY <2>4, <3>1, <3>2, Constants DEF Beating, IdleAge, None
  <2> QED
    BY <2>1, <2>2, <2>3, <2>4 DEF Fires
<1> QED
  BY <1>1, <1>2, <1>3, PTL DEF WatchdogSpec, HealthyIsSpared

-----------------------------------------------------------------------------
(* No hang is overlooked.                                                  *)

(* The watchdog counts the age of what it saw last of a rank: of its       *)
(* heartbeat, or of the idleness since which it has waited for one.        *)
Counting(r) == heartbeat[r] # "new" /\ (beats[r] # None \/ idle_since # None)
Clock(r) == IF beats[r] = None THEN IdleAge ELSE beats[r]

(* While the loop sleeps, no deadline has passed.                          *)
InTime ==
  turn = "sleep" =>
    /\ group = "loading" => started <= StartupTimeout
    /\ token # None /\ token = command.token => request_started <= RequestTimeout
    /\ \A r \in Ranks : Counting(r) => Clock(r) <= IdleTimeout

(* The age of a hang against the clock that will end it: what the watchdog *)
(* counts of the rank, or of a command that was published meanwhile.       *)
Overlooked(r) ==
  IF ~Pending
  THEN sick <= IF Counting(r) THEN Clock(r) + 1 ELSE IF turn = "sleep" THEN 0 ELSE 1
  ELSE sick <= IF token = command.token
               THEN IdleTimeout + 2 + request_started
               ELSE IF turn = "sleep" THEN IdleTimeout + 1 ELSE IdleTimeout + 2

HangInv ==
  /\ group = "none" => sick = None
  /\ group = "loading" => sick <= started
  /\ group = "ready" /\ ready_since = None =>
       sick <= IF turn = "sleep" \/ (turn = "check" /\ ~current) THEN 0 ELSE 1
  /\ group = "ready" /\ sick # None => \E r \in Ranks : mode[r] = "hung" /\ Overlooked(r)
  /\ sick <= Longest
  /\ turn = "sleep" => sick < Longest

LEMMA InTimeStep ==
  ASSUME Types, Turns, Unseen, Known, InTime, [WatchdogNext]_wvars
  PROVE  InTime'
<1> SUFFICES ASSUME turn' = "sleep" PROVE InTime'
  BY DEF InTime
<1> USE DEF InTime, Counting, Clock, IdleAge, None, Types, GroupTypes, WatchdogTypes,
            worldVars, watchdogVars, ghosts
<1>1. CASE BecomeReady \/ Answer \/ Exit
  BY <1>1 DEF BecomeReady, Answer, Exit
<1>2. CASE Publish
  <2>1. /\ command'.token = (command.token + 1) % 3
        /\ command.token = -1 \/ command.age > 0
        /\ UNCHANGED <<group, heartbeat, turn, watchdogVars>>
    BY <1>2 DEF Publish
  <2>2. token # -1 => token # command'.token
    <3>1. CASE token \in 0 .. 2
      BY <2>1, <3>1, Modulo DEF Known
    <3> QED
      BY <3>1
  <2> QED
    BY <2>1, <2>2
<1>3. ASSUME NEW r \in Ranks, Beat(r) \/ Take(r) \/ Hang(r)
      PROVE  InTime'
  BY <1>3 DEF Beat, Take, Hang
<1>4. ASSUME NEW reason \in {"cancelled", "timeout"}, Cancel(reason)
      PROVE  InTime'
  BY <1>4 DEF Cancel
<1>5. CASE Watch
  <2>1. UNCHANGED <<group, command, started>> /\ ~Fires /\ group # "none"
    BY <1>5 DEF Watch, Turns
  <2>2. CASE ~SeenReady
    <3>1. /\ UNCHANGED <<token, request_started, idle_since, beats, heartbeat>>
          /\ ready_since = -1 /\ started <= StartupTimeout
      BY <1>5, <2>1, <2>2, Constants DEF Watch, SeenReady, Fires
    <3>2. token = -1 /\ idle_since = -1 /\ \A r \in Ranks : beats[r] = -1
      BY <3>1 DEF Unseen, EachRank
    <3> QED
      BY <2>1, <3>1, <3>2
  <2>3. CASE SeenReady /\ Pending /\ WatchPending
    <3>1. group # "loading"
      BY <2>3 DEF SeenReady, Turns
    <3>2. RequestAge <= RequestTimeout
      BY <2>1, <2>3, Constants DEF Fires, RequestAge
    <3>3. request_started' = RequestAge /\ idle_since' = -1 /\ \A r \in Ranks : beats'[r] = -1
      BY <2>3 DEF WatchPending, EachRank
    <3> QED
      BY <2>1, <3>1, <3>2, <3>3
  <2>4. CASE SeenReady /\ ~Pending /\ WatchIdle
    <3>1. group # "loading"
      BY <2>4 DEF SeenReady, Turns
    <3>2. ASSUME NEW r \in Ranks
          PROVE  Clock(r)' <= IdleTimeout
      <4>1. CASE heartbeat[r] = "new"
        BY <2>4, <4>1, Constants DEF WatchIdle
      <4>2. CASE heartbeat[r] # "new"
        <5>1. Clock(r) <= IdleTimeout
          BY <2>1, <2>4, <4>2, Constants DEF Fires
        <5>2. beats'[r] = beats[r] /\ idle_since' = IdleAge
          BY <2>4, <4>2 DEF WatchIdle
        <5> QED
          BY <5>1, <5>2
      <4> QED
        BY <4>1, <4>2
    <3>3. token' = -1
      BY <2>4 DEF WatchIdle
    <3> QED
      BY <2>1, <3>1, <3>2, <3>3
  <2> QED
    BY <1>5, <2>2, <2>3, <2>4 DEF Watch
<1>6. CASE ReadHealth \/ Launch \/ LaunchFails \/ RecoverCancelled \/ RecoverFailed \/ Tick
  BY <1>6 DEF ReadHealth, Launch, LaunchFails, RecoverCancelled, RecoverFailed, Recover, Tick
<1>7. CASE UNCHANGED wvars
  BY <1>7 DEF wvars
<1> QED
  BY <1>1, <1>2, <1>3, <1>4, <1>5, <1>6, <1>7 DEF WatchdogNext

LEMMA HangInit == WatchdogInit => InTime /\ HangInv
  BY LongestIs DEF WatchdogInit, InTime, HangInv, None

LEMMA HangForget ==
  ASSUME Forget, turn' = "read", group' \in {"none", "loading"}
  PROVE  HangInv'
  BY LongestIs DEF Forget, HangInv, None

(* What the watchdog counts of a rank that hangs, turn by turn.            *)
LEMMA HangWatch ==
  ASSUME Types, Turns, Unseen, InTime', HangInv, Watch
  PROVE  HangInv'
<1> USE DEF None, Types, GroupTypes, LoopTypes, WatchdogTypes, GhostTypes
<1>1. /\ UNCHANGED <<group, mode, command, current, started, sick>>
      /\ turn = "check" /\ turn' = "sleep" /\ group \in {"loading", "ready"} /\ ~Fires
  BY DEF Watch, Turns, Fires, ghosts
<1>2. CASE group = "loading"
  BY <1>1, <1>2, LongestIs, Constants DEF HangInv, InTime
<1>3. CASE group = "ready" /\ sick = -1
  BY <1>1, <1>3, LongestIs DEF HangInv
<1>4. CASE group = "ready" /\ sick # -1 /\ ~SeenReady
  <2>1. /\ ~current /\ ready_since = -1
        /\ UNCHANGED <<ready_since, token, request_started, idle_since, beats, heartbeat>>
    BY <1>1, <1>4 DEF Watch, SeenReady
  <2>2. sick <= 0
    BY <1>1, <1>4, <2>1 DEF HangInv
  <2>3. ~Pending /\ \A r \in Ranks : ~Counting(r)
    BY <2>1 DEF Unseen, Pending, Counting, EachRank
  <2>4. PICK h \in Ranks : mode[h] = "hung"
    BY <1>4 DEF HangInv
  <2>5. Overlooked(h)'
    BY <1>1, <2>1, <2>2, <2>3 DEF Overlooked, Pending, Counting
  <2> QED
    BY <1>1, <1>4, <2>1, <2>2, <2>4, <2>5, LongestIs, Constants DEF HangInv
<1>5. CASE group = "ready" /\ sick # -1 /\ SeenReady
  <2>1. ready_since' # -1
    BY <1>5 DEF Watch, SeenReady
  <2>2. PICK h \in Ranks : mode[h] = "hung" /\ Overlooked(h)
    BY <1>5 DEF HangInv
  <2>3. Overlooked(h)' /\ sick <= IdleTimeout + 2 + RequestTimeout
    <3>1. CASE Pending /\ WatchPending
      <4>1. token' = command.token /\ request_started' = RequestAge /\ RequestAge <= RequestTimeout
        BY <1>1, <1>5, <3>1, Constants DEF WatchPending, Fires, RequestAge
      <4>2. sick <= IdleTimeout + 2 + RequestAge
        BY <1>1, <2>2, <3>1, Constants DEF Overlooked, RequestAge
      <4>3. RequestAge \in Int
        BY DEF RequestAge
      <4> QED
        BY <1>1, <3>1, <4>1, <4>2, <4>3, Constants DEF Overlooked, Pending
    <3>2. CASE ~Pending /\ WatchIdle
      <4>1. CASE heartbeat[h] = "new"
        <5>1. sick <= 1
          BY <1>1, <2>2, <3>2, <4>1 DEF Overlooked, Counting
        <5>2. Counting(h)' /\ Clock(h)' = 0
          BY <3>2, <4>1 DEF WatchIdle, Counting, Clock
        <5> QED
          BY <1>1, <3>2, <5>1, <5>2, Constants DEF Overlooked, Pending
      <4>2. CASE heartbeat[h] # "new"
        <5>1. Clock(h) <= IdleTimeout /\ Clock(h) \in Nat
          BY <1>1, <1>5, <3>2, <4>2, Constants DEF Fires, Clock, IdleAge
        <5>2. sick <= Clock(h) + 1
          BY <1>1, <2>2, <3>2, <5>1 DEF Overlooked
        <5>3. Counting(h)' /\ Clock(h)' = Clock(h)
          BY <3>2, <4>2 DEF WatchIdle, Counting, Clock, IdleAge
        <5> QED
          BY <1>1, <3>2, <5>1, <5>2, <5>3, Constants DEF Overlooked, Pending
      <4> QED
        BY <4>1, <4>2
    <3> QED
      BY <1>5, <3>1, <3>2 DEF Watch
  <2> QED
    BY <1>1, <1>5, <2>1, <2>2, <2>3, LongestIs, Constants DEF HangInv
<1> QED
  BY <1>1, <1>2, <1>3, <1>4, <1>5

(* How the ages grow in a tick.                                            *)
LEMMA TickAges ==
  ASSUME Types, Tick
  PROVE  /\ started <= StartupTimeout => started' = started + 1
         /\ ready_since' = -1 => ready_since = -1
         /\ request_started # -1 /\ request_started <= RequestTimeout =>
              request_started' = request_started + 1
         /\ idle_since' = IF idle_since = -1 THEN -1
                          ELSE IF idle_since <= IdleTimeout THEN idle_since + 1 ELSE IdleTimeout + 1
         /\ \A r \in Ranks :
              beats'[r] = IF beats[r] = -1 THEN -1
                          ELSE IF beats[r] <= IdleTimeout THEN beats[r] + 1 ELSE IdleTimeout + 1
         /\ sick = -1 => sick' = -1
         /\ sick # -1 /\ sick <= Longest => sick' = sick + 1
<1> USE Constants DEF Types, WatchdogTypes, GhostTypes
<1>1. ASSUME NEW age \in Int, NEW limit \in Int, age <= limit + 1
      PROVE  Older(age, limit + 1) = IF age = -1 THEN -1 ELSE IF age <= limit THEN age + 1 ELSE limit + 1
  <2>1. limit + 1 \in Int
    OBVIOUS
  <2> QED
    BY <1>1, <2>1, OlderIs
<1>2. started' = Older(started, StartupTimeout + 1) /\ started \in Int /\ started <= StartupTimeout + 1
  BY DEF Tick
<1>3. request_started' = Older(request_started, RequestTimeout + 1)
  BY DEF Tick
<1>4. idle_since' = Older(idle_since, IdleTimeout + 1)
  BY DEF Tick
<1>5. \A r \in Ranks : beats'[r] = Older(beats[r], IdleTimeout + 1)
  BY DEF Tick
<1>6. sick' = Older(sick, Longest + 1)
  BY DEF Tick
<1>7. ready_since' = -1 => ready_since = -1
  <2>1. /\ ready_since' = Older(ready_since, StableSeconds)
        /\ ready_since \in Int /\ ready_since >= -1 /\ StableSeconds \in Int /\ StableSeconds > 0
    BY DEF Tick
  <2>2. ready_since' = IF ready_since = -1 THEN -1
                       ELSE IF ready_since + 1 <= StableSeconds THEN ready_since + 1 ELSE StableSeconds
    BY <2>1, OlderIs
  <2>3. CASE ready_since + 1 <= StableSeconds
    BY <2>1, <2>2, <2>3
  <2>4. CASE ~(ready_since + 1 <= StableSeconds)
    BY <2>1, <2>2, <2>4
  <2> QED
    BY <2>3, <2>4
<1>8. started <= StartupTimeout => started' = started + 1
  BY <1>1, <1>2
<1>9. request_started # -1 /\ request_started <= RequestTimeout => request_started' = request_started + 1
  BY <1>1, <1>3
<1>10. idle_since' = IF idle_since = -1 THEN -1
                     ELSE IF idle_since <= IdleTimeout THEN idle_since + 1 ELSE IdleTimeout + 1
  BY <1>1, <1>4
<1>11. ASSUME NEW r \in Ranks
       PROVE  beats'[r] = IF beats[r] = -1 THEN -1
                          ELSE IF beats[r] <= IdleTimeout THEN beats[r] + 1 ELSE IdleTimeout + 1
  <2>1. beats[r] \in Int /\ beats[r] <= IdleTimeout + 1
    OBVIOUS
  <2> QED
    BY <1>1, <1>5, <2>1
<1>12. (sick = -1 => sick' = -1) /\ (sick # -1 /\ sick <= Longest => sick' = sick + 1)
  BY <1>1, <1>6, LongestIs
<1> QED
  BY <1>7, <1>8, <1>9, <1>10, <1>11, <1>12

LEMMA HangTick ==
  ASSUME Types, Turns, Unseen, Known, InTime, HangInv, Tick
  PROVE  HangInv'
<1> USE DEF None, Types, GroupTypes, LoopTypes, WatchdogTypes, GhostTypes
<1>1. /\ UNCHANGED <<group, mode, heartbeat, token>> /\ turn' = "read"
      /\ command'.token = command.token /\ command'.answered = command.answered
      /\ turn = "sleep" \/ group = "none"
  BY DEF Tick
<1>2. sick' = (IF sick = -1 THEN -1 ELSE sick + 1) \/ turn # "sleep"
  BY TickAges, LongestIs DEF HangInv
<1>3. CASE group = "none"
  <2>1. sick' = -1
    BY <1>3, TickAges DEF HangInv
  <2> QED
    BY <1>1, <1>3, <2>1, LongestIs DEF HangInv
<1>4. CASE group = "exited" /\ turn = "sleep"
  BY <1>1, <1>2, <1>4, LongestIs DEF HangInv
<1>5. CASE group = "loading" /\ turn = "sleep"
  <2>1. started' = started + 1 /\ started <= StartupTimeout
    BY <1>5, TickAges DEF InTime
  <2> QED
    BY <1>1, <1>2, <1>5, <2>1, LongestIs DEF HangInv
<1>6. CASE group = "ready" /\ turn = "sleep" /\ sick = -1
  BY <1>1, <1>2, <1>6, LongestIs DEF HangInv
<1>7. CASE group = "ready" /\ turn = "sleep" /\ sick # -1
  <2>1. sick' = sick + 1 /\ sick < Longest
    BY <1>2, <1>7 DEF HangInv
  <2>2. ready_since' = -1 => sick' <= 1
    <3>1. ready_since' = -1 => ready_since = -1
      BY TickAges
    <3> QED
      BY <1>7, <2>1, <3>1 DEF HangInv
  <2>3. PICK h \in Ranks : mode[h] = "hung" /\ Overlooked(h)
    BY <1>7 DEF HangInv
  <2>4. Pending' = Pending
    BY <1>1 DEF Pending
  <2>5. Overlooked(h)'
    <3>1. CASE Pending /\ token = command.token
      <4>1. request_started # -1 /\ request_started <= RequestTimeout
        BY <1>7, <3>1, Modulo DEF Pending, Known, InTime
      <4>2. request_started' = request_started + 1
        BY <4>1, TickAges
      <4> QED
        BY <1>1, <2>1, <2>3, <2>4, <3>1, <4>1, <4>2, Constants DEF Overlooked
    <3>2. CASE Pending /\ token # command.token
      BY <1>1, <1>7, <2>1, <2>3, <2>4, <3>2, Constants DEF Overlooked
    <3>3. CASE ~Pending /\ Counting(h)
      <4>1. Clock(h) <= IdleTimeout /\ Clock(h) \in Nat /\ sick <= Clock(h) + 1
        BY <1>7, <2>3, <3>3 DEF InTime, Overlooked, Clock, IdleAge
      <4>2. Counting(h)' /\ Clock(h)' = Clock(h) + 1
        BY <1>1, <3>3, <4>1, TickAges, Constants, SMTT(30) DEF Counting, Clock, IdleAge
      <4> QED
        BY <2>1, <2>4, <3>3, <4>1, <4>2, SMTT(30) DEF Overlooked
    <3>4. CASE ~Pending /\ ~Counting(h)
      <4>1. ~Counting(h)'
        BY <1>1, <3>4, TickAges, Constants DEF Counting
      <4> QED
        BY <1>1, <1>7, <2>1, <2>3, <2>4, <3>4, <4>1 DEF Overlooked
    <3> QED
      BY <3>1, <3>2, <3>3, <3>4
  <2> QED
    BY <1>1, <1>7, <2>1, <2>2, <2>3, <2>5, LongestIs DEF HangInv
<1> QED
  BY <1>1, <1>3, <1>4, <1>5, <1>6, <1>7

LEMMA HangStep ==
  ASSUME Types, Turns, Unseen, Known, InTime, InTime', HangInv, [WatchdogNext]_wvars
  PROVE  HangInv'
<1> USE DEF None, Types, GroupTypes, LoopTypes, WatchdogTypes, GhostTypes,
            worldVars, watchdogVars, ghosts
<1>1. CASE Launch \/ LaunchFails \/ RecoverCancelled \/ RecoverFailed
  BY <1>1, HangForget DEF Launch, LaunchFails, RecoverCancelled, RecoverFailed, Recover
<1>2. CASE BecomeReady
  BY <1>2 DEF BecomeReady, HangInv
<1>3. CASE Exit
  BY <1>3 DEF Exit, HangInv
<1>4. CASE ReadHealth
  <2>1. /\ UNCHANGED <<group, mode, heartbeat, command, watchdogVars, sick>>
        /\ turn = "read" /\ turn' = "check" /\ current' = (group = "ready")
    BY <1>4 DEF ReadHealth
  <2>2. \A h \in Ranks : Overlooked(h) => Overlooked(h)'
    BY <2>1 DEF Overlooked, Pending, Counting, Clock, IdleAge
  <2> QED
    BY <2>1, <2>2 DEF HangInv
<1>5. ASSUME NEW r \in Ranks, Beat(r)
      PROVE  HangInv'
  <2>1. /\ UNCHANGED <<group, mode, command, turn, current, watchdogVars, sick>>
        /\ mode[r] = "loop" /\ \A h \in Ranks : h # r => heartbeat'[h] = heartbeat[h]
    BY <1>5 DEF Beat
  <2>2. \A h \in Ranks : mode[h] = "hung" /\ Overlooked(h) => Overlooked(h)'
    BY <2>1 DEF Overlooked, Pending, Counting, Clock, IdleAge
  <2> QED
    BY <2>1, <2>2 DEF HangInv
<1>6. ASSUME NEW r \in Ranks, Take(r)
      PROVE  HangInv'
  <2>1. /\ UNCHANGED <<group, heartbeat, command, turn, current, watchdogVars, sick>>
        /\ \A h \in Ranks : mode[h] = "hung" => mode'[h] = "hung"
    BY <1>6 DEF Take
  <2>2. \A h \in Ranks : Overlooked(h) => Overlooked(h)'
    BY <2>1 DEF Overlooked, Pending, Counting, Clock, IdleAge
  <2> QED
    BY <2>1, <2>2 DEF HangInv
<1>7. ASSUME NEW r \in Ranks, Hang(r)
      PROVE  HangInv'
  <2>1. /\ UNCHANGED <<group, heartbeat, command, turn, current, watchdogVars>>
        /\ \A h \in Ranks : mode[h] = "hung" => mode'[h] = "hung"
        /\ mode'[r] = "hung" /\ group \in {"loading", "ready"}
        /\ sick' = IF sick = -1 THEN 0 ELSE sick
    BY <1>7 DEF Hang
  <2>2. CASE sick = -1
    <3>1. Overlooked(r)'
      BY <2>1, <2>2, Constants DEF Overlooked, Pending, Counting, Clock, IdleAge
    <3> QED
      BY <2>1, <2>2, <3>1, LongestIs, Constants DEF HangInv
  <2>3. CASE sick # -1
    <3>1. \A h \in Ranks : Overlooked(h) => Overlooked(h)'
      BY <2>1, <2>3 DEF Overlooked, Pending, Counting, Clock, IdleAge
    <3> QED
      BY <2>1, <2>3, <3>1 DEF HangInv
  <2> QED
    BY <2>2, <2>3
<1>8. CASE Publish
  <2>1. /\ UNCHANGED <<group, mode, heartbeat, turn, current, watchdogVars, sick>>
        /\ command'.token = (command.token + 1) % 3 /\ command'.answered = FALSE
        /\ command.token = -1 \/ (command.answered /\ command.age > 0)
    BY <1>8 DEF Publish
  <2>2. ~Pending /\ Pending' /\ token # command'.token
    <3>1. CASE command.token = -1
      BY <2>1, <3>1, Modulo DEF Pending, Known
    <3>2. CASE command.token \in 0 .. 2
      <4>1. command'.token \in 0 .. 2
        BY <2>1, <3>2, Modulo
      <4>2. token # command'.token
        <5>1. CASE token = -1
          BY <4>1, <5>1
        <5>2. CASE token \in 0 .. 2
          <6>1. command.token = token \/ command.token = (token + 1) % 3
            BY <2>1, <3>2, <5>2 DEF Known
          <6>2. command'.token = (command.token + 1) % 3
            BY <2>1
          <6> QED
            BY <5>2, <6>1, <6>2, Modulo
        <5> QED
          BY <5>1, <5>2
      <4> QED
        BY <2>1, <4>1, <4>2 DEF Pending
    <3> QED
      BY <3>1, <3>2
  <2>3. ASSUME NEW h \in Ranks, Overlooked(h)
        PROVE  Overlooked(h)'
    <3>1. turn = "sleep" /\ Counting(h) => Clock(h) <= IdleTimeout
      BY DEF InTime
    <3>2. Clock(h) \in Nat /\ Clock(h) <= IdleTimeout + 1
      BY Constants DEF Clock, IdleAge
    <3> QED
      BY <2>1, <2>2, <2>3, <3>1, <3>2, Constants, SMTT(30) DEF Overlooked
  <2> QED
    BY <2>1, <2>3 DEF HangInv
<1>9. CASE Answer
  <2>1. \A h \in Ranks : mode[h] = "busy"
    BY <1>9 DEF Answer, EachRank
  <2> QED
    BY <1>9, <2>1 DEF Answer, HangInv
<1>10. ASSUME NEW reason \in {"cancelled", "timeout"}, Cancel(reason)
       PROVE  HangInv'
  <2>1. UNCHANGED <<group, mode, heartbeat, command, turn, current, watchdogVars, sick>>
    BY <1>10 DEF Cancel
  <2>2. \A h \in Ranks : Overlooked(h) => Overlooked(h)'
    BY <2>1 DEF Overlooked, Pending, Counting, Clock, IdleAge
  <2> QED
    BY <2>1, <2>2 DEF HangInv
<1>11. CASE Watch
  BY <1>11, HangWatch
<1>12. CASE Tick
  BY <1>12, HangTick
<1>13. CASE UNCHANGED wvars
  <2>1. UNCHANGED <<group, mode, heartbeat, command, turn, current, watchdogVars, sick>>
    BY <1>13 DEF wvars
  <2>2. \A h \in Ranks : Overlooked(h) => Overlooked(h)'
    BY <2>1 DEF Overlooked, Pending, Counting, Clock, IdleAge
  <2> QED
    BY <2>1, <2>2 DEF HangInv
<1> QED
  BY <1>1, <1>2, <1>3, <1>4, <1>5, <1>6, <1>7, <1>8, <1>9, <1>10, <1>11, <1>12, <1>13 DEF WatchdogNext

(* A hung rank is found within the deadline of the start, or that of       *)
(* idleness and that of a command published just before it passes.         *)
THEOREM FindsHangs == WatchdogSpec => []HangsAreFound
<1> DEFINE Inv == Types /\ BackOffInv /\ Unseen /\ Known /\ InTime /\ HangInv
<1>1. WatchdogInit => Inv
  BY TypesInit, BackOffInit, HealthyInit, HangInit DEF HealthyInv
<1>2. Inv /\ [WatchdogNext]_wvars => Inv'
  BY TypesStep, BackOffStep, UnseenStep, KnownStep, InTimeStep, HangStep DEF BackOffInv
<1>3. Inv => HangsAreFound
  BY DEF HangInv, HangsAreFound
<1> QED
  BY <1>1, <1>2, <1>3, PTL DEF WatchdogSpec

=============================================================================
