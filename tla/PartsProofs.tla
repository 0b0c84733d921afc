----------------------------- MODULE PartsProofs -----------------------------
(***************************************************************************)
(* For any number of ranks, blocks, steps, requests, branches, tiles,      *)
(* frames, rows, tensors and addresses: cached blocks are replaced soundly *)
(* and by all ranks alike; batches of tiles are compared, and their        *)
(* outputs end up in their places; states composed chunk by chunk are      *)
(* those of the scans frame by frame; the rows of a fast layout are those  *)
(* of the plain one; a request computes what its options ask for and       *)
(* leaves none of what it has rebound behind, wherever it fails; and a     *)
(* cached constant is never the one of another tensor.                     *)
(***************************************************************************)
EXTENDS Parts, Integers, FiniteSetTheorems, SequenceTheorems,
        WellFoundedInduction, TLAPS

-----------------------------------------------------------------------------
(* The recorded steps of a rank, and the one it is in or comes to next.    *)
Past(r) == Len(records[r])
Current(r) == Past(r) + 1

(* Step k, from 0, must be computed after the first k steps of rec.        *)
Must(c, rec, k) ==
  \/ Cache!Disabled(c)
  \/ k < c.warmup_steps
  \/ k >= Steps - c.last_steps
  \/ Cardinality({j \in 1 .. k : rec[j]}) >= c.max_cached_steps
  \/ \A j \in k + 1 - c.max_consecutive .. k : j >= 1 /\ rec[j]

(* The parts of the k-th step of a rank that records rec.                  *)
Whole(c, rec, k) ==
  IF Cache!Disabled(c) THEN <<"all">>
  ELSE IF Must(c, rec, k - 1) THEN <<"prefix", "middle", "suffix">>
  ELSE IF rec[k] THEN <<"prefix", "reduce", "suffix">>
  ELSE <<"prefix", "reduce", "middle", "suffix">>

(* What a rank has run of the step it is in.                               *)
SoFar(r) ==
  IF pc[r] = "reduce" \/ Must(config, records[r], Past(r)) THEN <<"prefix">> ELSE <<"prefix", "reduce">>

(* Between requests nothing is kept; during one a rank records each step.  *)
CacheTypes ==
  /\ Cache!TypeOK
  /\ request = 0 => /\ pc = Cache!AllRanks("idle") /\ step = Cache!AllRanks(Steps)
                    /\ records = Cache!AllRanks(<<>>) /\ trace = Cache!AllRanks(<<>>)
  /\ request > 0 => \A r \in Ranks : step[r] = IF pc[r] = "idle" THEN Past(r) ELSE Current(r)
  /\ \A r \in Ranks : pc[r] # "idle" => ~Cache!Disabled(config)
  /\ \A r \in Ranks : pc[r] # "prefix"

(* The reuses in a row are the last ones; none was of a step that must be  *)
(* computed; the blocks not executed are the middle ones of reused steps.  *)
InARow(r) ==
  /\ consecutive[r] \in 0 .. Past(r)
  /\ \A j \in Past(r) - consecutive[r] + 1 .. Past(r) : records[r][j]
  /\ consecutive[r] < Past(r) => ~records[r][Past(r) - consecutive[r]]

Allowed(r) ==
  /\ pc[r] \in {"reduce", "decide"} => ~Must(config, records[r], Past(r))
  /\ \A k \in 1 .. Past(r) : records[r][k] => ~Must(config, records[r], k - 1)

Prefix(r) == IF pc[r] = "idle" THEN 0 ELSE config.fn_blocks
Skipped(r) ==
  Past(r) * Blocks + Prefix(r) - executed[r] = Cache!Hits(r) * Cache!MiddleBlocks(config)

Counted == \A r \in Ranks : InARow(r) /\ Allowed(r) /\ (request > 0 => Skipped(r))

(* The trace is what the records say, and the beginning of the next step.  *)
TracedAt(r) ==
  /\ Len(trace[r]) = IF pc[r] = "idle" THEN Past(r) ELSE Current(r)
  /\ \A k \in 1 .. Past(r) : trace[r][k] = Whole(config, records[r], k)
  /\ pc[r] # "idle" => trace[r][Current(r)] = SoFar(r)

Traced == \A r \in Ranks : TracedAt(r)

(* A rank has joined the all-reduce of step k, or passed it; it knows what *)
(* becomes of the step; it reuses.                                         *)
Joined(r, k) == Past(r) >= k \/ (Current(r) = k /\ pc[r] \in {"decide", "middle"})
Knows(r, k)  == Past(r) >= k \/ (Current(r) = k /\ pc[r] = "middle")
Reused(r, k) == Past(r) >= k /\ records[r][k]

Deciding(r) == pc[r] = "decide"

(* The ranks agree: whoever knows what becomes of a step says the same;    *)
(* where it was not a must, all ranks have joined; and a rank that decides *)
(* is in the only all-reduce there is, which nobody knows the outcome of   *)
(* before all are in it.                                                   *)
Same == \A r, q \in Ranks : \A k \in 1 .. Steps :
          Knows(r, k) /\ Knows(q, k) => (Reused(r, k) <=> Reused(q, k))

AllJoined == \A q, r \in Ranks : \A k \in 1 .. Steps :
               Knows(q, k) /\ ~Must(config, records[q], k - 1) => Joined(r, k)

Reducing ==
  /\ \A r \in Ranks : Deciding(r) => r \in DOMAIN stats
  /\ \A r \in DOMAIN stats :
       \/ Deciding(r)
       \/ DOMAIN stats = Ranks /\ \E q \in Ranks : Deciding(q)
  /\ \A r, q \in Ranks : Deciding(r) /\ Deciding(q) => Past(r) = Past(q)
  /\ \A r, q \in Ranks : \A k \in 1 .. Steps :
       Deciding(r) /\ k = Current(r) =>
         IF DOMAIN stats = Ranks
           THEN Joined(q, k) /\ (Knows(q, k) => (Reused(q, k) <=> Cache!Reuse(r)))
           ELSE ~Knows(q, k)

CacheInv == CacheTypes /\ Counted /\ Traced /\ Same /\ AllJoined /\ Reducing

LEMMA ConfigTypes ==
  ASSUME config \in Cache!Configs
  PROVE  /\ config.fn_blocks \in 1 .. Blocks - 1 /\ config.bn_blocks \in 0 .. Blocks - 1
         /\ config.fn_blocks + config.bn_blocks < Blocks
         /\ config.warmup_steps \in 1 .. Steps /\ config.max_consecutive \in 1 .. Steps - 1
         /\ config.max_cached_steps \in 0 .. Steps - 1 /\ config.last_steps \in 0 .. Steps - 1
BY DEF Cache!Configs, Cache!Valid

LEMMA Counting == \A S : Cache!Cardinality(S) = Cardinality(S)
BY DEF Cache!Cardinality, Cardinality

LEMMA HitsAre ==
  \A r : Cache!Hits(r) = Cardinality({k \in DOMAIN records[r] : records[r][k]})
BY Counting DEF Cache!Hits

LEMMA MiddleIs ==
  ASSUME config \in Cache!Configs
  PROVE  /\ Cache!MiddleBlocks(config) \in Nat
         /\ config.fn_blocks + Cache!MiddleBlocks(config) + config.bn_blocks = Blocks
<1>1. config.fn_blocks \in Int /\ Blocks - config.bn_blocks - 1 \in Int
      /\ config.fn_blocks <= Blocks - config.bn_blocks - 1
      /\ config.bn_blocks \in Int
  BY ConfigTypes, CacheAssumption
<1>2. Cardinality(config.fn_blocks .. Blocks - config.bn_blocks - 1)
        = (Blocks - config.bn_blocks - 1) - config.fn_blocks + 1
  BY <1>1, FS_Interval
<1>3. Cache!MiddleBlocks(config) = Cardinality(config.fn_blocks .. Blocks - config.bn_blocks - 1)
  BY Counting DEF Cache!MiddleBlocks
<1> QED
  BY <1>1, <1>2, <1>3, CacheAssumption

(* What must be computed depends on the steps before only.                 *)
LEMMA MustSame ==
  ASSUME NEW c, NEW rec, NEW s, NEW k \in Nat, \A j \in 1 .. k : rec[j] = s[j]
  PROVE  Must(c, rec, k) <=> Must(c, s, k)
<1>1. {j \in 1 .. k : rec[j]} = {j \in 1 .. k : s[j]}
  OBVIOUS
<1>2. (\A j \in k + 1 - c.max_consecutive .. k : j >= 1 /\ rec[j])
        <=> (\A j \in k + 1 - c.max_consecutive .. k : j >= 1 /\ s[j])
  OBVIOUS
<1> QED
  BY <1>1, <1>2 DEF Must

LEMMA RecordTypes ==
  ASSUME CacheTypes, NEW r \in Ranks
  PROVE  /\ records[r] \in Seq(BOOLEAN) /\ Past(r) \in Nat /\ Current(r) \in Nat /\ DOMAIN records[r] = 1 .. Past(r)
         /\ trace[r] \in Seq(Seq({"all", "prefix", "reduce", "middle", "suffix"}))
         /\ executed[r] \in Nat /\ step[r] \in 0 .. Steps /\ config \in Cache!Configs
BY DEF CacheTypes, Cache!TypeOK, Past, Current

(* The reason a rank finds from its counters is that its records give.     *)
LEMMA ReasonIsMust ==
  ASSUME CacheTypes, Counted, NEW r \in Ranks,
         pc[r] = "idle", request > 0, ~Cache!Disabled(config)
  PROVE  Cache!Reason(r, step[r]) <=> Must(config, records[r], Past(r))
<1> DEFINE L == Past(r)
           c == consecutive[r]
           m == config.max_consecutive
<1>1. step[r] = L /\ L \in Nat /\ DOMAIN records[r] = 1 .. L
  BY RecordTypes DEF CacheTypes
<1>2. /\ c \in 0 .. L
      /\ \A j \in L - c + 1 .. L : records[r][j]
      /\ c < L => ~records[r][L - c]
  BY DEF Counted, InARow
<1>3. m \in Nat
  BY RecordTypes, ConfigTypes, CacheAssumption
<1> HIDE DEF L, c, m
<1>4. ASSUME c >= m, NEW j \in L + 1 - m .. L PROVE j >= 1 /\ records[r][j]
  BY <1>1, <1>2, <1>3, <1>4
<1>5. ASSUME \A j \in L + 1 - m .. L : j >= 1 /\ records[r][j] PROVE c >= m
  <2> SUFFICES ASSUME c < m PROVE FALSE
    BY <1>1, <1>2, <1>3
  <2>1. L - c \in L + 1 - m .. L
    BY <1>1, <1>2, <1>3
  <2>2. L - c >= 1 /\ records[r][L - c]
    BY <1>5, <2>1
  <2>3. c < L
    BY <1>1, <1>2, <2>2
  <2> QED
    BY <1>2, <2>2, <2>3
<1>6. c >= m <=> \A j \in L + 1 - m .. L : j >= 1 /\ records[r][j]
  BY <1>4, <1>5
<1>7. Cache!Hits(r) = Cardinality({j \in 1 .. L : records[r][j]})
  BY <1>1, HitsAre
<1>8. Cache!Reason(r, L) <=>
        \/ L < config.warmup_steps
        \/ L >= Steps - config.last_steps
        \/ Cache!Hits(r) >= config.max_cached_steps
        \/ c >= m
  BY DEF Cache!Reason, c, m
<1>9. Must(config, records[r], L) <=>
        \/ L < config.warmup_steps
        \/ L >= Steps - config.last_steps
        \/ Cache!Hits(r) >= config.max_cached_steps
        \/ \A j \in L + 1 - m .. L : j >= 1 /\ records[r][j]
  BY <1>7 DEF Must, m
<1>10. Cache!Reason(r, L) <=> Must(config, records[r], L)
  BY <1>6, <1>8, <1>9, Zenon
<1> QED
  BY <1>1, <1>10 DEF L

(* A rank that has not begun a step.                                       *)
Fresh(r) ==
  /\ pc[r] = "idle" /\ records[r] = <<>> /\ trace[r] = <<>>
  /\ consecutive[r] = 0 /\ executed[r] = 0

LEMMA FreshRank ==
  ASSUME NEW r \in Ranks, Fresh(r), config \in Cache!Configs
  PROVE  /\ Past(r) = 0 /\ Current(r) = 1 /\ ~Deciding(r) /\ \A k \in 1 .. Steps : ~Knows(r, k)
         /\ InARow(r) /\ Allowed(r) /\ Skipped(r)
         /\ Len(trace[r]) = 0
<1>1. Past(r) = 0
  <2>1. records[r] = <<>>
    BY DEF Fresh
  <2>2. Len(records[r]) = 0
    BY <2>1
  <2> QED
    BY <2>2 DEF Past
<1>2. Current(r) = 1 /\ pc[r] = "idle" /\ consecutive[r] = 0
  BY <1>1 DEF Current, Fresh
<1>3. ~Deciding(r) /\ \A k \in 1 .. Steps : ~Knows(r, k)
  BY <1>1, <1>2, CacheAssumption DEF Deciding, Knows
<1>4. InARow(r)
  <2>1. \A j \in Past(r) - consecutive[r] + 1 .. Past(r) : records[r][j]
    BY <1>1, <1>2
  <2> QED
    BY <1>1, <1>2, <2>1 DEF InARow
<1>5. Allowed(r)
  <2>1. \A k \in 1 .. Past(r) : records[r][k] => ~Must(config, records[r], k - 1)
    BY <1>1
  <2> QED
    BY <1>2, <2>1 DEF Allowed
<1>6. Skipped(r)
  <2>1. DOMAIN records[r] = {}
    BY DEF Fresh
  <2>2. {k \in DOMAIN records[r] : records[r][k]} = {}
    BY <2>1
  <2>3. Cache!Hits(r) = 0
    BY <2>2, HitsAre, FS_EmptySet
  <2>4. Prefix(r) = 0 /\ executed[r] = 0
    BY <1>2 DEF Prefix, Fresh
  <2> QED
    BY <1>1, <2>3, <2>4, MiddleIs, CacheAssumption DEF Skipped
<1>7. Len(trace[r]) = 0
  <2>1. trace[r] = <<>>
    BY DEF Fresh
  <2> QED
    BY <2>1
<1> QED
  BY <1>1, <1>2, <1>3, <1>4, <1>5, <1>6, <1>7

AllAreFresh == CacheTypes /\ DOMAIN stats = {} /\ \A r \in Ranks : Fresh(r)

LEMMA AllFresh == AllAreFresh => CacheInv
<1> SUFFICES ASSUME AllAreFresh PROVE CacheInv
  OBVIOUS
<1> USE DEF AllAreFresh
<1>1. config \in Cache!Configs
  BY DEF CacheTypes, Cache!TypeOK
<1>2. Counted
  BY <1>1, FreshRank DEF Counted
<1>3. Traced
  <2> SUFFICES ASSUME NEW r \in Ranks PROVE TracedAt(r)
    BY DEF Traced
  <2>1. pc[r] = "idle" /\ Past(r) = 0 /\ Len(trace[r]) = 0
    BY <1>1, FreshRank DEF Fresh
  <2>2. \A k \in 1 .. Past(r) : trace[r][k] = Whole(config, records[r], k)
    BY <2>1
  <2> QED
    BY <2>1, <2>2 DEF TracedAt
<1>4. Same /\ AllJoined
  BY <1>1, FreshRank DEF Same, AllJoined
<1>5. Reducing
  BY <1>1, FreshRank DEF Reducing
<1> QED
  BY <1>2, <1>3, <1>4, <1>5 DEF CacheInv

LEMMA CacheInitial == Init => CacheInv
<1> SUFFICES ASSUME Cache!Init PROVE CacheInv
  BY DEF Init
<1>1. Cache!TypeOK
  BY CacheAssumption DEF Cache!Init, Cache!AllRanks, Cache!TypeOK, Cache!Nothing, Cache!NoStats, Cache!Bad
<1>2. pc = Cache!AllRanks("idle")
  BY DEF Cache!Init
<1>3. \A r \in Ranks : pc[r] = "idle"
  BY <1>2 DEF Cache!AllRanks
<1>4. CacheTypes
  BY <1>1, <1>3 DEF CacheTypes, Cache!Init
<1>5. ASSUME NEW r \in Ranks PROVE Fresh(r)
  BY DEF Fresh, Cache!Init, Cache!AllRanks
<1>6. DOMAIN stats = {}
  BY DEF Cache!Init, Cache!NoStats
<1> QED
  BY <1>4, <1>5, <1>6, AllFresh DEF AllAreFresh

LEMMA Beginning ==
  ASSUME CacheInv, Cache!Begin
  PROVE  CacheInv'
<1>1. \A r \in Ranks : pc[r] = "idle"
  BY DEF Cache!Begin, Cache!Idle
<1>2. ASSUME NEW r \in Ranks PROVE Fresh(r)'
  BY <1>1 DEF Fresh, Cache!Begin, Cache!AllRanks
<1>3. Cache!TypeOK'
  BY CacheAssumption DEF CacheInv, CacheTypes, Cache!Begin, Cache!AllRanks, Cache!TypeOK, Cache!Nothing
<1>4. request' > 0
  BY DEF CacheInv, CacheTypes, Cache!Begin, Cache!TypeOK
<1>5. ASSUME NEW r \in Ranks PROVE step'[r] = Past(r)' /\ pc'[r] = "idle"
  <2>1. records'[r] = <<>> /\ pc'[r] = "idle"
    BY <1>2 DEF Fresh
  <2>2. Len(records'[r]) = 0
    BY <2>1
  <2>3. step'[r] = 0
    BY DEF Cache!Begin, Cache!AllRanks
  <2> QED
    BY <2>1, <2>2, <2>3 DEF Past
<1>6. CacheTypes'
  BY <1>3, <1>4, <1>5 DEF CacheTypes
<1>7. DOMAIN stats' = {}
  <2>1. DOMAIN stats \subseteq Ranks /\ stats' = stats
    BY DEF CacheInv, CacheTypes, Cache!TypeOK, Cache!Begin
  <2>2. \A r \in DOMAIN stats : Deciding(r) \/ \E q \in Ranks : Deciding(q)
    BY DEF CacheInv, Reducing
  <2> QED
    BY <1>1, <2>1, <2>2 DEF Deciding
<1>8. AllAreFresh'
  BY <1>2, <1>6, <1>7 DEF AllAreFresh
<1> QED
  BY <1>8, AllFresh, PTL

-----------------------------------------------------------------------------
LEMMA WholeSame ==
  ASSUME NEW c, NEW rec, NEW s, NEW k \in Nat \ {0}, \A j \in 1 .. k : rec[j] = s[j]
  PROVE  Whole(c, rec, k) = Whole(c, s, k)
<1>1. k - 1 \in Nat /\ \A j \in 1 .. k - 1 : rec[j] = s[j]
  OBVIOUS
<1>2. Must(c, rec, k - 1) <=> Must(c, s, k - 1)
  BY <1>1, MustSame
<1>3. rec[k] = s[k]
  OBVIOUS
<1> QED
  BY <1>2, <1>3 DEF Whole

LEMMA OneMore ==
  ASSUME NEW S, NEW seq \in Seq(S), NEW e \in S
  PROVE  /\ Append(seq, e) \in Seq(S) /\ Len(Append(seq, e)) = Len(seq) + 1
         /\ \A k \in 1 .. Len(seq) : Append(seq, e)[k] = seq[k]
         /\ Append(seq, e)[Len(seq) + 1] = e
OBVIOUS

LEMMA HitsOneMore ==
  ASSUME NEW rec \in Seq(BOOLEAN), NEW v \in BOOLEAN
  PROVE  /\ Cardinality({k \in DOMAIN rec : rec[k]}) \in Nat
         /\ Cardinality({k \in DOMAIN Append(rec, v) : Append(rec, v)[k]})
              = Cardinality({k \in DOMAIN rec : rec[k]}) + (IF v THEN 1 ELSE 0)
<1> DEFINE S == {k \in DOMAIN rec : rec[k]}
           T == {k \in DOMAIN Append(rec, v) : Append(rec, v)[k]}
           n == Len(rec)
<1>1. n \in Nat /\ DOMAIN rec = 1 .. n /\ DOMAIN Append(rec, v) = 1 .. n + 1
      /\ \A k \in 1 .. n : Append(rec, v)[k] = rec[k]
      /\ Append(rec, v)[n + 1] = v
  OBVIOUS
<1>2. IsFiniteSet(1 .. n)
  BY <1>1, FS_Interval
<1>3. IsFiniteSet(S) /\ Cardinality(S) \in Nat
  BY <1>1, <1>2, FS_Subset, FS_CardinalityType
<1>4. n + 1 \notin S
  BY <1>1
<1>5. CASE v = TRUE
  <2>1. T = S \union {n + 1}
    BY <1>1, <1>5
  <2> QED
    BY <1>3, <1>4, <1>5, <2>1, FS_AddElement
<1>6. CASE v = FALSE
  <2>1. T = S
    BY <1>1, <1>6
  <2>2. Cardinality(S) + (IF v THEN 1 ELSE 0) = Cardinality(S)
    <3> HIDE DEF S
    <3> QED
      BY <1>3, <1>6
  <2> QED
    BY <1>3, <2>1, <2>2
<1> QED
  BY <1>3, <1>5, <1>6

LEMMA Times == \A a, b \in Nat : a * b \in Nat /\ (a + 1) * b = a * b + b
OBVIOUS

(* One rank moves: the others keep what they have.                         *)
Moves(r) ==
  /\ request > 0 /\ request' = request /\ config' = config
  /\ \A q \in Ranks \ {r} :
       /\ pc'[q] = pc[q] /\ step'[q] = step[q] /\ consecutive'[q] = consecutive[q]
       /\ records'[q] = records[q] /\ executed'[q] = executed[q] /\ trace'[q] = trace[q]

(* A step ends, reused or not.                                             *)
Ends(r, reused) ==
  /\ pc'[r] = "idle" /\ records'[r] = Append(records[r], reused)

(* A step goes on.                                                         *)
Goes(r, to) ==
  /\ pc'[r] = to /\ records'[r] = records[r] /\ consecutive'[r] = consecutive[r]

DisabledStep(r) ==
  /\ pc[r] = "idle" /\ Cache!Disabled(config) /\ step[r] < Steps
  /\ Ends(r, FALSE) /\ stats' = stats /\ consecutive'[r] = consecutive[r]
  /\ step'[r] = step[r] + 1
  /\ executed'[r] = executed[r] + Blocks /\ trace'[r] = Append(trace[r], <<"all">>)

PrefixStep(r) ==
  /\ pc[r] = "idle" /\ ~Cache!Disabled(config) /\ step[r] < Steps
  /\ Goes(r, IF Must(config, records[r], Past(r)) THEN "middle" ELSE "reduce") /\ stats' = stats
  /\ step'[r] = step[r] + 1
  /\ executed'[r] = executed[r] + config.fn_blocks /\ trace'[r] = Append(trace[r], <<"prefix">>)

JoinStep(r) ==
  /\ pc[r] = "reduce" /\ r \notin DOMAIN stats
  /\ Goes(r, "decide") /\ DOMAIN stats' = DOMAIN stats \union {r}
  /\ step'[r] = step[r] /\ executed'[r] = executed[r]
  /\ trace'[r] = [trace[r] EXCEPT ![Len(trace[r])] = @ \o <<"reduce">>]

DecideStep(r) ==
  /\ pc[r] = "decide" /\ DOMAIN stats = Ranks
  /\ stats' = IF \A q \in Ranks \ {r} : pc[q] # "decide" THEN Cache!NoStats ELSE stats
  /\ step'[r] = step[r]
  /\ \/ /\ ~Cache!Reuse(r) /\ Goes(r, "middle")
        /\ executed'[r] = executed[r] /\ trace'[r] = trace[r]
     \/ /\ Cache!Reuse(r) /\ Ends(r, TRUE)
        /\ consecutive'[r] = consecutive[r] + 1
        /\ executed'[r] = executed[r] + config.bn_blocks
        /\ trace'[r] = [trace[r] EXCEPT ![Len(trace[r])] = @ \o <<"suffix">>]

MiddleStep(r) ==
  /\ pc[r] = "middle" /\ Ends(r, FALSE) /\ stats' = stats
  /\ consecutive'[r] = 0 /\ step'[r] = step[r]
  /\ executed'[r] = executed[r] + (Cache!MiddleBlocks(config) + config.bn_blocks)
  /\ trace'[r] = [trace[r] EXCEPT ![Len(trace[r])] = @ \o <<"middle", "suffix">>]

RankStep(r) == DisabledStep(r) \/ PrefixStep(r) \/ JoinStep(r) \/ DecideStep(r) \/ MiddleStep(r)

LEMMA EndsOrGoes ==
  ASSUME NEW r \in Ranks, RankStep(r)
  PROVE  \/ \E v \in BOOLEAN : Ends(r, v)
         \/ \E to \in {"reduce", "decide", "middle"} : Goes(r, to)
BY DEF RankStep, DisabledStep, PrefixStep, JoinStep, DecideStep, MiddleStep

LEMMA Begun ==
  ASSUME CacheTypes, NEW r \in Ranks, step[r] < Steps \/ pc[r] # "idle"
  PROVE  request > 0
<1> SUFFICES ASSUME request = 0 PROVE FALSE
  BY DEF CacheTypes, Cache!TypeOK
<1>1. pc[r] = "idle" /\ step[r] = Steps
  BY DEF CacheTypes, Cache!AllRanks
<1> QED
  BY <1>1, CacheAssumption

CacheRank(r) ==
  Cache!RunDisabled(r) \/ Cache!RunPrefix(r) \/ Cache!Join(r) \/ Cache!Decide(r) \/ Cache!RunMiddle(r)

LEMMA RankMoves ==
  ASSUME CacheTypes, Counted, NEW r \in Ranks,
         CacheRank(r)
  PROVE  Moves(r) /\ RankStep(r)
<1> USE DEF Cache!Compute, Cache!ComputeMore, Cache!GoOn, Cache!Goto, Cache!Record, Ends, Goes
<1>1. /\ pc \in [Ranks -> {"idle", "prefix", "reduce", "decide", "middle"}]
      /\ step \in [Ranks -> 0 .. Steps] /\ consecutive \in [Ranks -> 0 .. Steps]
      /\ records \in [Ranks -> Seq(BOOLEAN)] /\ executed \in [Ranks -> Nat]
      /\ trace \in [Ranks -> Seq(Seq({"all", "prefix", "reduce", "middle", "suffix"}))]
  BY DEF CacheTypes, Cache!TypeOK
<1>2. CASE Cache!RunDisabled(r)
  <2>1. request > 0
    BY <1>2, Begun DEF Cache!RunDisabled
  <2>2. DisabledStep(r)
    BY <1>1, <1>2 DEF Cache!RunDisabled, DisabledStep
  <2>3. Moves(r)
    BY <1>1, <1>2, <2>1 DEF Cache!RunDisabled, Moves
  <2> QED
    BY <2>2, <2>3 DEF RankStep
<1>3. CASE Cache!RunPrefix(r)
  <2>1. request > 0
    BY <1>3, Begun DEF Cache!RunPrefix
  <2>2. Cache!Reason(r, step[r]) <=> Must(config, records[r], Past(r))
    BY <1>3, <2>1, ReasonIsMust DEF Cache!RunPrefix
  <2>3. PrefixStep(r)
    BY <1>1, <1>3, <2>2 DEF Cache!RunPrefix, PrefixStep
  <2>4. Moves(r)
    BY <1>1, <1>3, <2>1 DEF Cache!RunPrefix, Moves
  <2> QED
    BY <2>3, <2>4 DEF RankStep
<1>4. CASE Cache!Join(r)
  <2>1. request > 0
    BY <1>4, Begun DEF Cache!Join
  <2>2. JoinStep(r)
    BY <1>1, <1>4 DEF Cache!Join, JoinStep
  <2>3. Moves(r)
    BY <1>1, <1>4, <2>1 DEF Cache!Join, Moves
  <2> QED
    BY <2>2, <2>3 DEF RankStep
<1>5. CASE Cache!Decide(r)
  <2>1. request > 0
    BY <1>5, Begun DEF Cache!Decide
  <2>2. DecideStep(r)
    BY <1>1, <1>5 DEF Cache!Decide, DecideStep
  <2>3. Moves(r)
    BY <1>1, <1>5, <2>1 DEF Cache!Decide, Moves
  <2> QED
    BY <2>2, <2>3 DEF RankStep
<1>6. CASE Cache!RunMiddle(r)
  <2>1. request > 0
    BY <1>6, Begun DEF Cache!RunMiddle
  <2>2. MiddleStep(r)
    BY <1>1, <1>6 DEF Cache!RunMiddle, MiddleStep
  <2>3. Moves(r)
    BY <1>1, <1>6, <2>1 DEF Cache!RunMiddle, Moves
  <2> QED
    BY <2>2, <2>3 DEF RankStep
<1> QED
  BY <1>2, <1>3, <1>4, <1>5, <1>6 DEF CacheRank

LEMMA Replaced ==
  ASSUME NEW T, NEW t \in Seq(T), NEW i \in 1 .. Len(t), NEW e \in T, NEW u, u = [t EXCEPT ![i] = e]
  PROVE  /\ u \in Seq(T) /\ Len(u) = Len(t)
         /\ \A j \in 1 .. Len(t) : u[j] = IF j = i THEN e ELSE t[j]
<1>1. /\ [t EXCEPT ![i] = e] \in Seq(T)
      /\ Len([t EXCEPT ![i] = e]) = Len(t)
      /\ \A j \in 1 .. Len(t) : [t EXCEPT ![i] = e][j] = IF j = i THEN e ELSE t[j]
  BY ExceptSeq
<1> QED
  BY <1>1, Zenon

LEMMA LastReplaced ==
  ASSUME NEW T, NEW t \in Seq(T), Len(t) # 0, NEW e \in T, NEW u, u = [t EXCEPT ![Len(t)] = e]
  PROVE  /\ u \in Seq(T) /\ Len(u) = Len(t)
         /\ \A k \in 1 .. Len(t) - 1 : u[k] = t[k]
         /\ u[Len(t)] = e
<1>1. Len(t) \in Nat
  OBVIOUS
<1>2. Len(t) \in 1 .. Len(t) /\ \A k \in 1 .. Len(t) - 1 : k \in 1 .. Len(t) /\ k # Len(t)
  BY <1>1
<1>3. /\ u \in Seq(T) /\ Len(u) = Len(t)
      /\ \A j \in 1 .. Len(t) : u[j] = IF j = Len(t) THEN e ELSE t[j]
  BY <1>2, Replaced
<1> QED
  BY <1>2, <1>3, Zenon

LEMMA CacheTypesStep ==
  ASSUME CacheInv, NEW r \in Ranks, CacheRank(r)
  PROVE  CacheTypes'
<1> DEFINE PartSet == {"all", "prefix", "reduce", "middle", "suffix"}
<1>0. CacheTypes /\ Counted /\ Traced
  BY DEF CacheInv
<1>1. /\ request \in 0 .. Requests /\ config \in Cache!Configs
      /\ pc \in [Ranks -> {"idle", "prefix", "reduce", "decide", "middle"}]
      /\ step \in [Ranks -> 0 .. Steps] /\ consecutive \in [Ranks -> 0 .. Steps]
      /\ records \in [Ranks -> Seq(BOOLEAN)]
      /\ previous \in [Ranks -> (0 .. Requests) \X (0 .. Steps)]
      /\ finite \in [Ranks -> BOOLEAN] /\ share \in [Ranks -> Shares \union {Cache!Bad}]
      /\ DOMAIN stats \subseteq Ranks /\ executed \in [Ranks -> Nat]
      /\ trace \in [Ranks -> Seq(Seq(PartSet))]
  BY <1>0 DEF CacheTypes, Cache!TypeOK
<1>2. Moves(r) /\ RankStep(r)
  BY <1>0, RankMoves
<1>3. Cache!MiddleBlocks(config) \in Nat /\ config.fn_blocks \in Nat /\ config.bn_blocks \in Nat
  <2>1. Cache!MiddleBlocks(config) \in Nat
    BY <1>1, MiddleIs
  <2>2. config.fn_blocks \in 1 .. Blocks - 1 /\ config.bn_blocks \in 0 .. Blocks - 1
    BY <1>1, ConfigTypes
  <2> QED
    BY <2>1, <2>2
<1>4. step[r] = IF pc[r] = "idle" THEN Past(r) ELSE Current(r)
  BY <1>0, <1>2 DEF CacheTypes, Moves
<1>5. consecutive[r] \in 0 .. Past(r)
  BY <1>0 DEF Counted, InARow
<1>6. Past(r) \in Nat /\ Current(r) = Past(r) + 1
  BY <1>0, RecordTypes DEF Current
<1>7. pc[r] # "idle" => Len(trace[r]) # 0 /\ consecutive[r] + 1 \in 0 .. Steps
  BY <1>0, <1>1, <1>4, <1>5, <1>6, CacheAssumption, SMTT(30) DEF Traced, TracedAt
<1>8. pc' \in [Ranks -> {"idle", "prefix", "reduce", "decide", "middle"}]
  BY <1>1 DEF CacheRank, Cache!RunDisabled, Cache!RunPrefix, Cache!Join, Cache!Decide, Cache!RunMiddle, Cache!Goto
<1>9. step' \in [Ranks -> 0 .. Steps]
  <2>1. step[r] < Steps => step[r] + 1 \in 0 .. Steps
    BY <1>1, CacheAssumption
  <2>2. step' = step \/ (step' = [step EXCEPT ![r] = @ + 1] /\ step[r] < Steps)
    BY DEF CacheRank, Cache!RunDisabled, Cache!RunPrefix, Cache!Join, Cache!Decide, Cache!RunMiddle
  <2> QED
    BY <1>1, <2>1, <2>2
<1>10. consecutive' \in [Ranks -> 0 .. Steps]
  <2>1. \/ consecutive' = consecutive
        \/ consecutive' = [consecutive EXCEPT ![r] = 0]
        \/ consecutive' = [consecutive EXCEPT ![r] = @ + 1] /\ pc[r] = "decide"
    BY DEF CacheRank, Cache!RunDisabled, Cache!RunPrefix, Cache!Join, Cache!Decide, Cache!RunMiddle
  <2>2. pc[r] = "decide" => consecutive[r] + 1 \in 0 .. Steps
    BY <1>7
  <2>3. 0 \in 0 .. Steps
    BY CacheAssumption
  <2>4. consecutive' = [consecutive EXCEPT ![r] = consecutive[r] + 1] => consecutive' \in [Ranks -> 0 .. Steps]
          \/ pc[r] # "decide"
    BY <1>1, <2>2
  <2>5. [consecutive EXCEPT ![r] = 0] \in [Ranks -> 0 .. Steps]
    BY <1>1, <2>3
  <2> QED
    BY <1>1, <2>1, <2>4, <2>5
<1>11. records' \in [Ranks -> Seq(BOOLEAN)]
  <2>1. records' = records \/ \E v \in BOOLEAN : records' = [records EXCEPT ![r] = Append(@, v)]
    BY DEF CacheRank, Cache!RunDisabled, Cache!RunPrefix, Cache!Join, Cache!Decide, Cache!RunMiddle, Cache!Record
  <2>2. \A v \in BOOLEAN : Append(records[r], v) \in Seq(BOOLEAN)
    BY <1>1, OneMore
  <2> QED
    BY <1>1, <2>1, <2>2
<1>12. previous' \in [Ranks -> (0 .. Requests) \X (0 .. Steps)]
  <2>1. previous' = previous \/ previous' = [previous EXCEPT ![r] = <<request, step[r]>>]
    BY DEF CacheRank, Cache!RunDisabled, Cache!RunPrefix, Cache!Join, Cache!Decide, Cache!RunMiddle
  <2>2. <<request, step[r]>> \in (0 .. Requests) \X (0 .. Steps)
    BY <1>1
  <2> QED
    BY <1>1, <2>1, <2>2, Zenon
<1>13. finite' \in [Ranks -> BOOLEAN]
  <2>1. finite' = finite \/ \E f \in BOOLEAN : finite' = [finite EXCEPT ![r] = f]
    BY DEF CacheRank, Cache!RunDisabled, Cache!RunPrefix, Cache!Join, Cache!Decide, Cache!RunMiddle
  <2> QED
    BY <1>1, <2>1
<1>14. share' \in [Ranks -> Shares \union {Cache!Bad}]
  <2>1. share' = share \/ \E s \in Shares : share' = [share EXCEPT ![r] = s]
    BY DEF CacheRank, Cache!RunDisabled, Cache!RunPrefix, Cache!Join, Cache!Decide, Cache!RunMiddle
  <2> QED
    BY <1>1, <2>1
<1>15. DOMAIN stats' \subseteq Ranks
  <2>1. DOMAIN Cache!NoStats = {}
    BY DEF Cache!NoStats
  <2>2. \/ stats' = stats \/ stats' = Cache!NoStats
        \/ DOMAIN stats' = DOMAIN stats \union {r}
    BY <1>2 DEF RankStep, DisabledStep, PrefixStep, JoinStep, DecideStep, MiddleStep
  <2> QED
    BY <1>1, <2>1, <2>2
<1>16. executed' \in [Ranks -> Nat]
  <2>1. executed' = executed \/ \E n \in {Blocks, config.fn_blocks, config.bn_blocks,
                                          Cache!MiddleBlocks(config) + config.bn_blocks} :
                                  executed' = [executed EXCEPT ![r] = @ + n]
    BY DEF CacheRank, Cache!RunDisabled, Cache!RunPrefix, Cache!Join, Cache!Decide, Cache!RunMiddle,
      Cache!Compute, Cache!ComputeMore
  <2>2. \A n \in {Blocks, config.fn_blocks, config.bn_blocks, Cache!MiddleBlocks(config) + config.bn_blocks} :
          executed[r] + n \in Nat
    <3>1. executed[r] \in Nat /\ Blocks \in Nat
      BY <1>1, CacheAssumption
    <3> QED
      BY <1>3, <3>1
  <2> QED
    BY <1>1, <2>1, <2>2
<1>17. trace' \in [Ranks -> Seq(Seq(PartSet))]
  <2>1. CASE trace' = trace
    BY <1>1, <2>1
  <2>2. ASSUME NEW x \in PartSet, trace' = [trace EXCEPT ![r] = Append(@, <<x>>)]
        PROVE  trace' \in [Ranks -> Seq(Seq(PartSet))]
    <3>1. <<x>> \in Seq(PartSet)
      BY <2>2
    <3>2. Append(trace[r], <<x>>) \in Seq(Seq(PartSet))
      BY <1>1, <3>1, OneMore
    <3> QED
      BY <1>1, <2>2, <3>2
  <2>3. ASSUME NEW parts \in Seq(PartSet), pc[r] # "idle",
               trace' = [trace EXCEPT ![r][Len(trace[r])] = @ \o parts]
        PROVE  trace' \in [Ranks -> Seq(Seq(PartSet))]
    <3> DEFINE T == Seq(PartSet)
               t == trace[r]
               e == t[Len(t)] \o parts
               u == [t EXCEPT ![Len(t)] = e]
    <3>1. trace' = [trace EXCEPT ![r] = u]
      BY <2>3
    <3>2. t \in Seq(T) /\ Len(t) # 0
      BY <1>1, <1>7, <2>3
    <3>3. e \in T
      <4>1. t[Len(t)] \in Seq(PartSet)
        BY <3>2
      <4> HIDE DEF PartSet, t
      <4> QED
        BY <4>1, <2>3, ConcatProperties
    <3>4. u \in Seq(T)
      <4> HIDE DEF T, t, e
      <4> QED
        BY <3>2, <3>3, LastReplaced
    <3> QED
      BY <1>1, <3>1, <3>4
  <2>4. <<"reduce">> \in Seq(PartSet) /\ <<"suffix">> \in Seq(PartSet) /\ <<"middle", "suffix">> \in Seq(PartSet)
    OBVIOUS
  <2>5. \/ trace' = trace
        \/ \E x \in PartSet : trace' = [trace EXCEPT ![r] = Append(@, <<x>>)]
        \/ pc[r] # "idle" /\ \E parts \in {<<"reduce">>, <<"suffix">>, <<"middle", "suffix">>} :
                               trace' = [trace EXCEPT ![r][Len(trace[r])] = @ \o parts]
    BY DEF CacheRank, Cache!RunDisabled, Cache!RunPrefix, Cache!Join, Cache!Decide, Cache!RunMiddle,
      Cache!Compute, Cache!ComputeMore, Cache!GoOn
  <2> QED
    BY <2>1, <2>2, <2>3, <2>4, <2>5
<1>18. Cache!TypeOK'
  BY <1>1, <1>2, <1>8, <1>9, <1>10, <1>11, <1>12, <1>13, <1>14, <1>15, <1>16, <1>17
    DEF Cache!TypeOK, Moves
<1>19. step'[r] = IF pc'[r] = "idle" THEN Past(r)' ELSE Current(r)'
  <2>1. step'[r] = IF pc[r] = "idle" THEN step[r] + 1 ELSE step[r]
    BY <1>2 DEF RankStep, DisabledStep, PrefixStep, JoinStep, DecideStep, MiddleStep
  <2>2. step'[r] = Past(r) + 1
    BY <1>4, <1>6, <2>1
  <2>3. CASE \E v \in BOOLEAN : Ends(r, v)
    BY <1>1, <2>2, <2>3, OneMore DEF Past, Ends
  <2>4. CASE \E to \in {"reduce", "decide", "middle"} : Goes(r, to)
    BY <2>2, <2>4 DEF Past, Current, Goes
  <2> QED
    BY <1>2, <2>3, <2>4, EndsOrGoes
<1>20. ASSUME NEW q \in Ranks PROVE step'[q] = (IF pc[q] = "idle" THEN Past(q) ELSE Current(q))' /\ pc'[q] # "prefix"
  <2>1. CASE q = r
    <3>1. pc'[r] # "prefix"
      BY <1>2, EndsOrGoes DEF Ends, Goes
    <3> QED
      BY <1>19, <2>1, <3>1
  <2>2. CASE q # r
    BY <1>0, <1>2, <2>2 DEF CacheTypes, Moves, Past, Current
  <2> QED
    BY <2>1, <2>2
<1>21. ASSUME NEW q \in Ranks, pc'[q] # "idle" PROVE ~Cache!Disabled(config')
  <2>1. pc[q] # "idle" \/ ~Cache!Disabled(config)
    BY <1>2, <1>21 DEF Moves, RankStep, DisabledStep, PrefixStep, JoinStep, DecideStep, MiddleStep, Ends
  <2> QED
    BY <1>0, <1>2, <2>1 DEF CacheTypes, Moves
<1> QED
  BY <1>2, <1>18, <1>20, <1>21 DEF CacheTypes, Moves

(* The steps before the one that ends stay as they are.                    *)
LEMMA RecordEnds ==
  ASSUME CacheTypes, NEW r \in Ranks, NEW v \in BOOLEAN, Ends(r, v), config' = config
  PROVE  /\ Past(r)' = Past(r) + 1 /\ Past(r) \in Nat
         /\ \A k \in 1 .. Past(r) : records'[r][k] = records[r][k]
         /\ records'[r][Past(r) + 1] = v
         /\ \A k \in 0 .. Past(r) : Must(config', records'[r], k) <=> Must(config, records[r], k)
         /\ Cache!Hits(r)' = Cache!Hits(r) + (IF v THEN 1 ELSE 0)
         /\ Cache!Hits(r) \in Nat
<1>1. records[r] \in Seq(BOOLEAN) /\ Past(r) \in Nat
  BY RecordTypes
<1>2. records'[r] = Append(records[r], v)
  BY DEF Ends
<1>3. /\ Past(r)' = Past(r) + 1
      /\ \A k \in 1 .. Past(r) : records'[r][k] = records[r][k]
      /\ records'[r][Past(r) + 1] = v
  BY <1>1, <1>2, OneMore DEF Past
<1>4. ASSUME NEW k \in 0 .. Past(r)
      PROVE  Must(config', records'[r], k) <=> Must(config, records[r], k)
  <2>1. k \in Nat /\ \A j \in 1 .. k : records'[r][j] = records[r][j]
    BY <1>1, <1>3
  <2>2. Must(config, records'[r], k) <=> Must(config, records[r], k)
    BY <2>1, MustSame
  <2> QED
    BY <2>2
<1>5. /\ Cardinality({k \in DOMAIN records[r] : records[r][k]}) \in Nat
      /\ Cardinality({k \in DOMAIN Append(records[r], v) : Append(records[r], v)[k]})
           = Cardinality({k \in DOMAIN records[r] : records[r][k]}) + (IF v THEN 1 ELSE 0)
  BY <1>1, HitsOneMore
<1>6. /\ Cache!Hits(r) = Cardinality({k \in DOMAIN records[r] : records[r][k]})
      /\ Cache!Hits(r)' = Cardinality({k \in DOMAIN records'[r] : records'[r][k]})
  BY Counting DEF Cache!Hits
<1>7. Cache!Hits(r)' = Cache!Hits(r) + (IF v THEN 1 ELSE 0) /\ Cache!Hits(r) \in Nat
  BY <1>2, <1>5, <1>6
<1> QED
  BY <1>1, <1>3, <1>4, <1>7

LEMMA RecordGoes ==
  ASSUME NEW r, records'[r] = records[r], config' = config
  PROVE  /\ Past(r)' = Past(r) /\ Current(r)' = Current(r)
         /\ Cache!Hits(r)' = Cache!Hits(r)
         /\ \A k : Must(config', records'[r], k) <=> Must(config, records[r], k)
<1>1. Cache!Hits(r)' = Cache!Hits(r)
  BY DEF Cache!Hits
<1> QED
  BY <1>1 DEF Past, Current

LEMMA InARowStep ==
  ASSUME CacheInv, NEW r \in Ranks, Moves(r), RankStep(r), NEW q \in Ranks
  PROVE  InARow(q)'
<1>1. CacheTypes /\ InARow(q) /\ Allowed(q) /\ config' = config
  BY DEF CacheInv, Counted, Moves
<1>2. CASE q # r
  BY <1>1, <1>2 DEF InARow, Moves, Past
<1>3. ASSUME q = r, NEW to, Goes(r, to) PROVE InARow(r)'
  BY <1>1, <1>3 DEF InARow, Goes, Past
<1>4. ASSUME q = r, Ends(r, FALSE), consecutive'[r] = 0 PROVE InARow(r)'
  <2>1. Past(r)' = Past(r) + 1 /\ Past(r) \in Nat /\ records'[r][Past(r) + 1] = FALSE
    BY <1>1, <1>4, RecordEnds
  <2>2. Past(r)' - consecutive'[r] = Past(r) + 1 /\ \A j \in Past(r)' - consecutive'[r] + 1 .. Past(r)' : FALSE
    BY <1>4, <2>1
  <2> QED
    BY <1>4, <2>1, <2>2 DEF InARow
<1>5. CASE q = r /\ DisabledStep(r)
  <2>1. consecutive[r] = 0
    <3> SUFFICES ASSUME consecutive[r] # 0 PROVE FALSE
      OBVIOUS
    <3>1. Past(r) \in 1 .. Past(r) /\ Past(r) \in Past(r) - consecutive[r] + 1 .. Past(r)
      BY <1>1, <1>5, RecordTypes DEF InARow
    <3>2. records[r][Past(r)]
      BY <1>1, <1>5, <3>1 DEF InARow
    <3>3. ~Must(config, records[r], Past(r) - 1)
      BY <1>1, <1>5, <3>1, <3>2 DEF Allowed
    <3> QED
      BY <1>5, <3>3 DEF DisabledStep, Must
  <2> QED
    BY <1>4, <1>5, <2>1 DEF DisabledStep
<1>6. CASE q = r /\ MiddleStep(r)
  BY <1>4, <1>6 DEF MiddleStep
<1>7. ASSUME q = r, Ends(r, TRUE), consecutive'[r] = consecutive[r] + 1 PROVE InARow(r)'
  <2>1. /\ Past(r)' = Past(r) + 1 /\ Past(r) \in Nat /\ records'[r][Past(r) + 1] = TRUE
        /\ \A k \in 1 .. Past(r) : records'[r][k] = records[r][k]
    BY <1>1, <1>7, RecordEnds
  <2>2. /\ consecutive[r] \in 0 .. Past(r)
        /\ \A j \in Past(r) - consecutive[r] + 1 .. Past(r) : records[r][j]
        /\ consecutive[r] < Past(r) => ~records[r][Past(r) - consecutive[r]]
    BY <1>1, <1>7 DEF InARow
  <2>3. Past(r)' - consecutive'[r] = Past(r) - consecutive[r] /\ consecutive'[r] \in 0 .. Past(r)'
    <3>1. \A p \in Nat : \A c \in 0 .. p : (p + 1) - (c + 1) = p - c /\ c + 1 \in 0 .. p + 1
      OBVIOUS
    <3>2. Past(r)' = Past(r) + 1 /\ consecutive'[r] = consecutive[r] + 1 /\ Past(r) \in Nat /\ consecutive[r] \in 0 .. Past(r)
      BY <1>7, <2>1, <2>2
    <3> QED
      BY <3>1, <3>2
  <2>4. ASSUME NEW j \in Past(r) - consecutive[r] + 1 .. Past(r) + 1 PROVE records'[r][j]
    <3>1. CASE j = Past(r) + 1
      BY <2>1, <3>1
    <3>2. CASE j # Past(r) + 1
      <4>1. j \in 1 .. Past(r) /\ j \in Past(r) - consecutive[r] + 1 .. Past(r)
        BY <2>1, <2>2, <3>2
      <4> QED
        BY <2>1, <2>2, <4>1
    <3> QED
      BY <3>1, <3>2
  <2>5. ASSUME consecutive'[r] < Past(r)' PROVE ~records'[r][Past(r) - consecutive[r]]
    <3>1. consecutive[r] < Past(r) /\ Past(r) - consecutive[r] \in 1 .. Past(r)
      BY <1>7, <2>1, <2>2, <2>5
    <3> QED
      BY <2>1, <2>2, <3>1
  <2> QED
    BY <2>1, <2>3, <2>4, <2>5 DEF InARow
<1> QED
  BY <1>2, <1>3, <1>5, <1>6, <1>7 DEF RankStep, PrefixStep, JoinStep, DecideStep

LEMMA AllowedStep ==
  ASSUME CacheInv, NEW r \in Ranks, Moves(r), RankStep(r), NEW q \in Ranks
  PROVE  Allowed(q)'
<1>1. CacheTypes /\ Allowed(q) /\ config' = config
  BY DEF CacheInv, Counted, Moves
<1>2. CASE q # r
  BY <1>1, <1>2 DEF Allowed, Moves, Past
<1>3. ASSUME q = r, NEW to, Goes(r, to), to \in {"reduce", "decide"} => ~Must(config, records[r], Past(r))
      PROVE  Allowed(r)'
  BY <1>1, <1>3 DEF Allowed, Goes, Past
<1>4. ASSUME q = r, NEW v \in BOOLEAN, Ends(r, v), v => ~Must(config, records[r], Past(r))
      PROVE  Allowed(r)'
  <2>1. /\ Past(r)' = Past(r) + 1 /\ Past(r) \in Nat /\ records'[r][Past(r) + 1] = v
        /\ \A k \in 1 .. Past(r) : records'[r][k] = records[r][k]
        /\ \A k \in 0 .. Past(r) : Must(config', records'[r], k) <=> Must(config, records[r], k)
    BY <1>1, <1>4, RecordEnds
  <2>2. ASSUME NEW k \in 1 .. Past(r) + 1, records'[r][k]
        PROVE  ~Must(config', records'[r], k - 1)
    <3>1. k - 1 \in 0 .. Past(r)
      BY <2>1
    <3>2. CASE k = Past(r) + 1
      <4>1. v /\ k - 1 = Past(r)
        BY <2>1, <2>2, <3>2
      <4> QED
        BY <1>4, <2>1, <3>1, <4>1
    <3>3. CASE k # Past(r) + 1
      <4>1. k \in 1 .. Past(r)
        BY <2>1, <3>3
      <4>2. ~Must(config, records[r], k - 1)
        BY <1>1, <1>4, <2>1, <2>2, <4>1 DEF Allowed
      <4> QED
        BY <2>1, <3>1, <4>2
    <3> QED
      BY <3>2, <3>3
  <2>3. pc'[r] = "idle"
    BY <1>4 DEF Ends
  <2> QED
    BY <2>1, <2>2, <2>3 DEF Allowed
<1>5. CASE q = r /\ (DisabledStep(r) \/ MiddleStep(r))
  BY <1>4, <1>5 DEF DisabledStep, MiddleStep
<1>6. CASE q = r /\ PrefixStep(r)
  BY <1>3, <1>6 DEF PrefixStep
<1>7. CASE q = r /\ JoinStep(r)
  <2>1. ~Must(config, records[r], Past(r))
    BY <1>1, <1>7 DEF JoinStep, Allowed
  <2> QED
    BY <1>3, <1>7, <2>1 DEF JoinStep
<1>8. CASE q = r /\ DecideStep(r)
  <2>1. ~Must(config, records[r], Past(r))
    BY <1>1, <1>8 DEF DecideStep, Allowed
  <2> QED
    BY <1>3, <1>4, <1>8, <2>1 DEF DecideStep
<1> QED
  BY <1>2, <1>5, <1>6, <1>7, <1>8 DEF RankStep

LEMMA SkippedStep ==
  ASSUME CacheInv, NEW r \in Ranks, Moves(r), RankStep(r), NEW q \in Ranks
  PROVE  Skipped(q)'
<1>1. CacheTypes /\ Skipped(q) /\ config' = config
  BY DEF CacheInv, Counted, Moves
<1>2. CASE q # r
  <2>1. Past(q)' = Past(q) /\ Cache!Hits(q)' = Cache!Hits(q)
    BY <1>1, <1>2, RecordGoes DEF Moves
  <2> QED
    BY <1>1, <1>2, <2>1 DEF Skipped, Prefix, Moves
<1> SUFFICES ASSUME q = r PROVE Skipped(r)'
  BY <1>2
<1> DEFINE L == Past(r)
           H == Cache!Hits(r)
           M == Cache!MiddleBlocks(config)
           fn == config.fn_blocks
           bn == config.bn_blocks
           e == executed[r]
<1>3. /\ L \in Nat /\ M \in Nat /\ fn \in Nat /\ bn \in Nat /\ e \in Nat /\ Blocks \in Nat
      /\ fn + M + bn = Blocks
  <2>1. L \in Nat /\ e \in Nat /\ config \in Cache!Configs
    BY <1>1, RecordTypes
  <2>2. M \in Nat /\ fn + M + bn = Blocks
    BY <2>1, MiddleIs
  <2>3. fn \in 1 .. Blocks - 1 /\ bn \in 0 .. Blocks - 1
    BY <2>1, ConfigTypes
  <2> QED
    BY <2>1, <2>2, <2>3, CacheAssumption
<1>4. H \in Nat
  <2>1. records[r] \in Seq(BOOLEAN) /\ FALSE \in BOOLEAN
    BY <1>1, RecordTypes
  <2>2. Cardinality({k \in DOMAIN records[r] : records[r][k]}) \in Nat
    BY <2>1, HitsOneMore
  <2> QED
    BY <2>2, HitsAre
<1>5. L * Blocks + (IF pc[r] = "idle" THEN 0 ELSE fn) - e = H * M
  BY <1>1 DEF Skipped, Prefix
<1>6. L * Blocks \in Nat /\ (L + 1) * Blocks = L * Blocks + Blocks
      /\ H * M \in Nat /\ (H + 1) * M = H * M + M
  BY <1>3, <1>4, Times
<1>7. Skipped(r)' <=> Past(r)' * Blocks + (IF pc'[r] = "idle" THEN 0 ELSE fn) - executed'[r] = Cache!Hits(r)' * M
  BY <1>1 DEF Skipped, Prefix
<1>8. ASSUME NEW v \in BOOLEAN, Ends(r, v)
      PROVE  Past(r)' = L + 1 /\ Cache!Hits(r)' = H + (IF v THEN 1 ELSE 0) /\ pc'[r] = "idle"
  BY <1>1, <1>8, RecordEnds DEF Ends
<1>8t. Ends(r, TRUE) => Past(r)' = L + 1 /\ Cache!Hits(r)' = H + 1 /\ pc'[r] = "idle"
  BY <1>8
<1>8f. Ends(r, FALSE) => Past(r)' = L + 1 /\ Cache!Hits(r)' = H /\ pc'[r] = "idle"
  <2>1. Ends(r, FALSE) => Past(r)' = L + 1 /\ Cache!Hits(r)' = H + 0 /\ pc'[r] = "idle"
    BY <1>8
  <2> HIDE DEF H
  <2> QED
    BY <1>4, <2>1
<1>9. ASSUME NEW to, Goes(r, to)
      PROVE  Past(r)' = L /\ Cache!Hits(r)' = H /\ pc'[r] = to
  BY <1>1, <1>9, RecordGoes DEF Goes
<1>10. CASE DisabledStep(r)
  <2>1. Past(r)' = L + 1 /\ Cache!Hits(r)' = H /\ pc'[r] = "idle" /\ pc[r] = "idle" /\ executed'[r] = e + Blocks
    BY <1>8f, <1>10 DEF DisabledStep
  <2> HIDE DEF L, H, M, fn, bn, e
  <2>2. (L + 1) * Blocks + 0 - (e + Blocks) = H * M
    BY <1>3, <1>5, <1>6, <2>1
  <2> QED
    BY <1>7, <2>1, <2>2
<1>11. CASE PrefixStep(r)
  <2>1. Past(r)' = L /\ Cache!Hits(r)' = H /\ pc'[r] # "idle" /\ pc[r] = "idle" /\ executed'[r] = e + fn
    BY <1>9, <1>11 DEF PrefixStep
  <2> HIDE DEF L, H, M, fn, bn, e
  <2>2. L * Blocks + fn - (e + fn) = H * M
    BY <1>3, <1>5, <1>6, <2>1
  <2> QED
    BY <1>7, <2>1, <2>2
<1>12. CASE JoinStep(r) \/ (DecideStep(r) /\ Goes(r, "middle"))
  <2>1. Past(r)' = L /\ Cache!Hits(r)' = H /\ pc'[r] # "idle" /\ pc[r] # "idle"
    <3>1. (Goes(r, "decide") \/ Goes(r, "middle")) /\ pc[r] # "idle"
      BY <1>12 DEF JoinStep, DecideStep
    <3> QED
      BY <1>9, <3>1
  <2>2. executed'[r] = e
    BY <1>12, <2>1 DEF JoinStep, DecideStep, Ends
  <2> QED
    BY <1>5, <1>7, <2>1, <2>2
<1>13. CASE DecideStep(r) /\ ~Goes(r, "middle")
  <2>1. Past(r)' = L + 1 /\ Cache!Hits(r)' = H + 1 /\ pc'[r] = "idle" /\ pc[r] # "idle" /\ executed'[r] = e + bn
    BY <1>8t, <1>13 DEF DecideStep
  <2> HIDE DEF L, H, M, fn, bn, e
  <2>2. (L + 1) * Blocks + 0 - (e + bn) = (H + 1) * M
    BY <1>3, <1>5, <1>6, <2>1
  <2> QED
    BY <1>7, <2>1, <2>2
<1>14. CASE MiddleStep(r)
  <2>1. Past(r)' = L + 1 /\ Cache!Hits(r)' = H /\ pc'[r] = "idle" /\ pc[r] # "idle" /\ executed'[r] = e + (M + bn)
    BY <1>8f, <1>14 DEF MiddleStep
  <2> HIDE DEF L, H, M, fn, bn, e
  <2>2. (L + 1) * Blocks + 0 - (e + (M + bn)) = H * M
    BY <1>3, <1>5, <1>6, <2>1
  <2> QED
    BY <1>7, <2>1, <2>2
<1> QED
  BY <1>10, <1>11, <1>12, <1>13, <1>14 DEF RankStep

LEMMA CountedStep ==
  ASSUME CacheInv, NEW r \in Ranks, Moves(r), RankStep(r)
  PROVE  Counted'
BY InARowStep, AllowedStep, SkippedStep DEF Counted

-----------------------------------------------------------------------------
(* The lists of parts a step can consist of.                               *)
Kinds == {"all", "prefix", "reduce", "middle", "suffix"}
Lists == Seq(Kinds)

LEMMA One ==
  ASSUME NEW S, NEW a \in S, NEW s, s = <<a>>
  PROVE  s \in Seq(S) /\ Len(s) = 1 /\ s[1] = a
OBVIOUS

LEMMA Two ==
  ASSUME NEW S, NEW a \in S, NEW b \in S, NEW s, s = <<a, b>>
  PROVE  s \in Seq(S) /\ Len(s) = 2 /\ s[1] = a /\ s[2] = b
OBVIOUS

LEMMA Three ==
  ASSUME NEW S, NEW a \in S, NEW b \in S, NEW c \in S, NEW s, s = <<a, b, c>>
  PROVE  s \in Seq(S) /\ Len(s) = 3 /\ s[1] = a /\ s[2] = b /\ s[3] = c
OBVIOUS

LEMMA Four ==
  ASSUME NEW S, NEW a \in S, NEW b \in S, NEW c \in S, NEW d \in S, NEW s, s = <<a, b, c, d>>
  PROVE  s \in Seq(S) /\ Len(s) = 4 /\ s[1] = a /\ s[2] = b /\ s[3] = c /\ s[4] = d
OBVIOUS

LEMMA Joined2 ==
  ASSUME NEW S, NEW s \in Seq(S), NEW t \in Seq(S), NEW u \in Seq(S),
         Len(u) = Len(s) + Len(t),
         \A i \in 1 .. Len(s) : u[i] = s[i],
         \A i \in 1 .. Len(t) : u[Len(s) + i] = t[i]
  PROVE  s \o t = u
<1> DEFINE m == Len(s)
           n == Len(t)
<1>0. m \in Nat /\ n \in Nat
  OBVIOUS
<1>1. /\ s \o t \in Seq(S) /\ Len(s \o t) = m + n
      /\ \A i \in 1 .. m + n : (s \o t)[i] = IF i <= m THEN s[i] ELSE t[i - m]
  BY ConcatProperties
<1>2. ASSUME NEW i \in 1 .. m + n PROVE (s \o t)[i] = u[i]
  <2>1. CASE i <= m
    BY <1>1, <2>1
  <2>2. CASE ~(i <= m)
    <3>1. i - m \in 1 .. n /\ m + (i - m) = i
      BY <1>0, <2>2
    <3> QED
      BY <1>1, <2>2, <3>1
  <2> QED
    BY <2>1, <2>2
<1> QED
  BY <1>1, <1>2, SeqEqual

LEMMA Joining ==
  /\ <<"prefix">> \o <<"reduce">> = <<"prefix", "reduce">>
  /\ <<"prefix">> \o <<"middle", "suffix">> = <<"prefix", "middle", "suffix">>
  /\ <<"prefix", "reduce">> \o <<"suffix">> = <<"prefix", "reduce", "suffix">>
  /\ <<"prefix", "reduce">> \o <<"middle", "suffix">> = <<"prefix", "reduce", "middle", "suffix">>
<1>0. "prefix" \in Kinds /\ "reduce" \in Kinds /\ "middle" \in Kinds /\ "suffix" \in Kinds
  BY DEF Kinds
<1>1. ASSUME NEW s, NEW t, NEW u, s = <<"prefix">>, t = <<"reduce">>, u = <<"prefix", "reduce">>
      PROVE  s \o t = u
  <2>1. s \in Seq(Kinds) /\ Len(s) = 1 /\ s[1] = "prefix"
    BY <1>0, <1>1, One, Zenon
  <2>2. t \in Seq(Kinds) /\ Len(t) = 1 /\ t[1] = "reduce"
    BY <1>0, <1>1, One, Zenon
  <2>3. u \in Seq(Kinds) /\ Len(u) = 2 /\ u[1] = "prefix" /\ u[2] = "reduce"
    BY <1>0, <1>1, Two, Zenon
  <2>4. /\ Len(u) = Len(s) + Len(t)
        /\ (\A i \in 1 .. Len(s) : u[i] = s[i]) /\ \A i \in 1 .. Len(t) : u[Len(s) + i] = t[i]
    BY <2>1, <2>2, <2>3
  <2> QED
    BY <2>1, <2>2, <2>3, <2>4, Joined2, Zenon
<1>2. ASSUME NEW s, NEW t, NEW u, s = <<"prefix">>, t = <<"middle", "suffix">>, u = <<"prefix", "middle", "suffix">>
      PROVE  s \o t = u
  <2>1. s \in Seq(Kinds) /\ Len(s) = 1 /\ s[1] = "prefix"
    BY <1>0, <1>2, One, Zenon
  <2>2. t \in Seq(Kinds) /\ Len(t) = 2 /\ t[1] = "middle" /\ t[2] = "suffix"
    BY <1>0, <1>2, Two, Zenon
  <2>3. u \in Seq(Kinds) /\ Len(u) = 3 /\ u[1] = "prefix" /\ u[2] = "middle" /\ u[3] = "suffix"
    BY <1>0, <1>2, Three
  <2>4. /\ Len(u) = Len(s) + Len(t)
        /\ (\A i \in 1 .. Len(s) : u[i] = s[i]) /\ \A i \in 1 .. Len(t) : u[Len(s) + i] = t[i]
    BY <2>1, <2>2, <2>3
  <2> QED
    BY <2>1, <2>2, <2>3, <2>4, Joined2, Zenon
<1>3. ASSUME NEW s, NEW t, NEW u, s = <<"prefix", "reduce">>, t = <<"suffix">>, u = <<"prefix", "reduce", "suffix">>
      PROVE  s \o t = u
  <2>1. s \in Seq(Kinds) /\ Len(s) = 2 /\ s[1] = "prefix" /\ s[2] = "reduce"
    BY <1>0, <1>3, Two, Zenon
  <2>2. t \in Seq(Kinds) /\ Len(t) = 1 /\ t[1] = "suffix"
    BY <1>0, <1>3, One, Zenon
  <2>3. u \in Seq(Kinds) /\ Len(u) = 3 /\ u[1] = "prefix" /\ u[2] = "reduce" /\ u[3] = "suffix"
    BY <1>0, <1>3, Three
  <2>4. /\ Len(u) = Len(s) + Len(t)
        /\ (\A i \in 1 .. Len(s) : u[i] = s[i]) /\ \A i \in 1 .. Len(t) : u[Len(s) + i] = t[i]
    BY <2>1, <2>2, <2>3
  <2> QED
    BY <2>1, <2>2, <2>3, <2>4, Joined2, Zenon
<1>4. ASSUME NEW s, NEW t, NEW u, s = <<"prefix", "reduce">>, t = <<"middle", "suffix">>,
             u = <<"prefix", "reduce", "middle", "suffix">>
      PROVE  s \o t = u
  <2>1. s \in Seq(Kinds) /\ Len(s) = 2 /\ s[1] = "prefix" /\ s[2] = "reduce"
    BY <1>0, <1>4, Two, Zenon
  <2>2. t \in Seq(Kinds) /\ Len(t) = 2 /\ t[1] = "middle" /\ t[2] = "suffix"
    BY <1>0, <1>4, Two, Zenon
  <2>3. u \in Seq(Kinds) /\ Len(u) = 4 /\ u[1] = "prefix" /\ u[2] = "reduce" /\ u[3] = "middle" /\ u[4] = "suffix"
    BY <1>0, <1>4, Four
  <2>4. /\ Len(u) = Len(s) + Len(t)
        /\ (\A i \in 1 .. Len(s) : u[i] = s[i]) /\ \A i \in 1 .. Len(t) : u[Len(s) + i] = t[i]
    BY <2>1, <2>2, <2>3
  <2> QED
    BY <2>1, <2>2, <2>3, <2>4, Joined2, Zenon
<1> QED
  BY <1>1, <1>2, <1>3, <1>4, Zenon

(* A step begins with `first`.                                             *)
LEMMA TraceBegins ==
  ASSUME CacheTypes, NEW r \in Ranks, Len(trace[r]) = Past(r),
         NEW first \in Lists, trace'[r] = Append(trace[r], first)
  PROVE  /\ Len(trace'[r]) = Current(r) /\ trace'[r][Current(r)] = first
         /\ \A k \in 1 .. Past(r) : trace'[r][k] = trace[r][k]
<1>1. trace[r] \in Seq(Lists)
  BY RecordTypes DEF Lists, Kinds
<1> QED
  BY <1>1, OneMore DEF Current

(* The step a rank is in goes on with `parts`.                             *)
LEMMA TraceGoesOn ==
  ASSUME CacheTypes, NEW r \in Ranks, Len(trace[r]) = Current(r), NEW parts \in Lists,
         trace'[r] = [trace[r] EXCEPT ![Len(trace[r])] = @ \o parts]
  PROVE  /\ Len(trace'[r]) = Current(r) /\ trace'[r][Current(r)] = trace[r][Current(r)] \o parts
         /\ \A k \in 1 .. Past(r) : trace'[r][k] = trace[r][k]
<1> DEFINE t == trace[r]
           e == t[Len(t)] \o parts
           u == trace'[r]
<1>1. t \in Seq(Lists) /\ Past(r) \in Nat /\ Current(r) = Past(r) + 1
  BY RecordTypes DEF Lists, Kinds, Current
<1>2. Len(t) # 0 /\ Len(t) - 1 = Past(r)
  BY <1>1
<1>3. e \in Lists
  <2>1. t[Len(t)] \in Lists
    BY <1>1, <1>2
  <2> QED
    BY <2>1, ConcatProperties DEF Lists
<1>4. u = [t EXCEPT ![Len(t)] = e]
  OBVIOUS
<1>5. /\ Len(u) = Len(t)
      /\ \A k \in 1 .. Len(t) - 1 : u[k] = t[k]
      /\ u[Len(t)] = e
  <2> HIDE DEF t, e, u
  <2> QED
    BY <1>1, <1>2, <1>3, <1>4, LastReplaced
<1> QED
  BY <1>2, <1>5

LEMMA PartTypes ==
  /\ <<"all">> \in Lists /\ <<"prefix">> \in Lists /\ <<"reduce">> \in Lists
  /\ <<"suffix">> \in Lists /\ <<"middle", "suffix">> \in Lists
BY DEF Lists, Kinds

(* A rank that ends its step has run what it records of it.                *)
LEMMA TracedEnd ==
  ASSUME CacheTypes, NEW r \in Ranks, NEW v \in BOOLEAN, Ends(r, v), config' = config, TracedAt(r),
         Len(trace'[r]) = Current(r),
         \A k \in 1 .. Past(r) : trace'[r][k] = trace[r][k],
         trace'[r][Current(r)] =
           IF Cache!Disabled(config) THEN <<"all">>
           ELSE IF Must(config, records[r], Past(r)) THEN <<"prefix", "middle", "suffix">>
           ELSE IF v THEN <<"prefix", "reduce", "suffix">>
           ELSE <<"prefix", "reduce", "middle", "suffix">>
  PROVE  TracedAt(r)'
<1>1. /\ Past(r)' = Past(r) + 1 /\ Past(r) \in Nat /\ Current(r) = Past(r) + 1
      /\ \A k \in 1 .. Past(r) : records'[r][k] = records[r][k]
      /\ records'[r][Past(r) + 1] = v
      /\ Must(config, records'[r], Past(r)) <=> Must(config, records[r], Past(r))
  <2>1. Past(r) \in Nat
    BY RecordTypes
  <2> QED
    BY <2>1, RecordEnds DEF Current
<1>2. ASSUME NEW k \in 1 .. Past(r)
      PROVE  trace'[r][k] = Whole(config', records'[r], k)
  <2>1. k \in Nat \ {0} /\ \A j \in 1 .. k : records'[r][j] = records[r][j]
    BY <1>1
  <2>2. Whole(config, records'[r], k) = Whole(config, records[r], k)
    BY <2>1, WholeSame
  <2> QED
    BY <2>2 DEF TracedAt
<1>3. trace'[r][Past(r) + 1] = Whole(config', records'[r], Past(r) + 1)
  <2>1. Past(r) + 1 - 1 = Past(r)
    BY <1>1
  <2> QED
    BY <1>1, <2>1 DEF Whole
<1>4. ASSUME NEW k \in 1 .. Past(r)' PROVE trace'[r][k] = Whole(config', records'[r], k)
  <2>1. k \in 1 .. Past(r) \/ k = Past(r) + 1
    BY <1>1
  <2> QED
    BY <1>2, <1>3, <2>1
<1>5. pc'[r] = "idle"
  BY DEF Ends
<1> QED
  BY <1>1, <1>4, <1>5 DEF TracedAt

(* So has one that goes on.                                                *)
LEMMA TracedGo ==
  ASSUME CacheTypes, NEW r \in Ranks, NEW to, to # "idle", Goes(r, to), config' = config, TracedAt(r),
         Len(trace'[r]) = Current(r),
         \A k \in 1 .. Past(r) : trace'[r][k] = trace[r][k],
         trace'[r][Current(r)] = IF to = "reduce" \/ Must(config, records[r], Past(r))
                                   THEN <<"prefix">> ELSE <<"prefix", "reduce">>
  PROVE  TracedAt(r)'
<1>1. Past(r)' = Past(r) /\ Current(r)' = Current(r) /\ pc'[r] = to /\ records'[r] = records[r]
  BY RecordGoes DEF Goes
<1>2. \A k \in 1 .. Past(r) : trace'[r][k] = Whole(config', records'[r], k)
  BY <1>1 DEF TracedAt
<1>3. trace'[r][Current(r)] = SoFar(r)'
  BY <1>1 DEF SoFar
<1> QED
  BY <1>1, <1>2, <1>3 DEF TracedAt

LEMMA TracedStep ==
  ASSUME CacheInv, NEW r \in Ranks, Moves(r), RankStep(r)
  PROVE  Traced'
<1>1. CacheTypes /\ Allowed(r) /\ TracedAt(r) /\ config' = config
  BY DEF CacheInv, Counted, Traced, Moves
<1>2. ASSUME NEW q \in Ranks, q # r PROVE TracedAt(q)'
  <2>1. TracedAt(q) /\ Past(q)' = Past(q) /\ Current(q)' = Current(q)
    BY <1>1, <1>2, RecordGoes DEF CacheInv, Traced, Moves
  <2>2. pc'[q] = pc[q] /\ records'[q] = records[q] /\ trace'[q] = trace[q]
    BY <1>2 DEF Moves
  <2>3. SoFar(q)' = SoFar(q)
    BY <1>1, <2>1, <2>2 DEF SoFar
  <2> QED
    BY <1>1, <2>1, <2>2, <2>3 DEF TracedAt
<1>3. pc[r] # "idle" => Len(trace[r]) = Current(r) /\ trace[r][Current(r)] = SoFar(r)
                        /\ ~Cache!Disabled(config)
  BY <1>1 DEF TracedAt, CacheTypes
<1>4. pc[r] \in {"reduce", "decide"} => ~Must(config, records[r], Past(r))
  BY <1>1 DEF Allowed
<1>5. CASE DisabledStep(r)
  <2>1. Len(trace[r]) = Past(r) /\ Ends(r, FALSE) /\ trace'[r] = Append(trace[r], <<"all">>)
    BY <1>1, <1>5 DEF DisabledStep, TracedAt
  <2>2. /\ Len(trace'[r]) = Current(r) /\ trace'[r][Current(r)] = <<"all">>
        /\ \A k \in 1 .. Past(r) : trace'[r][k] = trace[r][k]
    BY <1>1, <2>1, PartTypes, TraceBegins
  <2>3. TracedAt(r)'
    BY <1>1, <1>5, <2>1, <2>2, TracedEnd DEF DisabledStep
  <2> QED
    BY <1>2, <2>3 DEF Traced
<1>6. CASE PrefixStep(r)
  <2>1. Len(trace[r]) = Past(r) /\ trace'[r] = Append(trace[r], <<"prefix">>)
    BY <1>1, <1>6 DEF PrefixStep, TracedAt
  <2>2. /\ Len(trace'[r]) = Current(r) /\ trace'[r][Current(r)] = <<"prefix">>
        /\ \A k \in 1 .. Past(r) : trace'[r][k] = trace[r][k]
    BY <1>1, <2>1, PartTypes, TraceBegins
  <2>3. ASSUME Must(config, records[r], Past(r)) PROVE TracedAt(r)'
    <3>1. Goes(r, "middle")
      BY <1>6, <2>3 DEF PrefixStep
    <3>2. trace'[r][Current(r)] = IF "middle" = "reduce" \/ Must(config, records[r], Past(r))
                                    THEN <<"prefix">> ELSE <<"prefix", "reduce">>
      BY <2>2, <2>3
    <3> QED
      BY <1>1, <2>2, <3>1, <3>2, TracedGo
  <2>4. ASSUME ~Must(config, records[r], Past(r)) PROVE TracedAt(r)'
    <3>1. Goes(r, "reduce")
      BY <1>6, <2>4 DEF PrefixStep
    <3>2. trace'[r][Current(r)] = IF "reduce" = "reduce" \/ Must(config, records[r], Past(r))
                                    THEN <<"prefix">> ELSE <<"prefix", "reduce">>
      BY <2>2
    <3> QED
      BY <1>1, <2>2, <3>1, <3>2, TracedGo
  <2>5. TracedAt(r)'
    BY <2>3, <2>4
  <2> QED
    BY <1>2, <2>5 DEF Traced
<1>7. CASE JoinStep(r)
  <2>1. /\ Goes(r, "decide") /\ trace[r][Current(r)] = <<"prefix">> /\ Len(trace[r]) = Current(r)
        /\ trace'[r] = [trace[r] EXCEPT ![Len(trace[r])] = @ \o <<"reduce">>]
    BY <1>3, <1>7 DEF JoinStep, SoFar
  <2>2. /\ Len(trace'[r]) = Current(r) /\ trace'[r][Current(r)] = trace[r][Current(r)] \o <<"reduce">>
        /\ \A k \in 1 .. Past(r) : trace'[r][k] = trace[r][k]
    BY <1>1, <2>1, PartTypes, TraceGoesOn
  <2>3. trace'[r][Current(r)] = <<"prefix", "reduce">>
    BY <2>1, <2>2, Joining
  <2>4. ~Must(config, records[r], Past(r))
    BY <1>4, <1>7 DEF JoinStep
  <2>5. TracedAt(r)'
    BY <1>1, <2>1, <2>2, <2>3, <2>4, TracedGo
  <2> QED
    BY <1>2, <2>5 DEF Traced
<1>8. CASE DecideStep(r) /\ Goes(r, "middle")
  <2>1. pc[r] = "decide" /\ trace'[r] = trace[r]
    BY <1>8 DEF DecideStep, Goes, Ends
  <2>2. ~Must(config, records[r], Past(r)) /\ trace[r][Current(r)] = <<"prefix", "reduce">>
        /\ Len(trace[r]) = Current(r)
    BY <1>3, <1>4, <2>1 DEF SoFar
  <2>3. TracedAt(r)'
    BY <1>1, <1>8, <2>1, <2>2, TracedGo
  <2> QED
    BY <1>2, <2>3 DEF Traced
<1>9. CASE DecideStep(r) /\ ~Goes(r, "middle")
  <2>1. /\ pc[r] = "decide" /\ Ends(r, TRUE)
        /\ trace'[r] = [trace[r] EXCEPT ![Len(trace[r])] = @ \o <<"suffix">>]
    BY <1>9 DEF DecideStep
  <2>2. ~Must(config, records[r], Past(r)) /\ trace[r][Current(r)] = <<"prefix", "reduce">>
        /\ Len(trace[r]) = Current(r)
    BY <1>3, <1>4, <2>1 DEF SoFar
  <2>3. /\ Len(trace'[r]) = Current(r) /\ trace'[r][Current(r)] = trace[r][Current(r)] \o <<"suffix">>
        /\ \A k \in 1 .. Past(r) : trace'[r][k] = trace[r][k]
    BY <1>1, <2>1, <2>2, PartTypes, TraceGoesOn
  <2>4. trace'[r][Current(r)] = <<"prefix", "reduce", "suffix">>
    BY <2>2, <2>3, Joining
  <2>5. TracedAt(r)'
    BY <1>1, <1>3, <2>1, <2>2, <2>3, <2>4, TracedEnd
  <2> QED
    BY <1>2, <2>5 DEF Traced
<1>10. CASE MiddleStep(r)
  <2>1. /\ pc[r] = "middle" /\ Ends(r, FALSE)
        /\ trace'[r] = [trace[r] EXCEPT ![Len(trace[r])] = @ \o <<"middle", "suffix">>]
    BY <1>10 DEF MiddleStep
  <2>2. /\ Len(trace[r]) = Current(r)
        /\ trace[r][Current(r)] = IF Must(config, records[r], Past(r)) THEN <<"prefix">> ELSE <<"prefix", "reduce">>
    BY <1>3, <2>1 DEF SoFar
  <2>3. /\ Len(trace'[r]) = Current(r)
        /\ trace'[r][Current(r)] = trace[r][Current(r)] \o <<"middle", "suffix">>
        /\ \A k \in 1 .. Past(r) : trace'[r][k] = trace[r][k]
    BY <1>1, <2>1, <2>2, PartTypes, TraceGoesOn
  <2>4. trace'[r][Current(r)] =
          IF Must(config, records[r], Past(r)) THEN <<"prefix", "middle", "suffix">>
          ELSE <<"prefix", "reduce", "middle", "suffix">>
    BY <2>2, <2>3, Joining
  <2>5. TracedAt(r)'
    BY <1>1, <1>3, <2>1, <2>3, <2>4, TracedEnd
  <2> QED
    BY <1>2, <2>5 DEF Traced
<1> QED
  BY <1>5, <1>6, <1>7, <1>8, <1>9, <1>10 DEF RankStep

-----------------------------------------------------------------------------
(* Ranks that agree on the steps before find the same ones a must.         *)
LEMMA MustAgree ==
  ASSUME CacheTypes, Same, request > 0, NEW a \in Ranks, NEW b \in Ranks, NEW k \in Nat, k <= Past(a), k <= Past(b)
  PROVE  Must(config, records[a], k) <=> Must(config, records[b], k)
<1>1. /\ records[a] \in Seq(BOOLEAN) /\ Past(a) \in Nat /\ DOMAIN records[a] = 1 .. Past(a)
      /\ records[b] \in Seq(BOOLEAN) /\ Past(b) \in Nat /\ DOMAIN records[b] = 1 .. Past(b)
  BY RecordTypes
<1>2. Past(a) <= Steps
  <2>1. step[a] \in 0 .. Steps /\ step[a] = IF pc[a] = "idle" THEN Past(a) ELSE Current(a)
    BY RecordTypes DEF CacheTypes
  <2> QED
    BY <1>1, <2>1, CacheAssumption DEF Current
<1>3. ASSUME NEW j \in 1 .. k PROVE records[a][j] = records[b][j]
  <2>1. j \in 1 .. Steps /\ Past(a) >= j /\ Past(b) >= j
    BY <1>1, <1>2, CacheAssumption
  <2>2. Reused(a, j) <=> Reused(b, j)
    BY <2>1 DEF Same, Knows
  <2>3. records[a][j] \in BOOLEAN /\ records[b][j] \in BOOLEAN
    BY <1>1, <2>1
  <2> QED
    BY <2>1, <2>2, <2>3 DEF Reused
<1> QED
  BY <1>3, MustSame

(* What a rank knows changes at its current step only.                     *)
Kept(q, k) ==
  /\ Joined(q, k)' <=> Joined(q, k)
  /\ Knows(q, k)' <=> Knows(q, k)
  /\ Reused(q, k)' <=> Reused(q, k)

LEMMA OthersKept ==
  ASSUME NEW r \in Ranks, Moves(r), NEW q \in Ranks \ {r}
  PROVE  Past(q)' = Past(q) /\ Current(q)' = Current(q) /\ (Deciding(q)' <=> Deciding(q))
         /\ \A k \in 1 .. Steps : Kept(q, k)
<1>1. pc'[q] = pc[q] /\ records'[q] = records[q]
  BY DEF Moves
<1>2. Past(q)' = Past(q) /\ Current(q)' = Current(q)
  BY <1>1 DEF Past, Current
<1> QED
  BY <1>1, <1>2 DEF Deciding, Kept, Joined, Knows, Reused

LEMMA EarlierKept ==
  ASSUME CacheTypes, NEW r \in Ranks, Moves(r), RankStep(r), NEW k \in 1 .. Steps, k # Current(r)
  PROVE  Kept(r, k)
<1>1. Past(r) \in Nat /\ Current(r) = Past(r) + 1 /\ config' = config
  BY RecordTypes DEF Current, Moves
<1>2. ASSUME NEW v \in BOOLEAN, Ends(r, v) PROVE Kept(r, k)
  <2>1. /\ Past(r)' = Past(r) + 1 /\ Current(r)' = Past(r) + 2 /\ pc'[r] = "idle"
        /\ \A j \in 1 .. Past(r) : records'[r][j] = records[r][j]
    <3>1. /\ Past(r)' = Past(r) + 1 /\ pc'[r] = "idle"
          /\ \A j \in 1 .. Past(r) : records'[r][j] = records[r][j]
      BY <1>1, <1>2, RecordEnds DEF Ends
    <3> QED
      BY <1>1, <3>1 DEF Current
  <2>2. Past(r)' >= k <=> Past(r) >= k
    BY <1>1, <2>1
  <2>3. Past(r) >= k => records'[r][k] = records[r][k]
    BY <1>1, <2>1
  <2> QED
    BY <2>1, <2>2, <2>3 DEF Kept, Joined, Knows, Reused
<1>3. ASSUME NEW to, Goes(r, to) PROVE Kept(r, k)
  <2>1. Past(r)' = Past(r) /\ Current(r)' = Current(r) /\ records'[r] = records[r]
    BY <1>1, <1>3, RecordGoes DEF Goes
  <2> QED
    BY <2>1 DEF Kept, Joined, Knows, Reused
<1> QED
  BY <1>2, <1>3, EndsOrGoes

(* What it knows of its current step, before and after.                    *)
LEMMA CurrentNow ==
  ASSUME CacheTypes, NEW r \in Ranks
  PROVE  /\ Joined(r, Current(r)) <=> pc[r] \in {"decide", "middle"}
         /\ Knows(r, Current(r)) <=> pc[r] = "middle"
         /\ ~Reused(r, Current(r))
BY RecordTypes DEF Joined, Knows, Reused, Current

LEMMA CurrentEnds ==
  ASSUME CacheTypes, NEW r \in Ranks, Moves(r), NEW v \in BOOLEAN, Ends(r, v), NEW k, k = Current(r)
  PROVE  Joined(r, k)' /\ Knows(r, k)' /\ (Reused(r, k)' <=> v) /\ ~Deciding(r)'
<1>1. Past(r) \in Nat /\ k = Past(r) + 1 /\ Past(r)' = Past(r) + 1 /\ records'[r][Past(r) + 1] = v
  BY RecordEnds, RecordTypes DEF Moves, Current
<1> QED
  BY <1>1 DEF Joined, Knows, Reused, Deciding, Ends

LEMMA CurrentGoes ==
  ASSUME CacheTypes, NEW r \in Ranks, Moves(r), NEW to, Goes(r, to), NEW k, k = Current(r)
  PROVE  /\ Joined(r, k)' <=> to \in {"decide", "middle"}
         /\ Knows(r, k)' <=> to = "middle"
         /\ ~Reused(r, k)' /\ Past(r)' = Past(r) /\ (Deciding(r)' <=> to = "decide")
<1>1. Past(r) \in Nat /\ k = Past(r) + 1 /\ Past(r)' = Past(r) /\ Current(r)' = Current(r) /\ pc'[r] = to
  BY RecordGoes, RecordTypes DEF Moves, Current, Goes
<1>2. ~(Past(r)' >= k) /\ Current(r)' = k
  <2>1. \A n \in Nat : ~(n >= n + 1)
    OBVIOUS
  <2> QED
    BY <1>1, <2>1, Zenon
<1>3. Joined(r, k)' <=> to \in {"decide", "middle"}
  BY <1>1, <1>2 DEF Joined
<1>4. Knows(r, k)' <=> to = "middle"
  BY <1>1, <1>2 DEF Knows
<1>5. ~Reused(r, k)' /\ (Deciding(r)' <=> to = "decide")
  BY <1>1, <1>2 DEF Reused, Deciding
<1> QED
  BY <1>1, <1>3, <1>4, <1>5

(* A rank does not un-join.                                                *)
LEMMA StaysJoined ==
  ASSUME CacheTypes, NEW r \in Ranks, Moves(r), RankStep(r), NEW q \in Ranks, NEW k \in 1 .. Steps, Joined(q, k)
  PROVE  Joined(q, k)'
<1>1. CASE q # r
  BY <1>1, OthersKept DEF Kept
<1>2. CASE q = r /\ k # Current(r)
  BY <1>2, EarlierKept DEF Kept
<1>3. CASE q = r /\ k = Current(r)
  <2>1. pc[r] \in {"decide", "middle"}
    BY <1>3, CurrentNow
  <2>2. (\E v \in BOOLEAN : Ends(r, v)) \/ Goes(r, "middle")
    BY <2>1 DEF RankStep, DisabledStep, PrefixStep, JoinStep, DecideStep, MiddleStep
  <2> QED
    BY <1>3, <2>2, CurrentEnds, CurrentGoes
<1> QED
  BY <1>1, <1>2, <1>3

(* Where a rank learns what becomes of a step, the others that know say    *)
(* the same, and if the step is not a must they have all joined.           *)
LEMMA Learns ==
  ASSUME CacheInv, NEW r \in Ranks, Moves(r), RankStep(r),
         NEW q \in Ranks, q # r, NEW k \in 1 .. Steps, k = Current(r), Knows(r, k)'
  PROVE  /\ Knows(q, k) => (Reused(r, k)' <=> Reused(q, k))
         /\ Knows(r, k) \/ Must(config, records[r], Past(r)) \/ Joined(q, k)
<1>1. CacheTypes /\ Same /\ Reducing /\ Allowed(q) /\ request > 0 /\ Past(r) \in Nat /\ Past(q) \in Nat
      /\ Current(r) = Past(r) + 1
  BY RecordTypes DEF CacheInv, Counted, Moves, Current
<1>2. ASSUME Must(config, records[r], Past(r)), Reused(q, k) PROVE FALSE
  <2>1. Past(q) >= k /\ records[q][k] /\ k \in 1 .. Past(q) /\ k - 1 = Past(r)
    BY <1>1, <1>2 DEF Reused
  <2>2. ~Must(config, records[q], Past(r))
    BY <1>1, <2>1 DEF Allowed
  <2>3. Past(r) <= Past(q)
    BY <1>1, <2>1
  <2> QED
    BY <1>1, <1>2, <2>2, <2>3, MustAgree
<1>3. CASE DisabledStep(r)
  <2>1. Must(config, records[r], Past(r)) /\ Ends(r, FALSE)
    BY <1>3 DEF DisabledStep, Must
  <2>2. ~Reused(r, k)'
    BY <1>1, <2>1, CurrentEnds
  <2> QED
    BY <1>2, <2>1, <2>2
<1>4. CASE PrefixStep(r)
  <2>1. Must(config, records[r], Past(r)) /\ Goes(r, "middle")
    BY <1>1, <1>4, CurrentGoes DEF PrefixStep
  <2>2. ~Reused(r, k)'
    BY <1>1, <2>1, CurrentGoes
  <2> QED
    BY <1>2, <2>1, <2>2
<1>5. CASE JoinStep(r)
  BY <1>1, <1>5, CurrentGoes DEF JoinStep
<1>6. CASE DecideStep(r)
  <2>1. Deciding(r) /\ DOMAIN stats = Ranks
    BY <1>6 DEF DecideStep, Deciding
  <2>2. Joined(q, k) /\ (Knows(q, k) => (Reused(q, k) <=> Cache!Reuse(r)))
    BY <1>1, <2>1 DEF Reducing
  <2>3. Reused(r, k)' <=> Cache!Reuse(r)
    BY <1>1, <1>6, CurrentEnds, CurrentGoes DEF DecideStep
  <2> QED
    BY <2>2, <2>3
<1>7. CASE MiddleStep(r)
  <2>1. Knows(r, k) /\ ~Reused(r, k)
    BY <1>1, <1>7, CurrentNow DEF MiddleStep
  <2>2. ~Reused(r, k)'
    BY <1>1, <1>7, CurrentEnds DEF MiddleStep
  <2> QED
    BY <1>1, <2>1, <2>2 DEF Same
<1> QED
  BY <1>3, <1>4, <1>5, <1>6, <1>7 DEF RankStep

LEMMA SameStep ==
  ASSUME CacheInv, NEW r \in Ranks, Moves(r), RankStep(r)
  PROVE  Same'
<1>1. CacheTypes /\ Same
  BY DEF CacheInv
<1>2. ASSUME NEW q \in Ranks, NEW k \in 1 .. Steps, Knows(r, k)', Knows(q, k)'
      PROVE  Reused(r, k)' <=> Reused(q, k)'
  <2>1. CASE q = r
    BY <2>1
  <2>2. CASE q # r /\ k # Current(r)
    <3>1. Kept(r, k) /\ Kept(q, k)
      BY <1>1, <2>2, EarlierKept, OthersKept
    <3> QED
      BY <1>1, <1>2, <3>1 DEF Kept, Same
  <2>3. CASE q # r /\ k = Current(r)
    <3>1. Kept(q, k)
      BY <2>3, OthersKept
    <3> QED
      BY <1>2, <2>3, <3>1, Learns DEF Kept
  <2> QED
    BY <2>1, <2>2, <2>3
<1>3. ASSUME NEW a \in Ranks \ {r}, NEW b \in Ranks \ {r}, NEW k \in 1 .. Steps, Knows(a, k)', Knows(b, k)'
      PROVE  Reused(a, k)' <=> Reused(b, k)'
  <2>1. Kept(a, k) /\ Kept(b, k)
    BY OthersKept
  <2> QED
    BY <1>1, <1>3, <2>1 DEF Kept, Same
<1> QED
  BY <1>2, <1>3 DEF Same

LEMMA AllJoinedStep ==
  ASSUME CacheInv, NEW r \in Ranks, Moves(r), RankStep(r)
  PROVE  AllJoined'
<1>1. CacheTypes /\ AllJoined /\ config' = config
  BY DEF CacheInv, Moves
<1> SUFFICES ASSUME NEW a \in Ranks, NEW b \in Ranks, NEW k \in 1 .. Steps,
                    Knows(a, k)', ~Must(config', records'[a], k - 1)
             PROVE  Joined(b, k)'
  BY DEF AllJoined
<1>2. Past(a) \in Nat /\ Current(a) = Past(a) + 1
  BY <1>1, RecordTypes DEF Current
<1>3. k <= Current(a) => ~Must(config, records[a], k - 1)
  <2>1. CASE a # r
    BY <1>1, <2>1 DEF Moves
  <2>2. ASSUME a = r, NEW to, Goes(r, to) PROVE k <= Current(a) => ~Must(config, records[a], k - 1)
    BY <1>1, <2>2 DEF Goes
  <2>3. ASSUME a = r, NEW v \in BOOLEAN, Ends(r, v), k <= Current(a) PROVE ~Must(config, records[a], k - 1)
    <3>1. k - 1 \in 0 .. Past(r)
      BY <1>2, <2>3
    <3> QED
      BY <1>1, <2>3, <3>1, RecordEnds
  <2> QED
    BY <2>1, <2>2, <2>3, EndsOrGoes
<1>4. CASE Knows(a, k)
  <2>1. k <= Current(a)
    BY <1>2, <1>4 DEF Knows
  <2>2. Joined(b, k)
    BY <1>1, <1>3, <1>4, <2>1 DEF AllJoined
  <2> QED
    BY <1>1, <2>2, StaysJoined
<1>5. CASE ~Knows(a, k)
  <2>1. a = r
    BY <1>5, OthersKept DEF Kept
  <2>2. k = Current(r)
    BY <1>1, <1>5, <2>1, EarlierKept DEF Kept
  <2>3. ~Must(config, records[r], Past(r))
    BY <1>2, <1>3, <2>1, <2>2
  <2>4. CASE b = r
    <3>1. ~(\E to \in {"reduce", "decide"} : Goes(r, to))
      BY <1>1, <2>1, <2>2, CurrentGoes
    <3>2. (\E v \in BOOLEAN : Ends(r, v)) \/ Goes(r, "middle")
      BY <3>1, EndsOrGoes
    <3> QED
      BY <1>1, <2>2, <2>4, <3>2, CurrentEnds, CurrentGoes
  <2>5. CASE b # r
    <3>1. Joined(b, k)
      BY <1>5, <2>1, <2>2, <2>3, <2>5, Learns
    <3> QED
      BY <1>1, <3>1, StaysJoined
  <2> QED
    BY <2>4, <2>5
<1> QED
  BY <1>4, <1>5

LEMMA DecidingAt ==
  ASSUME CacheTypes, request > 0, NEW a \in Ranks, Deciding(a)
  PROVE  Current(a) \in 1 .. Steps
<1>1. step[a] \in 0 .. Steps /\ Past(a) \in Nat /\ step[a] = Current(a)
  BY RecordTypes DEF CacheTypes, Deciding
<1> QED
  BY <1>1, CacheAssumption DEF Current

(* The all-reduce a rank joins is that of its own step, and nobody knows   *)
(* its outcome.                                                            *)
LEMMA JoinsItsOwn ==
  ASSUME CacheInv, NEW r \in Ranks, Moves(r), JoinStep(r)
  PROVE  /\ \A q \in Ranks : ~Knows(q, Current(r))
         /\ \A a \in DOMAIN stats : Deciding(a) /\ Past(a) = Past(r)
<1>1. /\ CacheTypes /\ Same /\ AllJoined /\ Reducing /\ Counted /\ request > 0
      /\ Past(r) \in Nat /\ Current(r) = Past(r) + 1 /\ Current(r) \in 1 .. Steps
  <2>1. CacheTypes /\ Same /\ AllJoined /\ Reducing /\ Counted /\ request > 0
    BY DEF CacheInv, Moves
  <2>2. step[r] \in 0 .. Steps /\ step[r] = Current(r)
    BY <2>1, RecordTypes DEF CacheTypes, JoinStep
  <2> QED
    BY <2>1, <2>2, RecordTypes, CacheAssumption DEF Current
<1>2. ~Must(config, records[r], Past(r)) /\ pc[r] = "reduce" /\ r \notin DOMAIN stats
  BY <1>1 DEF Counted, Allowed, JoinStep
<1>3. ~Joined(r, Current(r)) /\ ~Knows(r, Current(r))
  BY <1>1, <1>2, CurrentNow
<1>4. ASSUME NEW q \in Ranks, Knows(q, Current(r)) PROVE FALSE
  <2>1. Past(q) \in Nat /\ Past(r) <= Past(q)
    BY <1>1, <1>4, RecordTypes DEF Knows, Current
  <2>2. ~Must(config, records[q], Past(r))
    BY <1>1, <1>2, <2>1, MustAgree
  <2>3. Current(r) - 1 = Past(r)
    BY <1>1
  <2>4. Joined(r, Current(r))
    BY <1>1, <1>4, <2>2, <2>3 DEF AllJoined
  <2> QED
    BY <1>3, <2>4
<1>5. ASSUME NEW a \in DOMAIN stats PROVE Deciding(a) /\ Past(a) = Past(r)
  <2>1. DOMAIN stats # Ranks /\ a \in Ranks
    BY <1>1, <1>2 DEF CacheTypes, Cache!TypeOK
  <2>2. Deciding(a) /\ Current(a) \in 1 .. Steps /\ ~Knows(r, Current(a))
    <3>1. Deciding(a)
      BY <1>1, <2>1 DEF Reducing
    <3>2. Current(a) \in 1 .. Steps
      BY <1>1, <2>1, <3>1, DecidingAt
    <3> QED
      BY <1>1, <2>1, <3>1, <3>2 DEF Reducing
  <2>3. Past(a) \in Nat /\ Current(a) = Past(a) + 1
    BY <1>1, <2>1, RecordTypes DEF Current
  <2>4. ~(Past(r) > Past(a))
    BY <1>1, <2>2, <2>3 DEF Knows
  <2>5. ~(Past(a) > Past(r))
    BY <1>1, <1>4, <2>1, <2>3 DEF Knows
  <2> QED
    BY <1>1, <2>2, <2>3, <2>4, <2>5
<1> QED
  BY <1>4, <1>5

SameReuse == \A a, b \in Ranks : Cache!Reuse(a)' <=> Cache!Reuse(b)

LEMMA ReuseKept == stats' = stats /\ config' = config => SameReuse
BY DEF SameReuse, Cache!Reuse

(* A rank that decides is at a step, and after a step of another one it    *)
(* still is.                                                               *)
LEMMA ReducingKept ==
  ASSUME CacheInv, NEW r \in Ranks, Moves(r), RankStep(r), stats' = stats,
         ~Deciding(r), ~Deciding(r)'
  PROVE  Reducing'
<1>1. CacheTypes /\ Reducing /\ Same /\ config' = config /\ request > 0
  BY DEF CacheInv, Moves
<1>2. ASSUME NEW a \in Ranks
      PROVE  /\ Deciding(a)' <=> Deciding(a)
             /\ Deciding(a) => a # r /\ Past(a)' = Past(a) /\ Current(a)' = Current(a) /\ Current(a) \in 1 .. Steps
  <2>1. CASE a = r
    BY <2>1
  <2>2. CASE a # r
    <3>1. Past(a)' = Past(a) /\ Current(a)' = Current(a) /\ (Deciding(a)' <=> Deciding(a))
      BY <2>2, OthersKept
    <3>2. Deciding(a) => Current(a) \in 1 .. Steps
      BY <1>1, DecidingAt
    <3> QED
      BY <2>2, <3>1, <3>2
  <2> QED
    BY <2>1, <2>2
<1>3. ASSUME NEW a \in Ranks, Deciding(a), NEW q \in Ranks, NEW k, k = Current(a)
      PROVE  /\ Joined(q, k) => Joined(q, k)'
             /\ Knows(q, k)' <=> Knows(q, k)
             /\ Knows(q, k) => (Reused(q, k)' <=> Reused(q, k))
  <2>1. k \in 1 .. Steps
    BY <1>2, <1>3
  <2>2. CASE q # r \/ k # Current(r)
    BY <1>1, <2>1, <2>2, OthersKept, EarlierKept DEF Kept
  <2>3. CASE q = r /\ k = Current(r)
    <3>1. Past(a) = Past(r) /\ Past(a) \in Nat /\ a # r
      BY <1>1, <1>2, <1>3, <2>3, RecordTypes DEF Current
    <3>2. ~Must(config, records[a], Past(a))
      BY <1>3 DEF CacheInv, Counted, Allowed, Deciding
    <3>3. ~Must(config, records[r], Past(r))
      BY <1>1, <3>1, <3>2, MustAgree
    <3>4. MiddleStep(r) \/ (PrefixStep(r) /\ Goes(r, "reduce"))
      BY <3>3 DEF RankStep, DisabledStep, PrefixStep, JoinStep, DecideStep, Deciding, Goes, Must
    <3>5. CASE MiddleStep(r)
      BY <1>1, <2>3, <3>5, CurrentNow, CurrentEnds DEF MiddleStep
    <3>6. CASE PrefixStep(r) /\ Goes(r, "reduce")
      BY <1>1, <2>3, <3>6, CurrentNow, CurrentGoes DEF PrefixStep
    <3> QED
      BY <3>4, <3>5, <3>6
  <2> QED
    BY <2>2, <2>3
<1>4. SameReuse
  BY <1>1, ReuseKept
<1>5. ASSUME NEW a \in Ranks, NEW q \in Ranks, NEW k \in 1 .. Steps, Deciding(a)', k = Current(a)'
      PROVE  IF DOMAIN stats' = Ranks
               THEN Joined(q, k)' /\ (Knows(q, k)' => (Reused(q, k)' <=> Cache!Reuse(a)'))
               ELSE ~Knows(q, k)'
  <2>1. Deciding(a) /\ k = Current(a)
    BY <1>2, <1>5
  <2>2. IF DOMAIN stats = Ranks
          THEN Joined(q, k) /\ (Knows(q, k) => (Reused(q, k) <=> Cache!Reuse(a)))
          ELSE ~Knows(q, k)
    BY <1>1, <2>1 DEF Reducing
  <2>3. /\ Joined(q, k) => Joined(q, k)'
        /\ Knows(q, k)' <=> Knows(q, k)
        /\ Knows(q, k) => (Reused(q, k)' <=> Reused(q, k))
    BY <1>3, <2>1
  <2>4. Cache!Reuse(a)' <=> Cache!Reuse(a)
    BY <1>4 DEF SameReuse
  <2> QED
    BY <2>2, <2>3, <2>4
<1>6. \A a \in Ranks : Deciding(a)' => a \in DOMAIN stats'
  BY <1>1, <1>2 DEF Reducing
<1>7. \A a \in DOMAIN stats' :
        \/ Deciding(a)'
        \/ DOMAIN stats' = Ranks /\ \E q \in Ranks : Deciding(q)'
  <2>1. DOMAIN stats \subseteq Ranks
    BY <1>1 DEF CacheTypes, Cache!TypeOK
  <2> QED
    BY <1>1, <1>2, <2>1 DEF Reducing
<1>8. \A a, b \in Ranks : Deciding(a)' /\ Deciding(b)' => Past(a)' = Past(b)'
  BY <1>1, <1>2 DEF Reducing
<1> QED
  BY <1>5, <1>6, <1>7, <1>8 DEF Reducing

LEMMA ReducingStep ==
  ASSUME CacheInv, NEW r \in Ranks, Moves(r), RankStep(r)
  PROVE  Reducing'
<1>1. /\ CacheTypes /\ Reducing /\ config' = config /\ request > 0 /\ DOMAIN stats \subseteq Ranks
      /\ Past(r) \in Nat /\ Current(r) = Past(r) + 1
  BY RecordTypes DEF CacheInv, Moves, CacheTypes, Cache!TypeOK, Current
<1>2. CASE DisabledStep(r)
  BY <1>2, ReducingKept DEF DisabledStep, Deciding, Ends
<1>3. CASE PrefixStep(r)
  BY <1>3, ReducingKept DEF PrefixStep, Deciding, Goes
<1>4. CASE MiddleStep(r)
  BY <1>4, ReducingKept DEF MiddleStep, Deciding, Ends
<1>5. CASE JoinStep(r)
  <2>1. /\ \A q \in Ranks : ~Knows(q, Current(r))
        /\ \A a \in DOMAIN stats : Deciding(a) /\ Past(a) = Past(r)
    BY <1>5, JoinsItsOwn
  <2>2. Goes(r, "decide") /\ DOMAIN stats' = DOMAIN stats \union {r} /\ r \notin DOMAIN stats
    BY <1>5 DEF JoinStep
  <2>3. Past(r)' = Past(r) /\ Current(r)' = Current(r) /\ Deciding(r)'
    BY <1>1, <2>2, RecordGoes DEF Goes, Deciding
  <2>4. ASSUME NEW a \in Ranks
        PROVE  Deciding(a)' <=> a \in DOMAIN stats'
    <3>1. CASE a = r
      BY <2>2, <2>3, <3>1
    <3>2. CASE a # r
      BY <1>1, <2>1, <2>2, <3>2, OthersKept DEF Reducing
    <3> QED
      BY <3>1, <3>2
  <2>5. ASSUME NEW a \in DOMAIN stats'
        PROVE  a \in Ranks /\ Deciding(a)' /\ Past(a)' = Past(r) /\ Current(a)' = Current(r)
    <3>1. CASE a = r
      BY <2>3, <3>1
    <3>2. CASE a # r
      <4>1. a \in Ranks \ {r} /\ a \in DOMAIN stats
        BY <1>1, <2>2, <2>5, <3>2
      <4> QED
        BY <2>1, <2>4, <2>5, <4>1, OthersKept DEF Current
    <3> QED
      BY <3>1, <3>2
  <2>6. ASSUME NEW q \in Ranks, NEW k \in 1 .. Steps, k = Current(r)
        PROVE  ~Knows(q, k)' /\ (DOMAIN stats' = Ranks => Joined(q, k)')
    <3>1. CASE q = r
      BY <1>1, <2>2, <2>6, <3>1, CurrentGoes
    <3>2. CASE q # r
      <4>1. ~Knows(q, k) /\ Kept(q, k)
        BY <2>1, <2>6, <3>2, OthersKept
      <4>2. DOMAIN stats' = Ranks => Deciding(q) /\ Past(q) = Past(r)
        BY <2>1, <2>2, <3>2
      <4>3. DOMAIN stats' = Ranks => Joined(q, k)
        BY <2>6, <4>2 DEF Joined, Deciding, Current
      <4> QED
        BY <4>1, <4>3 DEF Kept
    <3> QED
      BY <3>1, <3>2
  <2>7. ASSUME NEW a \in Ranks, NEW q \in Ranks, NEW k \in 1 .. Steps, Deciding(a)', k = Current(a)'
        PROVE  ~Knows(q, k)' /\ (DOMAIN stats' = Ranks => Joined(q, k)')
    <3>1. k = Current(r)
      BY <2>4, <2>5, <2>7
    <3> QED
      BY <2>6, <3>1
  <2> QED
    BY <2>4, <2>5, <2>7 DEF Reducing
<1>6. CASE DecideStep(r)
  <2>1. /\ Deciding(r) /\ DOMAIN stats = Ranks
        /\ stats' = IF \A q \in Ranks \ {r} : ~Deciding(q) THEN Cache!NoStats ELSE stats
    BY <1>6 DEF DecideStep, Deciding
  <2>2. (Ends(r, TRUE) /\ Cache!Reuse(r)) \/ (Goes(r, "middle") /\ ~Cache!Reuse(r))
    BY <1>6 DEF DecideStep
  <2>3. ~Deciding(r)'
    BY <2>2 DEF Deciding, Ends, Goes
  <2>4. \A a \in Ranks \ {r} : /\ Deciding(a)' <=> Deciding(a)
                               /\ Past(a)' = Past(a) /\ Current(a)' = Current(a)
    BY OthersKept
  <2>5. CASE \A q \in Ranks \ {r} : ~Deciding(q)
    <3>1. DOMAIN stats' = {}
      BY <2>1, <2>5 DEF Cache!NoStats
    <3>2. \A a \in Ranks : ~Deciding(a)'
      BY <2>3, <2>4, <2>5
    <3> QED
      BY <3>1, <3>2 DEF Reducing
  <2>6. CASE ~(\A q \in Ranks \ {r} : ~Deciding(q))
    <3>1. stats' = stats /\ DOMAIN stats' = Ranks
      BY <2>1, <2>6
    <3>2. SameReuse
      BY <1>1, <3>1, ReuseKept
    <3>3. \E q \in Ranks : Deciding(q)'
      BY <2>4, <2>6
    <3>4. ASSUME NEW a \in Ranks, Deciding(a)'
          PROVE  a # r /\ Deciding(a) /\ Past(a) = Past(r) /\ Past(a)' = Past(a) /\ Current(a)' = Current(r)
      <4>1. a # r
        BY <2>3, <3>4
      <4>2. Deciding(a) /\ Past(a)' = Past(a) /\ Current(a)' = Current(a)
        BY <2>4, <3>4, <4>1
      <4>3. Past(a) = Past(r)
        BY <1>1, <2>1, <4>2 DEF Reducing
      <4> QED
        BY <4>1, <4>2, <4>3 DEF Current
    <3>5. ASSUME NEW a \in Ranks, NEW q \in Ranks, NEW k \in 1 .. Steps, Deciding(a)', k = Current(a)'
          PROVE  Joined(q, k)' /\ (Knows(q, k)' => (Reused(q, k)' <=> Cache!Reuse(a)'))
      <4>1. k = Current(r)
        BY <3>4, <3>5
      <4>2. Joined(q, k) /\ (Knows(q, k) => (Reused(q, k) <=> Cache!Reuse(r)))
        BY <1>1, <2>1, <4>1 DEF Reducing
      <4>3. Joined(q, k)'
        BY <1>1, <4>2, StaysJoined
      <4>4. Cache!Reuse(a)' <=> Cache!Reuse(r)
        BY <3>2 DEF SameReuse
      <4>5. CASE q = r
        BY <1>1, <2>2, <4>1, <4>3, <4>4, <4>5, CurrentEnds, CurrentGoes
      <4>6. CASE q # r
        BY <4>2, <4>3, <4>4, <4>6, OthersKept DEF Kept
      <4> QED
        BY <4>5, <4>6
    <3>6. \A a \in Ranks : Deciding(a)' => a \in DOMAIN stats'
      BY <3>1
    <3>7. \A a, b \in Ranks : Deciding(a)' /\ Deciding(b)' => Past(a)' = Past(b)'
      BY <3>4
    <3> QED
      BY <3>1, <3>3, <3>5, <3>6, <3>7 DEF Reducing
  <2> QED
    BY <2>5, <2>6
<1> QED
  BY <1>2, <1>3, <1>4, <1>5, <1>6 DEF RankStep

LEMMA CacheStep ==
  ASSUME CacheInv, [Next]_pvars
  PROVE  CacheInv'
<1>1. CASE UNCHANGED cacheVars
  <2>1. /\ request' = request /\ config' = config /\ pc' = pc /\ step' = step /\ consecutive' = consecutive
        /\ records' = records /\ previous' = previous /\ finite' = finite /\ share' = share
        /\ stats' = stats /\ executed' = executed /\ trace' = trace
    BY <1>1 DEF cacheVars
  <2>2. /\ \A r : /\ Past(r)' = Past(r) /\ Current(r)' = Current(r) /\ Cache!Hits(r)' = Cache!Hits(r)
                  /\ SoFar(r)' = SoFar(r) /\ (Deciding(r)' <=> Deciding(r)) /\ (Cache!Reuse(r)' <=> Cache!Reuse(r))
    BY <2>1 DEF Past, Current, Cache!Hits, SoFar, Deciding, Cache!Reuse
  <2>3. CacheTypes'
    BY <2>1, <2>2 DEF CacheInv, CacheTypes, Cache!TypeOK
  <2>4. Counted'
    BY <2>1, <2>2 DEF CacheInv, Counted, InARow, Allowed, Skipped, Prefix
  <2>5. Traced'
    BY <2>1, <2>2 DEF CacheInv, Traced, TracedAt
  <2>6. Same' /\ AllJoined' /\ Reducing'
    BY <2>1, <2>2 DEF CacheInv, Same, AllJoined, Reducing, Joined, Knows, Reused
  <2> QED
    BY <2>3, <2>4, <2>5, <2>6 DEF CacheInv
<1>2. CASE Cache!Begin
  BY <1>2, Beginning
<1>3. ASSUME NEW r \in Ranks, CacheRank(r) PROVE CacheInv'
  <2>1. Moves(r) /\ RankStep(r)
    BY <1>3, RankMoves DEF CacheInv
  <2> QED
    BY <1>3, <2>1, CacheTypesStep, CountedStep, TracedStep, SameStep, AllJoinedStep, ReducingStep DEF CacheInv
<1>4. UNCHANGED cacheVars \/ Cache!Next
  BY DEF Next, pvars, ScopeMoves, ExactMoves, CacheMoves, CudaMoves, VaeMoves, ScanMoves, LayoutMoves
<1> QED
  BY <1>1, <1>2, <1>3, <1>4 DEF Cache!Next, CacheRank

-----------------------------------------------------------------------------
LEMMA Prefixes ==
  ASSUME NEW s \in Lists, NEW t \in Lists, Len(s) <= Len(t), \A i \in 1 .. Len(s) : s[i] = t[i]
  PROVE  Cache!IsPrefixOf(s, t)
<1> DEFINE n == Len(s)
           u == SubSeq(t, 1, n)
<1>1. n \in Nat /\ Len(t) \in Nat /\ n <= Len(t) /\ \A i \in 1 .. n : t[i] \in Kinds
  BY DEF Lists
<1>2. /\ u \in Seq(Kinds) /\ Len(u) = (IF 1 <= n THEN n - 1 + 1 ELSE 0)
      /\ \A i \in 1 .. n - 1 + 1 : u[i] = t[1 + i - 1]
  <2> HIDE DEF n
  <2>1. 1 \in Int /\ n \in Int
    BY <1>1
  <2> QED
    BY <1>1, <2>1, SubSeqProperties
<1>3. Len(u) = n /\ \A i \in 1 .. n : u[i] = t[i]
  <2>1. n - 1 + 1 = n /\ \A i \in 1 .. n : 1 + i - 1 = i
    BY <1>1
  <2> HIDE DEF n, u
  <2> QED
    BY <1>1, <1>2, <2>1
<1>4. s = u
  <2>1. s \in Seq(Kinds)
    BY DEF Lists
  <2> HIDE DEF u
  <2> QED
    BY <1>2, <1>3, <2>1, SeqEqual
<1> QED
  BY <1>1, <1>4 DEF Cache!IsPrefixOf

(* How the parts of a step begin.                                          *)
LEMMA Beginnings ==
  /\ \A t \in Lists : Cache!IsPrefixOf(t, t)
  /\ \A t \in Lists : Len(t) >= 1 /\ t[1] = "prefix" => Cache!IsPrefixOf(<<"prefix">>, t)
  /\ \A t \in Lists : Len(t) >= 2 /\ t[1] = "prefix" /\ t[2] = "reduce" =>
                        Cache!IsPrefixOf(<<"prefix", "reduce">>, t)
<1>1. ASSUME NEW t \in Lists PROVE Cache!IsPrefixOf(t, t)
  <2>1. Len(t) \in Nat
    BY DEF Lists
  <2> QED
    BY <2>1, Prefixes
<1>2. ASSUME NEW t \in Lists, Len(t) >= 1, t[1] = "prefix", NEW s, s = <<"prefix">>
      PROVE  Cache!IsPrefixOf(s, t)
  <2>1. s \in Lists /\ Len(s) = 1 /\ s[1] = "prefix"
    BY <1>2, One DEF Lists, Kinds
  <2>2. Len(s) <= Len(t) /\ \A i \in 1 .. Len(s) : s[i] = t[i]
    BY <1>2, <2>1 DEF Lists
  <2> QED
    BY <2>1, <2>2, Prefixes
<1>3. ASSUME NEW t \in Lists, Len(t) >= 2, t[1] = "prefix", t[2] = "reduce", NEW s, s = <<"prefix", "reduce">>
      PROVE  Cache!IsPrefixOf(s, t)
  <2>1. s \in Lists /\ Len(s) = 2 /\ s[1] = "prefix" /\ s[2] = "reduce"
    BY <1>3, Two DEF Lists, Kinds
  <2>2. Len(s) <= Len(t) /\ \A i \in 1 .. Len(s) : s[i] = t[i]
    BY <1>3, <2>1 DEF Lists
  <2> QED
    BY <2>1, <2>2, Prefixes
<1> QED
  BY <1>1, <1>2, <1>3

LEMMA WholeBegins ==
  ASSUME NEW rec, NEW k, ~Cache!Disabled(config), NEW w, w = Whole(config, rec, k)
  PROVE  /\ Len(w) >= 2 /\ w[1] = "prefix"
         /\ ~Must(config, rec, k - 1) => w[2] = "reduce"
<1>1. CASE w = <<"prefix", "middle", "suffix">> /\ Must(config, rec, k - 1)
  BY <1>1
<1>2. CASE w = <<"prefix", "reduce", "suffix">>
  BY <1>2
<1>3. CASE w = <<"prefix", "reduce", "middle", "suffix">>
  BY <1>3
<1> QED
  BY <1>1, <1>2, <1>3 DEF Whole

LEMMA Matching ==
  ASSUME CacheInv
  PROVE  Cache!CollectivesMatch
<1>1. CacheTypes /\ Same /\ Traced
  BY DEF CacheInv
<1> SUFFICES ASSUME NEW r \in Ranks, NEW q \in Ranks, NEW k \in DOMAIN trace[r] \intersect DOMAIN trace[q]
             PROVE  /\ Cache!IsPrefixOf(trace[r][k], trace[q][k]) \/ Cache!IsPrefixOf(trace[q][k], trace[r][k])
                    /\ k < Len(trace[r]) => Cache!IsPrefixOf(trace[q][k], trace[r][k])
  BY DEF Cache!CollectivesMatch
<1>2. request > 0
  <2> SUFFICES ASSUME request = 0 PROVE FALSE
    BY <1>1 DEF CacheTypes, Cache!TypeOK
  <2>1. trace[r] = <<>>
    BY <1>1 DEF CacheTypes, Cache!AllRanks
  <2> QED
    BY <2>1
<1>3. ASSUME NEW a \in {r, q}
      PROVE  /\ Past(a) \in Nat /\ Current(a) = Past(a) + 1 /\ trace[a] \in Seq(Lists) /\ trace[a][k] \in Lists
             /\ k \in 1 .. Past(a) \/ (k = Current(a) /\ pc[a] # "idle")
             /\ k \in 1 .. Past(a) => k < Current(a) /\ trace[a][k] = Whole(config, records[a], k)
             /\ k = Current(a) => k = Len(trace[a]) /\ trace[a][k] = SoFar(a) /\ ~Cache!Disabled(config)
  <2>1. Past(a) \in Nat /\ Current(a) = Past(a) + 1 /\ trace[a] \in Seq(Lists) /\ k \in DOMAIN trace[a]
    BY <1>1, RecordTypes DEF Current, Lists, Kinds
  <2>2. Len(trace[a]) = IF pc[a] = "idle" THEN Past(a) ELSE Current(a)
    BY <1>1 DEF Traced, TracedAt
  <2>3. k \in 1 .. Len(trace[a]) /\ trace[a][k] \in Lists
    BY <2>1
  <2>4. k \in 1 .. Past(a) => trace[a][k] = Whole(config, records[a], k)
    BY <1>1 DEF Traced, TracedAt
  <2>5. k = Current(a) => k = Len(trace[a]) /\ pc[a] # "idle"
    BY <2>1, <2>2, <2>3
  <2>6. pc[a] # "idle" => trace[a][Current(a)] = SoFar(a) /\ ~Cache!Disabled(config)
    BY <1>1 DEF Traced, TracedAt, CacheTypes
  <2> QED
    BY <2>1, <2>2, <2>3, <2>4, <2>5, <2>6
<1>4. ASSUME NEW a \in {r, q} PROVE Len(trace[a]) <= Current(a)
  BY <1>1, <1>3 DEF Traced, TracedAt
<1>5. ASSUME NEW a \in {r, q}, NEW b \in {r, q}, k \in 1 .. Past(a), k = Current(b)
      PROVE  Cache!IsPrefixOf(trace[b][k], trace[a][k])
  <2>1. ~Cache!Disabled(config) /\ trace[b][k] = SoFar(b) /\ trace[a][k] \in Lists
        /\ trace[a][k] = Whole(config, records[a], k) /\ k - 1 = Past(b) /\ Past(b) <= Past(a)
    BY <1>3, <1>5
  <2>2. /\ Len(trace[a][k]) >= 2 /\ trace[a][k][1] = "prefix"
        /\ ~Must(config, records[a], k - 1) => trace[a][k][2] = "reduce"
    BY <2>1, WholeBegins
  <2>3. Must(config, records[a], k - 1) <=> Must(config, records[b], Past(b))
    BY <1>1, <1>2, <1>3, <2>1, MustAgree
  <2>4. CASE SoFar(b) = <<"prefix">>
    <3>1. Len(trace[a][k]) >= 1
      BY <2>1, <2>2 DEF Lists
    <3> QED
      BY <2>1, <2>2, <2>4, <3>1, Beginnings
  <2>5. CASE SoFar(b) = <<"prefix", "reduce">> /\ ~Must(config, records[b], Past(b))
    BY <2>1, <2>2, <2>3, <2>5, Beginnings
  <2> QED
    BY <2>4, <2>5 DEF SoFar
<1>6. CASE k \in 1 .. Past(r) /\ k \in 1 .. Past(q)
  <2>1. ASSUME NEW j \in 1 .. k PROVE records[r][j] = records[q][j]
    <3>1. Past(r) >= j /\ Past(q) >= j /\ j \in 1 .. Past(r) /\ j \in 1 .. Past(q)
      BY <1>3, <1>6
    <3>2. j \in 1 .. Steps
      <4>1. step[r] \in 0 .. Steps /\ step[r] = IF pc[r] = "idle" THEN Past(r) ELSE Current(r)
        BY <1>1, <1>2, RecordTypes DEF CacheTypes
      <4> QED
        BY <1>3, <3>1, <4>1, CacheAssumption
    <3>3. Reused(r, j) <=> Reused(q, j)
      BY <1>1, <3>1, <3>2 DEF Same, Knows
    <3>4. ASSUME NEW z \in Ranks, j \in 1 .. Past(z) PROVE records[z][j] \in BOOLEAN
      <4>1. records[z] \in Seq(BOOLEAN) /\ j \in 1 .. Len(records[z])
        BY <1>1, <3>4, RecordTypes DEF Past
      <4> QED
        BY <4>1, ElementOfSeq
    <3>5. records[r][j] \in BOOLEAN /\ records[q][j] \in BOOLEAN
      BY <3>1, <3>4
    <3> QED
      BY <3>1, <3>3, <3>5 DEF Reused
  <2>2. Whole(config, records[r], k) = Whole(config, records[q], k)
    BY <1>6, <2>1, WholeSame
  <2> QED
    BY <1>3, <1>6, <2>2, Beginnings
<1>7. CASE k \in 1 .. Past(r) /\ k = Current(q)
  BY <1>5, <1>7
<1>8. CASE k = Current(r) /\ k \in 1 .. Past(q)
  BY <1>3, <1>5, <1>8
<1>9. CASE k = Current(r) /\ k = Current(q)
  <2>1. /\ trace[r][k] \in {<<"prefix">>, <<"prefix", "reduce">>}
        /\ trace[q][k] \in {<<"prefix">>, <<"prefix", "reduce">>}
    BY <1>3, <1>9 DEF SoFar
  <2>2. <<"prefix", "reduce">> \in Lists => Cache!IsPrefixOf(<<"prefix">>, <<"prefix", "reduce">>)
    <3>1. ASSUME NEW t, t = <<"prefix", "reduce">> PROVE Len(t) >= 1 /\ t[1] = "prefix"
      BY <3>1
    <3> QED
      BY <3>1, Beginnings
  <2>3. ~(k < Len(trace[r]))
    <3> DEFINE n == Len(trace[r])
    <3> DEFINE p == Past(r)
    <3>1. k = n /\ p \in Nat /\ k = p + 1
      BY <1>3, <1>9, Zenon
    <3> HIDE DEF n, p
    <3>2. k \in Nat
      BY <3>1
    <3>3. ~(k < n)
      BY <3>1, <3>2
    <3> QED
      BY <3>3 DEF n
  <2> QED
    BY <1>3, <2>1, <2>2, <2>3, Beginnings
<1> QED
  BY <1>3, <1>6, <1>7, <1>8, <1>9

LEMMA FreshResidual ==
  ASSUME CacheInv
  PROVE  Cache!ResidualIsFresh /\ Cache!MandatorySteps
<1> SUFFICES ASSUME NEW r \in Ranks, NEW k \in DOMAIN records[r], records[r][k]
             PROVE  /\ \E j \in 1 .. config.max_consecutive : k - j \in DOMAIN records[r] /\ ~records[r][k - j]
                    /\ k > config.warmup_steps /\ k <= Steps - config.last_steps
  BY DEF Cache!ResidualIsFresh, Cache!MandatorySteps
<1>1. CacheTypes /\ Allowed(r)
  BY DEF CacheInv, Counted
<1>2. DOMAIN records[r] = 1 .. Past(r) /\ Past(r) \in Nat /\ config \in Cache!Configs
  BY <1>1, RecordTypes
<1>3. config.warmup_steps \in 1 .. Steps /\ config.max_consecutive \in 1 .. Steps - 1 /\ config.last_steps \in 0 .. Steps - 1
  BY <1>2, ConfigTypes
<1>4. ASSUME NEW i \in 1 .. Past(r), records[r][i]
      PROVE  /\ i - 1 >= config.warmup_steps /\ i - 1 < Steps - config.last_steps
             /\ \E j \in i - config.max_consecutive .. i - 1 : ~(j >= 1 /\ records[r][j])
  <2>1. ~Must(config, records[r], i - 1)
    BY <1>1, <1>4 DEF Allowed
  <2>2. /\ ~(i - 1 < config.warmup_steps) /\ ~(i - 1 >= Steps - config.last_steps)
        /\ \E j \in i - 1 + 1 - config.max_consecutive .. i - 1 : ~(j >= 1 /\ records[r][j])
    BY <2>1 DEF Must
  <2>3. i - 1 + 1 - config.max_consecutive = i - config.max_consecutive
    BY <1>3
  <2> QED
    BY <1>3, <2>2, <2>3, CacheAssumption
<1>5. k \in 1 .. Past(r)
  BY <1>2
<1>6. ~records[r][1]
  <2> SUFFICES ASSUME records[r][1] PROVE FALSE
    OBVIOUS
  <2>1. 1 \in 1 .. Past(r)
    BY <1>2, <1>5
  <2> QED
    BY <1>3, <1>4, <2>1, CacheAssumption
<1>7. PICK j \in k - config.max_consecutive .. k - 1 : ~(j >= 1 /\ records[r][j])
  BY <1>4, <1>5
<1>8. CASE j >= 1
  <2>1. k - j \in 1 .. config.max_consecutive /\ k - (k - j) = j /\ j \in 1 .. Past(r)
    <3> DEFINE m == config.max_consecutive
               n == Past(r)
    <3>1. m \in Nat /\ n \in Nat /\ k \in 1 .. n /\ j \in k - m .. k - 1 /\ j >= 1
      BY <1>2, <1>3, <1>5, <1>7, <1>8, CacheAssumption
    <3>2. k - j \in 1 .. m /\ k - (k - j) = j /\ j \in 1 .. n
      <4> HIDE DEF m, n
      <4> QED
        BY <3>1
    <3> QED
      BY <3>2
  <2>2. \E i \in 1 .. config.max_consecutive : k - i \in DOMAIN records[r] /\ ~records[r][k - i]
    BY <1>2, <1>7, <1>8, <2>1
  <2> QED
    BY <1>3, <1>4, <1>5, <2>2, CacheAssumption
<1>9. CASE ~(j >= 1)
  <2>1. k # 1
    BY <1>6
  <2>2. k - 1 \in 1 .. config.max_consecutive /\ k - (k - 1) = 1 /\ 1 \in 1 .. Past(r)
    BY <1>2, <1>3, <1>5, <1>7, <1>9, <2>1
  <2>3. \E i \in 1 .. config.max_consecutive : k - i \in DOMAIN records[r] /\ ~records[r][k - i]
    BY <1>2, <1>6, <2>2
  <2> QED
    BY <1>3, <1>4, <1>5, <2>3, CacheAssumption
<1> QED
  BY <1>8, <1>9

(* For any number of ranks, blocks, steps and requests, any settings that  *)
(* pass the checks and any statistics: ranks that go through the steps on  *)
(* their own run the same parts, a reused residual is of this request and  *)
(* at most max_consecutive steps old, warm-up and last steps are computed, *)
(* and the blocks not executed are the middle ones of the reused steps.    *)
THEOREM CacheIsSound == Spec => []ReuseIsSound
<1>1. Init => CacheInv
  BY CacheInitial
<1>2. CacheInv /\ [Next]_pvars => CacheInv'
  BY CacheStep
<1>3. CacheInv => ReuseIsSound
  <2> SUFFICES ASSUME CacheInv PROVE ReuseIsSound
    OBVIOUS
  <2>1. Cache!TypeOK
    BY DEF CacheInv, CacheTypes
  <2>2. ASSUME NEW r \in Ranks, pc[r] = "idle", request > 0
        PROVE  step[r] * Blocks - executed[r] = Cache!Hits(r) * Cache!MiddleBlocks(config)
    <3>1. step[r] = Past(r) /\ Prefix(r) = 0 /\ Skipped(r) /\ CacheTypes
      BY <2>2 DEF CacheInv, CacheTypes, Counted, Prefix
    <3> DEFINE all == Past(r) * Blocks
    <3>2. all \in Nat
      BY <3>1, RecordTypes, CacheAssumption, Times
    <3>3. all + 0 - executed[r] = Cache!Hits(r) * Cache!MiddleBlocks(config)
      BY <3>1 DEF Skipped
    <3>4. step[r] * Blocks - executed[r] = all - executed[r]
      BY <3>1
    <3>5. all + 0 - executed[r] = all - executed[r]
      <4>1. executed[r] \in Nat
        BY <3>1, RecordTypes
      <4> HIDE DEF all
      <4> QED
        BY <3>2, <4>1
    <3> QED
      BY <3>3, <3>4, <3>5
  <2>3. Cache!SkippedBlocks
    BY <2>2 DEF Cache!SkippedBlocks
  <2> QED
    BY <2>1, <2>3, Matching, FreshResidual DEF ReuseIsSound
<1> QED
  BY <1>1, <1>2, <1>3, PTL DEF Spec

-----------------------------------------------------------------------------
(* Options, the clip and what is remembered of signatures.                 *)
VaeTypes ==
  /\ batch_size \in BatchSizes \union {1} /\ compile_decoder \in BOOLEAN
  /\ clip \in Clips \union {<<>>}
  /\ next \in Nat \ {0}
  /\ pending \in Seq(Nat)

(* What is remembered has been compared, and fits.                         *)
Compared ==
  /\ checked \subseteq Vae!Signatures
  /\ DOMAIN signatures \subseteq checked
  /\ IsFiniteSet(DOMAIN signatures) /\ Cardinality(DOMAIN signatures) <= MaxVerified
  /\ ~unchecked

(* The batch holds the tiles before the one that is looked at, all of one  *)
(* shape; every tile before the batch has its output in its place.         *)
InBatch ==
  /\ Len(pending) <= batch_size
  /\ clip = <<>> => pending = <<>>
  /\ clip # <<>> =>
       /\ next <= Len(clip) + 1 /\ Len(pending) < next
       /\ \A n \in 1 .. Len(pending) :
            pending[n] = next - Len(pending) + n - 1 /\ clip[pending[n]] = clip[pending[1]]

Placed ==
  clip # <<>> =>
    /\ DOMAIN rows = DOMAIN clip
    /\ \A k \in DOMAIN clip : k < next - Len(pending) => rows[k] = k

VaeInv == VaeTypes /\ Compared /\ InBatch /\ Placed

LEMMA VaeConstants ==
  /\ \A size \in BatchSizes \union {1} : size \in Nat /\ size >= 1
  /\ MaxVerified \in Nat /\ MaxVerified >= 1
  /\ \A c \in Clips : c \in Seq(Vae!Tiles) /\ c # <<>>
BY VaeBatchAssumption

LEMMA VaeInitial == Init => VaeInv
<1> SUFFICES ASSUME Vae!VaeBatchInit PROVE VaeInv
  BY DEF Init
<1>1. DOMAIN signatures = {}
  BY DEF Vae!VaeBatchInit, Vae!NoSignatures
<1>2. IsFiniteSet({}) /\ Cardinality({}) = 0
  BY FS_EmptySet
<1>3. Compared
  BY <1>1, <1>2, VaeConstants DEF Vae!VaeBatchInit, Compared
<1>4. clip = <<>> /\ pending = <<>> /\ next = 1 /\ batch_size = 1 /\ compile_decoder = FALSE
  BY DEF Vae!VaeBatchInit
<1>5. Len(pending) = 0 /\ pending \in Seq(Nat)
  BY <1>4
<1>6. VaeTypes
  <2>1. clip \in Clips \union {<<>>} /\ batch_size \in BatchSizes \union {1} /\ compile_decoder \in BOOLEAN
    BY <1>4, Zenon
  <2>2. next \in Nat \ {0}
    BY <1>4
  <2> QED
    BY <1>5, <2>1, <2>2, Zenon DEF VaeTypes
<1>7. Len(pending) <= batch_size
  BY <1>4, <1>5
<1>8. InBatch /\ Placed
  BY <1>4, <1>7 DEF InBatch, Placed
<1> QED
  BY <1>3, <1>6, <1>8 DEF VaeInv

(* A new signature, or one used again, fits after the oldest is forgotten. *)
LEMMA Remembered ==
  ASSUME NEW key, Compared, Vae!Remember(key)
  PROVE  /\ DOMAIN signatures' \subseteq DOMAIN signatures \union {key}
         /\ IsFiniteSet(DOMAIN signatures') /\ Cardinality(DOMAIN signatures') <= MaxVerified
<1> DEFINE old == DOMAIN signatures
           all == old \union {key}
<1>1. PICK oldest \in DOMAIN Vae!Used(key) :
        signatures' = IF Vae!Cardinality(DOMAIN Vae!Used(key)) <= MaxVerified THEN Vae!Used(key)
                      ELSE Vae!Restrict(Vae!Used(key), DOMAIN Vae!Used(key) \ {oldest})
  BY DEF Vae!Remember
<1>2. DOMAIN Vae!Used(key) = all
  BY DEF Vae!Used
<1>3. DOMAIN signatures' = IF Cardinality(all) <= MaxVerified THEN all ELSE all \ {oldest}
  BY <1>1, <1>2 DEF Vae!Restrict, Vae!Cardinality, Cardinality
<1>4. IsFiniteSet(old) /\ Cardinality(old) <= MaxVerified /\ oldest \in all
  BY <1>1, <1>2 DEF Compared
<1> HIDE DEF old
<1>5. Cardinality(old) \in Nat
  BY <1>4, FS_CardinalityType
<1>6. /\ IsFiniteSet(all)
      /\ Cardinality(all) = Cardinality(old) \/ Cardinality(all) = Cardinality(old) + 1
  BY <1>4, FS_AddElement
<1>7. IsFiniteSet(all \ {oldest}) /\ Cardinality(all \ {oldest}) = Cardinality(all) - 1
  BY <1>4, <1>6, FS_RemoveElement
<1>8. CASE Cardinality(all) <= MaxVerified
  BY <1>3, <1>6, <1>8 DEF old
<1>9. CASE ~(Cardinality(all) <= MaxVerified)
  <2>1. Cardinality(all) - 1 <= MaxVerified
    BY <1>4, <1>5, <1>6, VaeConstants
  <2>2. DOMAIN signatures' = all \ {oldest}
    BY <1>3, <1>9
  <2>3. DOMAIN signatures' \subseteq all
    BY <2>2
  <2> QED
    BY <1>7, <2>1, <2>2, <2>3 DEF old
<1> QED
  BY <1>8, <1>9

(* The batch is decoded: its tiles get their outputs, and its arithmetic   *)
(* has been compared.                                                      *)
LEMMA FlushKeeps ==
  ASSUME VaeInv, Vae!Flush
  PROVE  VaeInv'
<1> DEFINE key == <<clip[pending[1]], Len(pending), compile_decoder>>
           native == Len(pending) = 1 /\ ~compile_decoder
           m == Len(pending)
<1>1. VaeTypes /\ Compared /\ InBatch /\ Placed
  BY DEF VaeInv
<1>2. /\ clip # <<>> /\ pending # <<>> /\ pending' = <<>>
      /\ UNCHANGED <<batch_size, compile_decoder, clip, next>>
  BY DEF Vae!Flush, Vae!MustFlush
<1>3. /\ rows' = [k \in DOMAIN clip |->
                   IF k \in Vae!Range(pending)
                     THEN pending[CHOOSE n \in DOMAIN pending : pending[n] = k] ELSE rows[k]]
      /\ IF native THEN UNCHANGED signatures ELSE Vae!Remember(key)
      /\ checked' = IF native \/ key \in DOMAIN signatures THEN checked ELSE checked \union {key}
      /\ unchecked' = (unchecked \/ (~native /\ key \notin checked'))
  BY DEF Vae!Flush, Vae!DecodeBatch
<1>4. m \in Nat /\ m >= 1 /\ pending \in Seq(Nat) /\ DOMAIN pending = 1 .. m /\ next \in Nat
  <2>1. pending \in Seq(Nat) /\ next \in Nat
    BY <1>1 DEF VaeTypes
  <2> QED
    BY <1>2, <2>1, EmptySeq
<1>5. clip \in Clips /\ clip \in Seq(Vae!Tiles) /\ Len(clip) \in Nat /\ DOMAIN clip = 1 .. Len(clip)
  <2>1. clip \in Clips
    BY <1>1, <1>2 DEF VaeTypes
  <2>2. clip \in Seq(Vae!Tiles)
    BY <2>1, VaeConstants
  <2> QED
    BY <2>1, <2>2
<1>6. /\ next <= Len(clip) + 1 /\ m < next
      /\ \A n \in 1 .. m : pending[n] = next - m + n - 1
  BY <1>1, <1>2 DEF InBatch
<1>7. key \in Vae!Signatures
  <2>1. pending[1] \in DOMAIN clip
    <3>1. pending[1] = next - m + 1 - 1
      BY <1>4, <1>6
    <3> HIDE DEF m
    <3> QED
      BY <1>4, <1>5, <1>6, <3>1
  <2>2. clip[pending[1]] \in Vae!Tiles
    BY <1>5, <2>1, ElementOfSeq
  <2>3. m \in Nat /\ compile_decoder \in BOOLEAN
    BY <1>1, <1>4 DEF VaeTypes
  <2> QED
    BY <2>2, <2>3 DEF Vae!Signatures
<1>8. Compared'
  <2>1. CASE native
    <3>1. signatures' = signatures /\ checked' = checked /\ ~unchecked'
      <4> HIDE DEF key, native
      <4> QED
        BY <1>1, <1>3, <2>1 DEF Compared
    <3> QED
      BY <1>1, <3>1 DEF Compared
  <2>2. CASE ~native
    <3>1. /\ DOMAIN signatures' \subseteq DOMAIN signatures \union {key}
          /\ IsFiniteSet(DOMAIN signatures') /\ Cardinality(DOMAIN signatures') <= MaxVerified
      <4> HIDE DEF key, native
      <4> QED
        BY <1>1, <1>3, <2>2, Remembered
    <3>2. key \in checked' /\ checked \subseteq checked' /\ checked' \subseteq checked \union {key}
      <4> HIDE DEF key, native
      <4> QED
        BY <1>1, <1>3, <2>2 DEF Compared
    <3> HIDE DEF key, native
    <3> QED
      BY <1>1, <1>3, <1>7, <2>2, <3>1, <3>2 DEF Compared
  <2> QED
    BY <2>1, <2>2
<1>9. Placed'
  <2>1. next' - Len(pending') = next /\ clip' = clip /\ DOMAIN rows' = DOMAIN clip
    <3>1. Len(pending') = 0 /\ next' = next
      BY <1>2
    <3> QED
      BY <1>2, <1>3, <1>4, <3>1
  <2> SUFFICES ASSUME NEW k \in DOMAIN clip, k < next PROVE rows'[k] = k
    BY <2>1 DEF Placed
  <2>2. CASE k \in Vae!Range(pending)
    <3>1. \E n \in DOMAIN pending : pending[n] = k
      BY <2>2 DEF Vae!Range
    <3>2. pending[CHOOSE n \in DOMAIN pending : pending[n] = k] = k
      BY <3>1
    <3> QED
      BY <1>3, <2>2, <3>2
  <2>3. CASE k \notin Vae!Range(pending)
    <3>1. rows'[k] = rows[k]
      BY <1>3, <2>3
    <3>2. k < next - m
      <4> SUFFICES ASSUME ~(k < next - m) PROVE FALSE
        OBVIOUS
      <4> DEFINE n == k - (next - m) + 1
      <4>1. k \in Nat /\ n \in 1 .. m /\ next - m + n - 1 = k
        <5>1. m \in Nat /\ next \in Nat /\ m < next /\ k \in Nat
          BY <1>4, <1>5, <1>6
        <5> HIDE DEF m
        <5> QED
          BY <5>1
      <4>2. pending[n] = k
        <5> HIDE DEF m, n
        <5> QED
          BY <1>6, <4>1
      <4> HIDE DEF n
      <4> QED
        BY <1>4, <2>3, <4>1, <4>2 DEF Vae!Range
    <3> QED
      BY <1>1, <1>2, <3>1, <3>2 DEF Placed
  <2> QED
    BY <2>2, <2>3
<1>10. VaeTypes'
  BY <1>1, <1>2 DEF VaeTypes
<1>11. InBatch'
  <2>1. batch_size \in Nat /\ batch_size >= 1
    BY <1>1, VaeConstants DEF VaeTypes
  <2>2. Len(<<>>) = 0
    OBVIOUS
  <2> QED
    BY <1>2, <1>4, <1>6, <2>1, <2>2 DEF InBatch
<1> QED
  BY <1>8, <1>9, <1>10, <1>11 DEF VaeInv

LEMMA VaeStep ==
  ASSUME VaeInv, [Next]_pvars
  PROVE  VaeInv'
<1> USE DEF VaeInv
<1>1. CASE UNCHANGED vaeVars
  BY <1>1 DEF vaeVars, VaeTypes, Compared, InBatch, Placed
<1>2. ASSUME NEW size \in BatchSizes, NEW compile \in BOOLEAN, NEW c \in Clips, Vae!Configure(size, compile, c)
      PROVE  VaeInv'
  <2>1. /\ batch_size' = size /\ compile_decoder' = compile /\ clip' = c /\ next' = 1 /\ pending' = <<>>
        /\ DOMAIN rows' = DOMAIN c /\ UNCHANGED <<signatures, checked, unchecked>>
    BY <1>2 DEF Vae!Configure
  <2>2. c \in Seq(Vae!Tiles) /\ size \in Nat /\ size >= 1
    BY VaeConstants
  <2>3. Compared'
    BY <2>1 DEF Compared
  <2>4. VaeTypes'
    BY <2>1 DEF VaeTypes
  <2>5. Len(<<>>) = 0 /\ Len(c) \in Nat /\ DOMAIN c = 1 .. Len(c)
    BY <2>2
  <2>6. InBatch' /\ Placed'
    BY <2>1, <2>2, <2>5 DEF InBatch, Placed
  <2> QED
    BY <2>3, <2>4, <2>6
<1>3. CASE Vae!ResetCompiler
  <2> DEFINE kept == {key \in DOMAIN signatures : Vae!KeptByReset(key)}
  <2>1. /\ DOMAIN signatures' = kept /\ checked' = {key \in checked : ~key[3]}
        /\ UNCHANGED <<batch_size, compile_decoder, clip, next, pending, rows, unchecked>>
    BY <1>3 DEF Vae!ResetCompiler, Vae!Restrict
  <2>2. IsFiniteSet(kept) /\ Cardinality(kept) <= Cardinality(DOMAIN signatures)
    <3>1. kept \subseteq DOMAIN signatures
      OBVIOUS
    <3> QED
      BY <3>1, FS_Subset DEF Compared
  <2>3. Cardinality(kept) <= MaxVerified
    <3>1. Cardinality(DOMAIN signatures) <= MaxVerified /\ MaxVerified \in Nat
          /\ Cardinality(DOMAIN signatures) \in Nat /\ Cardinality(kept) \in Nat
      BY <2>2, FS_CardinalityType, VaeConstants DEF Compared
    <3> HIDE DEF kept
    <3> QED
      BY <2>2, <3>1
  <2>4. kept \subseteq checked'
    BY <2>1 DEF Compared, Vae!KeptByReset
  <2>5. Compared'
    <3>1. checked' \subseteq Vae!Signatures /\ ~unchecked'
      BY <2>1 DEF Compared
    <3> HIDE DEF kept
    <3> QED
      BY <2>1, <2>2, <2>3, <2>4, <3>1 DEF Compared
  <2>6. VaeTypes' /\ InBatch' /\ Placed'
    BY <2>1 DEF VaeTypes, InBatch, Placed
  <2> QED
    BY <2>5, <2>6
<1>4. CASE Vae!AddTile
  <2> DEFINE m == Len(pending)
  <2>1. /\ next \in DOMAIN clip /\ pending' = Append(pending, next) /\ next' = next + 1
        /\ UNCHANGED <<batch_size, compile_decoder, clip, rows, signatures, checked, unchecked>>
        /\ pending # <<>> => Len(pending) # batch_size /\ clip[next] = clip[pending[1]]
    BY <1>4 DEF Vae!AddTile, Vae!MustFlush
  <2>2. clip # <<>> /\ clip \in Seq(Vae!Tiles) /\ Len(clip) \in Nat /\ next \in 1 .. Len(clip)
    <3>1. clip # <<>>
      BY <2>1
    <3>2. clip \in Seq(Vae!Tiles)
      BY <3>1, VaeConstants DEF VaeTypes
    <3> QED
      BY <2>1, <3>1, <3>2
  <2>3. batch_size \in Nat /\ batch_size >= 1 /\ m \in Nat /\ next \in Nat /\ pending \in Seq(Nat)
        /\ m <= batch_size /\ m < next
    BY <2>2, VaeConstants DEF VaeTypes, InBatch
  <2>4. /\ pending' \in Seq(Nat) /\ Len(pending') = m + 1
        /\ \A n \in 1 .. m : pending'[n] = pending[n]
        /\ pending'[m + 1] = next
    BY <2>1, <2>3
  <2>5. m + 1 <= batch_size
    <3>1. CASE m = 0
      BY <2>3, <3>1
    <3>2. CASE m # 0
      <4>1. m # batch_size
        BY <2>1, <2>3, <3>2
      <4> HIDE DEF m
      <4> QED
        BY <2>3, <4>1
    <3> QED
      BY <3>1, <3>2
  <2>6. next' - Len(pending') = next - m /\ Len(pending') < next' /\ next' <= Len(clip) + 1
    <3> HIDE DEF m
    <3> QED
      BY <2>1, <2>2, <2>3, <2>4
  <2>7. ASSUME NEW n \in 1 .. m + 1
        PROVE  pending'[n] = next - m + n - 1 /\ clip[pending'[n]] = clip[pending'[1]]
    <3>1. CASE n \in 1 .. m
      <4>1. pending[n] = next - m + n - 1 /\ clip[pending[n]] = clip[pending[1]]
        BY <2>2, <3>1 DEF InBatch
      <4>2. 1 \in 1 .. m
        <5> HIDE DEF m
        <5> QED
          BY <2>3, <3>1
      <4>3. pending'[n] = pending[n] /\ pending'[1] = pending[1]
        BY <2>4, <3>1, <4>2
      <4> QED
        BY <4>1, <4>3
    <3>2. CASE n = m + 1
      <4>1. next = next - m + (m + 1) - 1
        <5> HIDE DEF m
        <5> QED
          BY <2>3
      <4>2. CASE m = 0
        BY <2>4, <3>2, <4>1, <4>2
      <4>3. CASE m # 0
        <5>1. 1 \in 1 .. m
          <6> HIDE DEF m
          <6> QED
            BY <2>3, <4>3
        <5>2. pending # <<>>
          BY <4>3
        <5>3. pending'[1] = pending[1] /\ clip[next] = clip[pending[1]]
          BY <2>1, <2>4, <5>1, <5>2
        <5> QED
          BY <2>4, <3>2, <4>1, <5>3
      <4> QED
        BY <4>2, <4>3
    <3> QED
      <4> HIDE DEF m
      <4>1. n \in 1 .. m \/ n = m + 1
        BY <2>3
      <4> QED
        BY <3>1, <3>2, <4>1
  <2>8. InBatch'
    <3> HIDE DEF m
    <3> QED
      BY <2>1, <2>2, <2>4, <2>5, <2>6, <2>7 DEF InBatch
  <2>9. Placed'
    BY <2>1, <2>2, <2>6 DEF Placed
  <2>10. VaeTypes' /\ Compared'
    BY <2>1, <2>3, <2>4 DEF VaeTypes, Compared
  <2> QED
    BY <2>8, <2>9, <2>10
<1>5. CASE Vae!Flush
  BY <1>5, FlushKeeps
<1>6. CASE Vae!CheckFails
  <2>1. /\ clip' = <<>> /\ next' = 1 /\ pending' = <<>> /\ batch_size' = 1 /\ compile_decoder' = FALSE
        /\ DOMAIN signatures' = {} /\ checked' = {} /\ unchecked' = FALSE
    BY <1>6 DEF Vae!CheckFails, Vae!NoSignatures
  <2>2. Compared'
    <3>1. IsFiniteSet({}) /\ Cardinality({}) = 0
      BY FS_EmptySet
    <3> QED
      BY <2>1, <3>1, VaeConstants DEF Compared
  <2>3. Len(pending') = 0 /\ pending' \in Seq(Nat)
    BY <2>1
  <2>4. VaeTypes'
    <3>1. clip' \in Clips \union {<<>>} /\ batch_size' \in BatchSizes \union {1} /\ compile_decoder' \in BOOLEAN
      BY <2>1, Zenon
    <3>2. next' \in Nat \ {0}
      BY <2>1
    <3> QED
      BY <2>3, <3>1, <3>2, Zenon DEF VaeTypes
  <2>5. Len(pending') <= batch_size'
    BY <2>1, <2>3
  <2>6. InBatch' /\ Placed'
    BY <2>1, <2>5 DEF InBatch, Placed
  <2> QED
    BY <2>2, <2>4, <2>6
<1>7. CASE Vae!Stitch
  <2>1. /\ clip' = <<>> /\ pending = <<>>
        /\ UNCHANGED <<batch_size, compile_decoder, next, pending, rows, signatures, checked, unchecked>>
    BY <1>7 DEF Vae!Stitch, Vae!Decoded
  <2> QED
    BY <2>1 DEF VaeTypes, Compared, InBatch, Placed
<1> QED
  BY <1>1, <1>2, <1>3, <1>4, <1>5, <1>6, <1>7 DEF Next, pvars, VaeMoves, Vae!VaeBatchNext,
    CacheMoves, ScopeMoves, CudaMoves, ScanMoves, LayoutMoves, ExactMoves

(* For any clips, batch sizes and capacity of the list: no batch is used   *)
(* whose arithmetic was not compared since it was compiled, no batch mixes *)
(* shapes, and a stitched clip has every output in the place of its tile.  *)
THEOREM BatchesChecked == Spec => []BatchesAreSound
<1>1. VaeInv => BatchesAreSound
  <2> SUFFICES ASSUME VaeInv PROVE BatchesAreSound
    OBVIOUS
  <2>1. VaeTypes /\ Compared /\ InBatch /\ Placed
    BY DEF VaeInv
  <2> DEFINE m == Len(pending)
  <2>2. m \in Nat /\ DOMAIN pending = 1 .. m /\ next \in Nat
    BY <2>1 DEF VaeTypes
  <2>3. clip # <<>> => Len(clip) \in Nat /\ DOMAIN clip = 1 .. Len(clip)
    <3> SUFFICES ASSUME clip # <<>> PROVE Len(clip) \in Nat /\ DOMAIN clip = 1 .. Len(clip)
      OBVIOUS
    <3>1. clip \in Seq(Vae!Tiles)
      BY <2>1, VaeConstants DEF VaeTypes
    <3> QED
      BY <3>1
  <2>4. ASSUME NEW n \in DOMAIN pending PROVE pending[n] \in DOMAIN clip /\ clip[pending[n]] = clip[pending[1]]
    <3>1. clip # <<>> /\ n \in 1 .. m
      BY <2>1, <2>2, <2>4 DEF InBatch
    <3>2. /\ next <= Len(clip) + 1 /\ m < next
          /\ pending[n] = next - m + n - 1 /\ clip[pending[n]] = clip[pending[1]]
      BY <2>1, <3>1 DEF InBatch
    <3> HIDE DEF m
    <3> QED
      BY <2>2, <2>3, <3>1, <3>2
  <2>5. Vae!VaeBatchTypeOK
    <3>1. Vae!Cardinality(DOMAIN signatures) = Cardinality(DOMAIN signatures)
      BY DEF Vae!Cardinality, Cardinality
    <3>2. Vae!Range(pending) \subseteq DOMAIN clip
      BY <2>4 DEF Vae!Range
    <3> QED
      BY <2>1, <3>1, <3>2 DEF Vae!VaeBatchTypeOK, VaeTypes, Compared
  <2>6. Vae!TilesInPlace
    <3>1. Len(pending) <= batch_size
      BY <2>1 DEF InBatch
    <3>2. \A j \in DOMAIN pending, k \in DOMAIN pending : clip[pending[j]] = clip[pending[k]]
      BY <2>4
    <3>3. ASSUME Vae!Decoded, NEW k \in DOMAIN clip PROVE rows[k] = k
      <4>1. clip # <<>> /\ next > Len(clip) /\ pending = <<>>
        BY <3>3 DEF Vae!Decoded
      <4>2. Len(pending) = 0
        BY <4>1
      <4>3. k < next - Len(pending)
        BY <2>2, <2>3, <4>1, <4>2
      <4> QED
        BY <2>1, <4>1, <4>3 DEF Placed
    <3> QED
      BY <3>1, <3>2, <3>3 DEF Vae!TilesInPlace
  <2>7. Vae!OnlyCheckedBatches
    BY <2>1 DEF Compared, Vae!OnlyCheckedBatches
  <2> QED
    BY <2>5, <2>6, <2>7 DEF BatchesAreSound
<1> QED
  BY VaeInitial, VaeStep, <1>1, PTL DEF Spec

-----------------------------------------------------------------------------
(* Sums of products of named matrices.                                     *)
Words == Seq({"M", "C", "text"} \X Int)

LEMMA OneFactor ==
  ASSUME NEW name \in {"M", "C", "text"}, NEW k \in Int
  PROVE  <<<<name, k>>>> \in Words
BY DEF Words

LEMMA InTimes ==
  ASSUME NEW S, NEW M, NEW w
  PROVE  w \in Scan!Times(S, M) <=> \E s \in S, m \in M : w = s \o m
BY DEF Scan!Times

LEMMA TimesType ==
  ASSUME NEW S \in SUBSET Words, NEW M \in SUBSET Words
  PROVE  Scan!Times(S, M) \in SUBSET Words
<1>1. ASSUME NEW x \in Scan!Times(S, M) PROVE x \in Words
  <2>1. PICK w \in S, m \in M : x = w \o m
    BY InTimes
  <2>2. w \in Words /\ m \in Words
    OBVIOUS
  <2> QED
    BY <2>1, <2>2, ConcatProperties DEF Words
<1> QED
  BY <1>1

LEMMA TimesEye ==
  ASSUME NEW S \in SUBSET Words
  PROVE  Scan!Times(S, Scan!Eye) = S
<1>1. \A w \in S : w \o <<>> = w
  BY ConcatEmptySeq DEF Words
<1>2. ASSUME NEW x PROVE x \in Scan!Times(S, Scan!Eye) <=> x \in S
  <2>1. x \in Scan!Times(S, Scan!Eye) <=> \E w \in S, m \in Scan!Eye : x = w \o m
    BY InTimes
  <2>2. \A m : m \in Scan!Eye <=> m = <<>>
    BY DEF Scan!Eye
  <2> QED
    BY <1>1, <2>1, <2>2
<1> QED
  BY <1>2

LEMMA TimesSum ==
  ASSUME NEW S, NEW C, NEW M
  PROVE  Scan!Times(S \union C, M) = Scan!Times(S, M) \union Scan!Times(C, M)
BY InTimes

LEMMA TimesTimes ==
  ASSUME NEW S \in SUBSET Words, NEW M \in SUBSET Words, NEW T \in SUBSET Words
  PROVE  Scan!Times(Scan!Times(S, M), T) = Scan!Times(S, Scan!Times(M, T))
<1>1. \A s, m, t \in Words : (s \o m) \o t = s \o (m \o t)
  <2> DEFINE Letters == {"M", "C", "text"} \X Int
  <2>1. Words = Seq(Letters)
    BY DEF Words
  <2> HIDE DEF Letters
  <2> SUFFICES ASSUME NEW s \in Words, NEW m \in Words, NEW t \in Words
               PROVE  (s \o m) \o t = s \o (m \o t)
    OBVIOUS
  <2>2. s \in Seq(Letters) /\ m \in Seq(Letters) /\ t \in Seq(Letters)
    BY <2>1
  <2> QED
    BY <2>2, ConcatAssociative, SMTT(30)
<1>2. ASSUME NEW w \in Scan!Times(Scan!Times(S, M), T)
      PROVE  w \in Scan!Times(S, Scan!Times(M, T))
  <2>0. PICK v \in Scan!Times(S, M), t \in T : w = v \o t
    BY InTimes
  <2>1. PICK s \in S, m \in M : v = s \o m
    BY InTimes
  <2>2. w = s \o (m \o t)
    BY <1>1, <2>0, <2>1
  <2>3. m \o t \in Scan!Times(M, T)
    BY InTimes
  <2> QED
    BY <2>2, <2>3, InTimes
<1>3. ASSUME NEW w \in Scan!Times(S, Scan!Times(M, T))
      PROVE  w \in Scan!Times(Scan!Times(S, M), T)
  <2>0. PICK s \in S, v \in Scan!Times(M, T) : w = s \o v
    BY InTimes
  <2>1. PICK m \in M, t \in T : v = m \o t
    BY InTimes
  <2>2. w = (s \o m) \o t
    BY <1>1, <2>0, <2>1
  <2>3. s \o m \in Scan!Times(S, M)
    BY InTimes
  <2> QED
    BY <2>2, <2>3, InTimes
<1> QED
  BY <1>2, <1>3

-----------------------------------------------------------------------------
(* Definitions by recursion.                                               *)

LEMMA ZeroAndNext ==
  ASSUME NEW T, 0 \in T, \A n \in Nat : n \in T => n + 1 \in T
  PROVE  \A n \in Nat : n \in T
<1> SUFFICES ASSUME NEW m \in Nat, m \notin T PROVE FALSE
  OBVIOUS
<1> DEFINE Left == {n \in Nat : n \notin T}
<1>1. PICK x \in Left : \A y \in Left : ~ (<<y, x>> \in OpToRel(<, Nat))
  <2> HIDE DEF Left
  <2>1. Left \subseteq Nat /\ Left # {}
    BY DEF Left
  <2> QED
    BY <2>1, NatLessThanWellFounded, WFMin
<1>2. x # 0 /\ x - 1 \in Nat /\ x - 1 < x
  OBVIOUS
<1>3. x - 1 \notin Left
  BY <1>1, <1>2 DEF OpToRel
<1>4. x - 1 \in T
  BY <1>2, <1>3
<1>5. x - 1 + 1 = x
  BY <1>2
<1> QED
  BY <1>2, <1>4, <1>5

(* A function on 0 .. n that has a first value and follows a step.         *)
Follows(f, V, first, Next1, n) ==
  /\ f \in [0 .. n -> V]
  /\ f[0] = first
  /\ \A k \in 1 .. n : f[k] = Next1[k][f[k - 1]]

(* There is one: it can be defined by recursion.                           *)
LEMMA RecursionExists ==
  ASSUME NEW V, NEW first \in V, NEW n \in Nat, NEW Next1 \in [1 .. n -> [V -> V]]
  PROVE  \E f : Follows(f, V, first, Next1, n)
<1> DEFINE Defines(f, m) == Follows(f, V, first, Next1, m)
           T == {m \in Nat : m <= n => \E f : Defines(f, m)}
<1>1. 0 \in T
  <2> DEFINE f == [k \in 0 .. 0 |-> first]
  <2>1. Defines(f, 0)
    BY DEF Follows
  <2> HIDE DEF Defines, f
  <2> QED
    BY <2>1
<1>2. ASSUME NEW m \in Nat, m \in T PROVE m + 1 \in T
  <2> SUFFICES ASSUME m + 1 <= n PROVE \E f : Defines(f, m + 1)
    OBVIOUS
  <2>1. PICK f : Defines(f, m)
    <3> HIDE DEF Defines
    <3> QED
      BY <1>2
  <2>2. f[m] \in V
    BY <2>1 DEF Follows
  <2> DEFINE v == Next1[m + 1][f[m]]
  <2>3. v \in V
    <3>1. Next1[m + 1] \in [V -> V]
      OBVIOUS
    <3> QED
      BY <2>2, <3>1
  <2> DEFINE g == [k \in 0 .. m + 1 |-> IF k = m + 1 THEN v ELSE f[k]]
  <2> HIDE DEF v
  <2>4. g \in [0 .. m + 1 -> V] /\ g[m + 1] = v /\ \A k \in 0 .. m : g[k] = f[k]
    BY <2>1, <2>3 DEF Follows
  <2> HIDE DEF g
  <2>5. g[0] = first
    BY <2>1, <2>4 DEF Follows
  <2>6. ASSUME NEW k \in 1 .. m + 1 PROVE g[k] = Next1[k][g[k - 1]]
    <3>1. CASE k = m + 1
      <4>1. k - 1 = m /\ g[k - 1] = f[m]
        BY <2>4, <3>1
      <4> QED
        BY <2>4, <3>1, <4>1 DEF v
    <3>2. CASE k \in 1 .. m
      <4>1. g[k] = f[k] /\ g[k - 1] = f[k - 1]
        BY <2>4, <3>2
      <4> QED
        BY <2>1, <3>2, <4>1 DEF Follows
    <3> QED
      BY <3>1, <3>2
  <2>7. Defines(g, m + 1)
    BY <2>4, <2>5, <2>6 DEF Follows
  <2> HIDE DEF Defines
  <2> QED
    BY <2>7
<1>3. n \in T
  <2> HIDE DEF T
  <2> QED
    BY <1>1, <1>2, ZeroAndNext
<1> HIDE DEF Defines
<1> QED
  BY <1>3 DEF Defines

-----------------------------------------------------------------------------
Sizes ==
  /\ frames \in Nat \ {0} /\ chunk \in Nat \ {0, 1} /\ offset \in {0, 1}
  /\ text \in BOOLEAN

(* The k-th frame of a scan in this direction.                             *)
FrameOf(step1, k) == IF step1 = 1 THEN k - 1 ELSE frames - k

LEMMA PlaceTypes ==
  ASSUME Sizes, NEW place \in Int
  PROVE  Scan!TransitionAt(place) \in SUBSET Words /\ Scan!InjectionAt(place) \in SUBSET Words
<1>1. place - offset \in Int
  BY DEF Sizes
<1>2. <<<<"M", place - offset>>>> \in Words /\ <<<<"C", place - offset>>>> \in Words
  BY <1>1, OneFactor
<1>3. <<>> \in Words
  BY EmptySeq DEF Words
<1> QED
  BY <1>2, <1>3 DEF Scan!TransitionAt, Scan!InjectionAt, Scan!Eye, Scan!Zero

LEMMA RecurrenceIs ==
  ASSUME Sizes, NEW step1 \in {1, -1}
  PROVE  LET after == Scan!Recurrence(step1) IN
         /\ after[0] = Scan!StartState
         /\ \A k \in 0 .. frames : after[k] \in SUBSET Words
         /\ \A k \in 1 .. frames :
              after[k] = Scan!Times(after[k - 1], {<<<<"M", FrameOf(step1, k)>>>>})
                           \union {<<<<"C", FrameOf(step1, k)>>>>}
<1> DEFINE Taken(S, k) == Scan!Times(S, {<<<<"M", FrameOf(step1, k)>>>>})
                            \union {<<<<"C", FrameOf(step1, k)>>>>}
           Body(g) == [k \in 0 .. frames |-> IF k = 0 THEN Scan!StartState ELSE Taken(g[k - 1], k)]
           V == SUBSET Words
           after == Scan!Recurrence(step1)
<1>0. frames \in Nat
  BY DEF Sizes
<1>1. Scan!StartState \in V
  <2>1. <<<<"text", 0>>>> \in Words
    BY OneFactor
  <2> QED
    BY <2>1 DEF Scan!StartState, Scan!Zero
<1>2. \A k \in 1 .. frames, S \in V : Taken(S, k) \in V
  <2> SUFFICES ASSUME NEW k \in 1 .. frames, NEW S \in V PROVE Taken(S, k) \in V
    OBVIOUS
  <2>1. FrameOf(step1, k) \in Int
    BY <1>0 DEF FrameOf
  <2>2. {<<<<"M", FrameOf(step1, k)>>>>} \in V /\ {<<<<"C", FrameOf(step1, k)>>>>} \in V
    BY <2>1, OneFactor
  <2> QED
    BY <2>2, TimesType
<1>3. after = CHOOSE g : g = Body(g)
  BY DEF Scan!Recurrence, FrameOf
<1> HIDE DEF Taken, V
<1>4. PICK f : /\ f \in [0 .. frames -> V] /\ f[0] = Scan!StartState
               /\ \A k \in 1 .. frames : f[k] = Taken(f[k - 1], k)
  <2> DEFINE Steps1 == [k \in 1 .. frames |-> [S \in V |-> Taken(S, k)]]
  <2>1. Steps1 \in [1 .. frames -> [V -> V]]
    BY <1>2
  <2>2. \A k \in 1 .. frames, S \in V : Steps1[k][S] = Taken(S, k)
    OBVIOUS
  <2> HIDE DEF Steps1
  <2>3. PICK f : Follows(f, V, Scan!StartState, Steps1, frames)
    BY <1>0, <1>1, <2>1, RecursionExists
  <2>4. ASSUME NEW k \in 1 .. frames PROVE f[k] = Taken(f[k - 1], k)
    <3>1. f[k - 1] \in V
      BY <1>0, <2>3 DEF Follows
    <3> QED
      BY <2>2, <2>3, <3>1 DEF Follows
  <2> QED
    BY <2>3, <2>4 DEF Follows
<1>5. f = Body(f)
  BY <1>4
<1>6. after = Body(after)
  <2> HIDE DEF Body, after
  <2> QED
    BY <1>3, <1>5
<1> HIDE DEF after
<1>7. after[0] = Scan!StartState /\ \A k \in 1 .. frames : after[k] = Taken(after[k - 1], k)
  BY <1>0, <1>6
<1>8. \A k \in 0 .. frames : after[k] \in V
  <2> DEFINE T == {m \in Nat : m <= frames => after[m] \in V}
  <2>1. 0 \in T
    BY <1>1, <1>7
  <2>2. ASSUME NEW m \in Nat, m \in T PROVE m + 1 \in T
    <3> SUFFICES ASSUME m + 1 <= frames PROVE after[m + 1] \in V
      OBVIOUS
    <3>1. after[m] \in V /\ m + 1 \in 1 .. frames /\ m + 1 - 1 = m
      BY <1>0, <2>2
    <3> QED
      BY <1>2, <1>7, <3>1
  <2>3. \A k \in Nat : k \in T
    <3> HIDE DEF T
    <3> QED
      BY <2>1, <2>2, ZeroAndNext
  <2> QED
    BY <2>3
<1>9. \A k \in 0 .. frames : after[k] \in SUBSET Words
  BY <1>8 DEF V
<1>10. \A k \in 1 .. frames :
         after[k] = Scan!Times(after[k - 1], {<<<<"M", FrameOf(step1, k)>>>>})
                      \union {<<<<"C", FrameOf(step1, k)>>>>}
  BY <1>7 DEF Taken
<1> QED
  BY <1>7, <1>9, <1>10 DEF after

Maps == [M : SUBSET Words, C : SUBSET Words]

LEMMA ComposeIs ==
  ASSUME Sizes, NEW c \in Int, NEW reverse \in BOOLEAN
  PROVE  \E map : /\ map \in [0 .. chunk -> Maps]
                  /\ map[0] = [M |-> Scan!Eye, C |-> Scan!Zero]
                  /\ \A k \in 1 .. chunk : map[k] = Scan!Fold(map[k - 1], Scan!Place(c, k, reverse))
                  /\ Scan!ComposeChunk(c, reverse) = map[chunk]
<1> DEFINE Taken(m, k) == Scan!Fold(m, Scan!Place(c, k, reverse))
           None1 == [M |-> Scan!Eye, C |-> Scan!Zero]
           Body(g) == [k \in 0 .. chunk |-> IF k = 0 THEN None1 ELSE Taken(g[k - 1], k)]
           chosen == CHOOSE g : g = Body(g)
<1>0. chunk \in Nat
  BY DEF Sizes
<1>1. None1 \in Maps
  <2>1. <<>> \in Words
    BY EmptySeq DEF Words
  <2> QED
    BY <2>1 DEF Scan!Eye, Scan!Zero, Maps
<1>2. \A k \in 1 .. chunk, m \in Maps : Taken(m, k) \in Maps
  <2> SUFFICES ASSUME NEW k \in 1 .. chunk, NEW m \in Maps PROVE Taken(m, k) \in Maps
    OBVIOUS
  <2> DEFINE place == Scan!Place(c, k, reverse)
  <2>1. place \in Int
    BY <1>0 DEF Scan!Place
  <2> HIDE DEF place
  <2>2. m.M \in SUBSET Words /\ m.C \in SUBSET Words
    BY DEF Maps
  <2>3. Scan!Times(m.M, Scan!TransitionAt(place)) \in SUBSET Words
    BY <2>1, <2>2, TimesType, PlaceTypes
  <2>4. Scan!Times(m.C, Scan!TransitionAt(place)) \union Scan!InjectionAt(place) \in SUBSET Words
    BY <2>1, <2>2, TimesType, PlaceTypes
  <2> QED
    BY <2>3, <2>4 DEF Scan!Fold, Maps, place
<1>3. Scan!ComposeChunk(c, reverse) = chosen[chunk]
  BY DEF Scan!ComposeChunk
<1> HIDE DEF Taken, None1
<1>4. PICK f : /\ f \in [0 .. chunk -> Maps] /\ f[0] = None1
               /\ \A k \in 1 .. chunk : f[k] = Taken(f[k - 1], k)
  <2> DEFINE Steps1 == [k \in 1 .. chunk |-> [m \in Maps |-> Taken(m, k)]]
  <2>1. Steps1 \in [1 .. chunk -> [Maps -> Maps]]
    BY <1>2
  <2>2. \A k \in 1 .. chunk, m \in Maps : Steps1[k][m] = Taken(m, k)
    OBVIOUS
  <2> HIDE DEF Steps1
  <2>3. PICK f : Follows(f, Maps, None1, Steps1, chunk)
    BY <1>0, <1>1, <2>1, RecursionExists
  <2>4. ASSUME NEW k \in 1 .. chunk PROVE f[k] = Taken(f[k - 1], k)
    <3>1. f[k - 1] \in Maps
      BY <1>0, <2>3 DEF Follows
    <3> QED
      BY <2>2, <2>3, <3>1 DEF Follows
  <2> QED
    BY <2>3, <2>4 DEF Follows
<1>5. f = Body(f)
  BY <1>4
<1>6. chosen = Body(chosen)
  <2> HIDE DEF Body
  <2> QED
    BY <1>5
<1> HIDE DEF chosen
<1>7. chosen[0] = None1 /\ \A k \in 1 .. chunk : chosen[k] = Taken(chosen[k - 1], k)
  BY <1>0, <1>6
<1>8. \A k \in 0 .. chunk : chosen[k] \in Maps
  <2> DEFINE T == {m \in Nat : m <= chunk => chosen[m] \in Maps}
  <2>1. 0 \in T
    BY <1>1, <1>7
  <2>2. ASSUME NEW m \in Nat, m \in T PROVE m + 1 \in T
    <3> SUFFICES ASSUME m + 1 <= chunk PROVE chosen[m + 1] \in Maps
      OBVIOUS
    <3>1. chosen[m] \in Maps /\ m + 1 \in 1 .. chunk /\ m + 1 - 1 = m
      BY <1>0, <2>2
    <3> QED
      BY <1>2, <1>7, <3>1
  <2>3. \A k \in Nat : k \in T
    <3> HIDE DEF T
    <3> QED
      BY <2>1, <2>2, ZeroAndNext
  <2> QED
    BY <2>3
<1>9. chosen \in [0 .. chunk -> Maps]
  BY <1>0, <1>6, <1>8
<1> QED
  BY <1>3, <1>7, <1>9 DEF Taken, None1

(* A state with the frames of a chunk, one by one, is the state with the   *)
(* chunk's map.                                                            *)
LEMMA Composed ==
  ASSUME Sizes, NEW c \in Int, NEW reverse \in BOOLEAN,
         NEW A \in [0 .. chunk -> SUBSET Words],
         \A k \in 1 .. chunk :
           A[k] = Scan!Times(A[k - 1], Scan!TransitionAt(Scan!Place(c, k, reverse)))
                    \union Scan!InjectionAt(Scan!Place(c, k, reverse))
  PROVE  Scan!Times(A[0], Scan!ComposeChunk(c, reverse).M) \union Scan!ComposeChunk(c, reverse).C
           = A[chunk]
<1>0. chunk \in Nat
  BY DEF Sizes
<1>1. PICK map : /\ map \in [0 .. chunk -> Maps]
                 /\ map[0] = [M |-> Scan!Eye, C |-> Scan!Zero]
                 /\ \A k \in 1 .. chunk : map[k] = Scan!Fold(map[k - 1], Scan!Place(c, k, reverse))
                 /\ Scan!ComposeChunk(c, reverse) = map[chunk]
  BY ComposeIs
<1> DEFINE T == {k \in Nat : k <= chunk => Scan!Times(A[0], map[k].M) \union map[k].C = A[k]}
<1>2. 0 \in T
  <2>1. A[0] \in SUBSET Words
    BY <1>0
  <2>2. Scan!Times(A[0], map[0].M) = A[0] /\ map[0].C = {}
    BY <1>1, <2>1, TimesEye DEF Scan!Zero
  <2> QED
    BY <2>2
<1>3. ASSUME NEW m \in Nat, m \in T PROVE m + 1 \in T
  <2> SUFFICES ASSUME m + 1 <= chunk
               PROVE  Scan!Times(A[0], map[m + 1].M) \union map[m + 1].C = A[m + 1]
    OBVIOUS
  <2> DEFINE place == Scan!Place(c, m + 1, reverse)
             t == Scan!TransitionAt(place)
             i == Scan!InjectionAt(place)
  <2>1. m + 1 \in 1 .. chunk /\ m + 1 - 1 = m /\ m \in 0 .. chunk /\ 0 \in 0 .. chunk
    BY <1>0
  <2>2. place \in Int
    BY <1>0 DEF Scan!Place
  <2> HIDE DEF place
  <2>3. t \in SUBSET Words /\ i \in SUBSET Words
    BY <2>2, PlaceTypes
  <2>4. map[m].M \in SUBSET Words /\ map[m].C \in SUBSET Words /\ A[0] \in SUBSET Words
    BY <1>1, <2>1 DEF Maps
  <2>5. map[m + 1].M = Scan!Times(map[m].M, t) /\ map[m + 1].C = Scan!Times(map[m].C, t) \union i
    <3>0. map[m + 1] = Scan!Fold(map[m + 1 - 1], place)
      BY <1>1, <2>1 DEF place
    <3>1. map[m + 1] = Scan!Fold(map[m], place)
      BY <2>1, <3>0
    <3> QED
      BY <3>1 DEF Scan!Fold
  <2>6. A[m + 1] = Scan!Times(A[m], t) \union i
    BY <2>1 DEF place
  <2>7. Scan!Times(A[0], map[m].M) \union map[m].C = A[m]
    BY <1>3, <2>1
  <2> HIDE DEF t, i
  <2>8. Scan!Times(Scan!Times(A[0], map[m].M) \union map[m].C, t) \union i
          = Scan!Times(A[0], Scan!Times(map[m].M, t)) \union (Scan!Times(map[m].C, t) \union i)
    <3> DEFINE S == A[0]
               M == map[m].M
               C == map[m].C
    <3> HIDE DEF S, M, C
    <3>1. Scan!Times(Scan!Times(S, M) \union C, t) \union i
            = Scan!Times(S, Scan!Times(M, t)) \union (Scan!Times(C, t) \union i)
      <4>1. S \in SUBSET Words /\ M \in SUBSET Words /\ C \in SUBSET Words
        BY <2>4 DEF S, M, C
      <4>2. Scan!Times(Scan!Times(S, M) \union C, t)
              = Scan!Times(Scan!Times(S, M), t) \union Scan!Times(C, t)
        BY TimesSum
      <4>3. Scan!Times(Scan!Times(S, M), t) = Scan!Times(S, Scan!Times(M, t))
        BY <2>3, <4>1, TimesTimes
      <4> QED
        BY <4>2, <4>3
    <3> QED
      BY <3>1 DEF S, M, C
  <2> QED
    BY <2>5, <2>6, <2>7, <2>8
<1>4. chunk \in T
  <2> HIDE DEF T
  <2> QED
    BY <1>0, <1>2, <1>3, ZeroAndNext
<1> QED
  BY <1>1, <1>4

(* The frames before a place of the padded grid.                           *)
Before(place) ==
  IF place <= offset THEN 0
  ELSE IF place >= offset + frames THEN frames
  ELSE place - offset

LEMMA BeforeTypes ==
  ASSUME Sizes, NEW place \in Int
  PROVE  Before(place) \in 0 .. frames /\ frames - Before(place) \in 0 .. frames
BY DEF Before, Sizes

LEMMA PlaceForwards ==
  ASSUME Sizes, NEW p \in Int
  PROVE  LET after == Scan!Recurrence(1) IN
         after[Before(p + 1)] = Scan!Times(after[Before(p)], Scan!TransitionAt(p)) \union Scan!InjectionAt(p)
<1> DEFINE after == Scan!Recurrence(1)
<1>0. /\ \A k \in 0 .. frames : after[k] \in SUBSET Words
      /\ \A k \in 1 .. frames :
           after[k] = Scan!Times(after[k - 1], {<<<<"M", FrameOf(1, k)>>>>}) \union {<<<<"C", FrameOf(1, k)>>>>}
  BY RecurrenceIs
<1> HIDE DEF after
<1>1. CASE Scan!InVideo(p)
  <2> DEFINE k == Before(p + 1)
  <2>1. k \in 1 .. frames /\ k - 1 = Before(p) /\ FrameOf(1, k) = p - offset
    BY <1>1 DEF Scan!InVideo, Before, Sizes, FrameOf
  <2> HIDE DEF k
  <2>2. after[k] = Scan!Times(after[k - 1], {<<<<"M", FrameOf(1, k)>>>>}) \union {<<<<"C", FrameOf(1, k)>>>>}
    BY <1>0, <2>1
  <2>3. Scan!TransitionAt(p) = {<<<<"M", p - offset>>>>} /\ Scan!InjectionAt(p) = {<<<<"C", p - offset>>>>}
    BY <1>1 DEF Scan!TransitionAt, Scan!InjectionAt
  <2> QED
    BY <2>1, <2>2, <2>3 DEF after, k
<1>2. CASE ~Scan!InVideo(p)
  <2>1. Before(p + 1) = Before(p)
    BY <1>2 DEF Scan!InVideo, Before, Sizes
  <2>2. Scan!TransitionAt(p) = Scan!Eye /\ Scan!InjectionAt(p) = {}
    BY <1>2 DEF Scan!TransitionAt, Scan!InjectionAt, Scan!Zero
  <2>3. after[Before(p)] \in SUBSET Words
    BY <1>0, BeforeTypes
  <2> QED
    BY <2>1, <2>2, <2>3, TimesEye DEF after
<1> QED
  BY <1>1, <1>2

LEMMA PlaceBackwards ==
  ASSUME Sizes, NEW p \in Int
  PROVE  LET after == Scan!Recurrence(-1) IN
         after[frames - Before(p)]
           = Scan!Times(after[frames - Before(p + 1)], Scan!TransitionAt(p)) \union Scan!InjectionAt(p)
<1> DEFINE after == Scan!Recurrence(-1)
<1>0. /\ \A k \in 0 .. frames : after[k] \in SUBSET Words
      /\ \A k \in 1 .. frames :
           after[k] = Scan!Times(after[k - 1], {<<<<"M", FrameOf(-1, k)>>>>}) \union {<<<<"C", FrameOf(-1, k)>>>>}
  BY RecurrenceIs
<1> HIDE DEF after
<1>1. CASE Scan!InVideo(p)
  <2> DEFINE k == frames - Before(p)
  <2>1. k \in 1 .. frames /\ k - 1 = frames - Before(p + 1) /\ FrameOf(-1, k) = p - offset
    BY <1>1 DEF Scan!InVideo, Before, Sizes, FrameOf
  <2> HIDE DEF k
  <2>2. after[k] = Scan!Times(after[k - 1], {<<<<"M", FrameOf(-1, k)>>>>}) \union {<<<<"C", FrameOf(-1, k)>>>>}
    BY <1>0, <2>1
  <2>3. Scan!TransitionAt(p) = {<<<<"M", p - offset>>>>} /\ Scan!InjectionAt(p) = {<<<<"C", p - offset>>>>}
    BY <1>1 DEF Scan!TransitionAt, Scan!InjectionAt
  <2> QED
    BY <2>1, <2>2, <2>3 DEF after, k
<1>2. CASE ~Scan!InVideo(p)
  <2>1. Before(p + 1) = Before(p)
    BY <1>2 DEF Scan!InVideo, Before, Sizes
  <2>2. Scan!TransitionAt(p) = Scan!Eye /\ Scan!InjectionAt(p) = {}
    BY <1>2 DEF Scan!TransitionAt, Scan!InjectionAt, Scan!Zero
  <2>3. after[frames - Before(p)] \in SUBSET Words
    BY <1>0, BeforeTypes
  <2> QED
    BY <2>1, <2>2, <2>3, TimesEye DEF after
<1> QED
  BY <1>1, <1>2

(* A chunk takes the scan from its first place to behind its last one, or  *)
(* back.                                                                   *)
LEMMA ChunkForwards ==
  ASSUME Sizes, NEW c \in Int
  PROVE  LET after == Scan!Recurrence(1)
             map == Scan!ComposeChunk(c, FALSE)
         IN  Scan!Times(after[Before(c * chunk)], map.M) \union map.C = after[Before(c * chunk + chunk)]
<1> DEFINE after == Scan!Recurrence(1)
           A == [k \in 0 .. chunk |-> after[Before(c * chunk + k)]]
<1>0. chunk \in Nat /\ c * chunk \in Int
  BY DEF Sizes
<1>1. A \in [0 .. chunk -> SUBSET Words]
  <2> SUFFICES ASSUME NEW k \in 0 .. chunk PROVE after[Before(c * chunk + k)] \in SUBSET Words
    OBVIOUS
  <2>1. Before(c * chunk + k) \in 0 .. frames
    BY <1>0, BeforeTypes
  <2> QED
    BY <2>1, RecurrenceIs
<1>2. ASSUME NEW k \in 1 .. chunk
      PROVE  A[k] = Scan!Times(A[k - 1], Scan!TransitionAt(Scan!Place(c, k, FALSE)))
                      \union Scan!InjectionAt(Scan!Place(c, k, FALSE))
  <2> DEFINE p == c * chunk + (k - 1)
  <2>1. p \in Int /\ p + 1 = c * chunk + k /\ Scan!Place(c, k, FALSE) = p
    BY <1>0 DEF Scan!Place
  <2>2. A[k] = after[Before(p + 1)] /\ A[k - 1] = after[Before(p)]
    BY <1>0, <2>1
  <2> HIDE DEF p, A
  <2> QED
    BY <2>1, <2>2, PlaceForwards
<1>3. Scan!Times(A[0], Scan!ComposeChunk(c, FALSE).M) \union Scan!ComposeChunk(c, FALSE).C = A[chunk]
  <2> HIDE DEF A
  <2> QED
    BY <1>1, <1>2, Composed
<1>4. A[0] = after[Before(c * chunk)] /\ A[chunk] = after[Before(c * chunk + chunk)]
  <2>1. c * chunk + 0 = c * chunk
    BY <1>0
  <2> QED
    BY <1>0, <2>1
<1> QED
  BY <1>3, <1>4

LEMMA ChunkBackwards ==
  ASSUME Sizes, NEW c \in Int
  PROVE  LET after == Scan!Recurrence(-1)
             map == Scan!ComposeChunk(c, TRUE)
         IN  Scan!Times(after[frames - Before(c * chunk + chunk)], map.M) \union map.C
               = after[frames - Before(c * chunk)]
<1> DEFINE after == Scan!Recurrence(-1)
           A == [k \in 0 .. chunk |-> after[frames - Before(c * chunk + chunk - k)]]
<1>0. chunk \in Nat /\ c * chunk \in Int
  BY DEF Sizes
<1>1. A \in [0 .. chunk -> SUBSET Words]
  <2> SUFFICES ASSUME NEW k \in 0 .. chunk
               PROVE  after[frames - Before(c * chunk + chunk - k)] \in SUBSET Words
    OBVIOUS
  <2>1. frames - Before(c * chunk + chunk - k) \in 0 .. frames
    BY <1>0, BeforeTypes
  <2> QED
    BY <2>1, RecurrenceIs
<1>2. ASSUME NEW k \in 1 .. chunk
      PROVE  A[k] = Scan!Times(A[k - 1], Scan!TransitionAt(Scan!Place(c, k, TRUE)))
                      \union Scan!InjectionAt(Scan!Place(c, k, TRUE))
  <2> DEFINE p == c * chunk + chunk - k
  <2>1. /\ p \in Int /\ p + 1 = c * chunk + chunk - (k - 1)
        /\ Scan!Place(c, k, TRUE) = p
    BY <1>0 DEF Scan!Place
  <2>2. A[k] = after[frames - Before(p)] /\ A[k - 1] = after[frames - Before(p + 1)]
    BY <1>0, <2>1
  <2> HIDE DEF p, A
  <2> QED
    BY <2>1, <2>2, PlaceBackwards
<1>3. Scan!Times(A[0], Scan!ComposeChunk(c, TRUE).M) \union Scan!ComposeChunk(c, TRUE).C = A[chunk]
  <2> HIDE DEF A
  <2> QED
    BY <1>1, <1>2, Composed
<1>4. A[0] = after[frames - Before(c * chunk + chunk)] /\ A[chunk] = after[frames - Before(c * chunk)]
  <2>1. c * chunk + chunk - 0 = c * chunk + chunk /\ c * chunk + chunk - chunk = c * chunk
    BY <1>0
  <2> QED
    BY <1>0, <2>1
<1> QED
  BY <1>3, <1>4

LEMMA NumChunksIs ==
  ASSUME Sizes
  PROVE  /\ Scan!NumChunks \in Nat
         /\ Scan!NumChunks * chunk >= offset + frames
         /\ (Scan!NumChunks - 1) * chunk < offset + frames
<1> DEFINE n == offset + frames + chunk - 1
           N == n \div chunk
<1>1. n \in Nat /\ chunk \in Nat /\ chunk > 0 /\ offset + frames \in Nat
  BY DEF Sizes
<1>2. \A a, b \in Nat : b > 0 => a \div b \in Nat /\ b * (a \div b) <= a /\ a < b * (a \div b) + b
  OBVIOUS
<1>3. N \in Nat /\ chunk * N <= n /\ n < chunk * N + chunk
  BY <1>1, <1>2
<1>4. N * chunk = chunk * N /\ (N - 1) * chunk = chunk * N - chunk
  BY <1>1, <1>3
<1>5. chunk * N \in Int
  BY <1>1, <1>3
<1>6. Scan!NumChunks = N
  BY DEF Scan!NumChunks
<1> HIDE DEF N
<1> QED
  BY <1>1, <1>3, <1>4, <1>5, <1>6

(* The states after c steps are those of the scans frame by frame, up to   *)
(* where the chunks end.                                                   *)
After(c) ==
  <<Scan!Recurrence(1)[Before(c * chunk)],
    Scan!Recurrence(-1)[frames - Before((Scan!NumChunks - c) * chunk)]>>

States == (SUBSET Words) \X (SUBSET Words)

ScanInv ==
  part = "scan" =>
    /\ Sizes
    /\ turn \in 0 .. Scan!NumChunks
    /\ state = After(turn)
    /\ boundary \in Seq(States) /\ Len(boundary) = turn
    /\ \A c \in 1 .. turn : boundary[c] = After(c)

LEMMA AfterType ==
  ASSUME Sizes, NEW c \in Int
  PROVE  After(c) \in States
<1>1. chunk \in Nat /\ c * chunk \in Int /\ (Scan!NumChunks - c) * chunk \in Int
  BY NumChunksIs DEF Sizes
<1>2. /\ Before(c * chunk) \in 0 .. frames
      /\ frames - Before((Scan!NumChunks - c) * chunk) \in 0 .. frames
  BY <1>1, BeforeTypes
<1>3. /\ Scan!Recurrence(1)[Before(c * chunk)] \in SUBSET Words
      /\ Scan!Recurrence(-1)[frames - Before((Scan!NumChunks - c) * chunk)] \in SUBSET Words
  BY <1>2, RecurrenceIs
<1> QED
  BY <1>3, Zenon DEF After, States

LEMMA ScanInitial == Init => ScanInv
<1> SUFFICES ASSUME Init, part = "scan"
             PROVE  /\ Sizes
                    /\ turn \in 0 .. Scan!NumChunks
                    /\ state = After(turn)
                    /\ boundary \in Seq(States) /\ Len(boundary) = turn
                    /\ \A c \in 1 .. turn : boundary[c] = After(c)
  BY DEF ScanInv
<1>1. Sizes
  BY ScanAssumption DEF Init, Scan!BoundaryInit, Sizes
<1>2. turn = 0 /\ state = <<Scan!StartState, Scan!StartState>> /\ boundary = <<>>
  BY DEF Init, Scan!BoundaryInit
<1>3. Before(0 * chunk) = 0 /\ Before((Scan!NumChunks - 0) * chunk) = frames
  <2>1. 0 * chunk = 0 /\ Scan!NumChunks - 0 = Scan!NumChunks /\ Scan!NumChunks * chunk \in Int
    BY <1>1, NumChunksIs DEF Sizes
  <2>2. Before(0) = 0
    BY <1>1 DEF Sizes, Before
  <2>3. Before(Scan!NumChunks * chunk) = frames
    BY <1>1, <2>1, NumChunksIs DEF Sizes, Before
  <2> QED
    BY <2>1, <2>2, <2>3
<1>4. /\ Scan!Recurrence(1)[0] = Scan!StartState
      /\ Scan!Recurrence(-1)[frames - frames] = Scan!StartState
  <2>1. frames - frames = 0
    BY <1>1 DEF Sizes
  <2> QED
    BY <1>1, <2>1, RecurrenceIs
<1>5. After(0) = <<Scan!StartState, Scan!StartState>>
  BY <1>3, <1>4 DEF After
<1>6. boundary \in Seq(States) /\ Len(boundary) = 0
  BY <1>2, EmptySeq
<1> QED
  BY <1>1, <1>2, <1>5, <1>6, NumChunksIs

(* The scans are of the video, which does not change.                      *)
ScanOf(f, start, step1) ==
  LET after[k \in 0 .. f] ==
        IF k = 0 THEN start
        ELSE LET frame == IF step1 = 1 THEN k - 1 ELSE f - k
             IN  Scan!Times(after[k - 1], {<<<<"M", frame>>>>}) \union {<<<<"C", frame>>>>}
  IN  after

LEMMA AfterSame ==
  ASSUME UNCHANGED <<frames, chunk, offset, text>>, NEW c
  PROVE  After(c)' = After(c) /\ (turn' = c => After(turn)' = After(c))
<1>1. \A s : Scan!Recurrence(s) = ScanOf(frames, Scan!StartState, s)
  BY DEF Scan!Recurrence, ScanOf
<1>2. \A s : Scan!Recurrence(s)' = ScanOf(frames', Scan!StartState', s)
  BY DEF Scan!Recurrence, ScanOf
<1>3. Scan!StartState' = Scan!StartState
  BY DEF Scan!StartState
<1>4. \A s : Scan!Recurrence(s)' = Scan!Recurrence(s)
  BY <1>1, <1>2, <1>3
<1>5. Scan!NumChunks' = Scan!NumChunks
  BY DEF Scan!NumChunks
<1>6. /\ Before(c * chunk)' = Before(c * chunk)
      /\ Before((Scan!NumChunks - c) * chunk)' = Before((Scan!NumChunks - c) * chunk)
  BY <1>5 DEF Before
<1>7. After(c)' = After(c)
  BY <1>4, <1>6 DEF After
<1>8. ASSUME turn' = c PROVE After(turn)' = After(c)
  <2>1. /\ Before(turn * chunk)' = Before(c * chunk)
        /\ Before((Scan!NumChunks - turn) * chunk)' = Before((Scan!NumChunks - c) * chunk)
    BY <1>5, <1>8 DEF Before
  <2> QED
    BY <1>4, <2>1 DEF After
<1> QED
  BY <1>7, <1>8

LEMMA ScanStep == ScanInv /\ [Next]_pvars => ScanInv'
<1> SUFFICES ASSUME ScanInv, [Next]_pvars, part' = "scan" PROVE ScanInv'
  BY DEF ScanInv
<1>1. ASSUME UNCHANGED <<part, scanVars>> PROVE ScanInv'
  <2>1. /\ Sizes /\ turn \in 0 .. Scan!NumChunks /\ state = After(turn)
        /\ boundary \in Seq(States) /\ Len(boundary) = turn
        /\ \A c \in 1 .. turn : boundary[c] = After(c)
    BY <1>1 DEF ScanInv
  <2>2. UNCHANGED <<frames, chunk, offset, text, turn, state, boundary>>
    BY <1>1 DEF scanVars
  <2>3. Sizes' /\ Scan!NumChunks' = Scan!NumChunks
    BY <2>1, <2>2 DEF Sizes, Scan!NumChunks
  <2>4. \A c : After(c)' = After(c)
    BY <2>2, AfterSame
  <2>5. state' = After(turn)'
    BY <2>1, <2>2, <2>4
  <2>6. \A c \in 1 .. turn' : boundary'[c] = After(c)'
    BY <2>1, <2>2, <2>4
  <2> QED
    BY <2>1, <2>2, <2>3, <2>5, <2>6 DEF ScanInv
<1>2. ASSUME part = "scan", Scan!Advance, UNCHANGED part PROVE ScanInv'
  <2>1. /\ Sizes /\ turn \in 0 .. Scan!NumChunks /\ state = After(turn)
        /\ boundary \in Seq(States) /\ Len(boundary) = turn
        /\ \A c \in 1 .. turn : boundary[c] = After(c)
    BY <1>2 DEF ScanInv
  <2> DEFINE N == Scan!NumChunks
             new == <<Scan!Times(state[1], Scan!ComposeChunk(turn, FALSE).M)
                        \union Scan!ComposeChunk(turn, FALSE).C,
                      Scan!Times(state[2], Scan!ComposeChunk(Scan!ReverseChunk(turn), TRUE).M)
                        \union Scan!ComposeChunk(Scan!ReverseChunk(turn), TRUE).C>>
  <2>2. /\ turn < N /\ state' = new /\ boundary' = Append(boundary, new) /\ turn' = turn + 1
        /\ UNCHANGED <<frames, chunk, offset, text>>
    BY <1>2 DEF Scan!Advance
  <2>3. /\ N \in Nat /\ turn \in Nat /\ turn + 1 \in 0 .. N
        /\ chunk \in Nat /\ turn * chunk \in Int /\ (N - turn) * chunk \in Int
        /\ (turn + 1) * chunk = turn * chunk + chunk
        /\ (N - 1 - turn) * chunk + chunk = (N - turn) * chunk
        /\ N - (turn + 1) = N - 1 - turn
    <3>1. N \in Nat /\ turn \in Nat /\ turn + 1 \in 0 .. N /\ chunk \in Nat
      BY <2>1, <2>2, NumChunksIs DEF Sizes
    <3> HIDE DEF N
    <3> QED
      BY <3>1
  <2>4. new[1] = After(turn + 1)[1]
    <3> DEFINE a == turn
    <3>1. a \in Int /\ state[1] = Scan!Recurrence(1)[Before(a * chunk)]
      BY <2>1, <2>3 DEF After
    <3>2. Scan!Recurrence(1)[Before(a * chunk + chunk)] = After(turn + 1)[1]
      BY <2>3 DEF After
    <3> HIDE DEF a
    <3>3. Scan!Times(Scan!Recurrence(1)[Before(a * chunk)], Scan!ComposeChunk(a, FALSE).M)
            \union Scan!ComposeChunk(a, FALSE).C = Scan!Recurrence(1)[Before(a * chunk + chunk)]
      BY <2>1, <3>1, ChunkForwards
    <3> QED
      BY <3>1, <3>2, <3>3 DEF a
  <2>5. new[2] = After(turn + 1)[2]
    <3> DEFINE b == N - 1 - turn
    <3>1. Scan!ReverseChunk(turn) = b /\ b \in Int
      BY <2>3 DEF Scan!ReverseChunk
    <3>2. state[2] = Scan!Recurrence(-1)[frames - Before(b * chunk + chunk)]
      BY <2>1, <2>3 DEF After
    <3>3. Scan!Recurrence(-1)[frames - Before(b * chunk)] = After(turn + 1)[2]
      BY <2>3 DEF After
    <3> HIDE DEF b
    <3>4. Scan!Times(Scan!Recurrence(-1)[frames - Before(b * chunk + chunk)], Scan!ComposeChunk(b, TRUE).M)
            \union Scan!ComposeChunk(b, TRUE).C = Scan!Recurrence(-1)[frames - Before(b * chunk)]
      BY <2>1, <3>1, ChunkBackwards
    <3> QED
      BY <3>1, <3>2, <3>3, <3>4
  <2> HIDE DEF N
  <2>6. new = After(turn + 1)
    BY <2>4, <2>5 DEF After
  <2> HIDE DEF new
  <2>7. new \in States
    BY <2>1, <2>3, <2>6, AfterType
  <2>8. /\ boundary' \in Seq(States) /\ Len(boundary') = turn + 1
        /\ \A c \in 1 .. turn : boundary'[c] = boundary[c]
        /\ boundary'[turn + 1] = new
    BY <2>1, <2>2, <2>3, <2>7, AppendProperties
  <2>9. Sizes' /\ Scan!NumChunks' = N
    BY <2>1, <2>2 DEF Sizes, Scan!NumChunks, N
  <2>10. \A c : After(c)' = After(c)
    BY <2>2, AfterSame
  <2>11. After(turn)' = After(turn + 1)
    BY <2>2, AfterSame
  <2>12. \A c \in 1 .. turn + 1 : boundary'[c] = After(c)'
    <3>1. ASSUME NEW c \in 1 .. turn PROVE boundary'[c] = After(c)'
      BY <2>1, <2>8, <2>10
    <3>2. ASSUME NEW c, c = turn + 1 PROVE boundary'[c] = After(c)'
      BY <2>6, <2>8, <2>10, <3>2
    <3> QED
      BY <2>3, <3>1, <3>2
  <2> QED
    BY <1>2, <2>2, <2>3, <2>6, <2>8, <2>9, <2>11, <2>12 DEF ScanInv
<1>3. CASE ScanMoves
  BY <1>2, <1>3 DEF ScanMoves, Scan!BoundaryNext
<1>4. CASE CacheMoves \/ ScopeMoves \/ CudaMoves \/ VaeMoves \/ LayoutMoves \/ ExactMoves
  BY <1>1, <1>4 DEF CacheMoves, ScopeMoves, CudaMoves, VaeMoves, LayoutMoves, ExactMoves
<1>5. CASE UNCHANGED pvars
  BY <1>1, <1>5 DEF pvars
<1> QED
  BY <1>3, <1>4, <1>5 DEF Next

(* For every video, chunk, leading frame and text state, and all matrices: *)
(* the states at the edges of chunks, composed chunk by chunk in both      *)
(* directions, are those of the scans frame by frame.                      *)
THEOREM BoundaryScansAgree == Spec => []ScansAsNative
<1>1. ScanInv => ScansAsNative
  <2> SUFFICES ASSUME ScanInv, part = "scan", turn = Scan!NumChunks,
                      NEW lo \in -1 .. frames, NEW hi \in -1 .. frames, Scan!Compatible(lo, hi)
               PROVE  /\ lo - 1 \in 0 .. frames - 1 => Scan!Prefix(lo - 1) = Scan!Native(lo - 1, 1)
                      /\ hi + 1 \in 0 .. frames - 1 => Scan!Suffix(hi + 1) = Scan!Native(hi + 1, -1)
    BY DEF ScansAsNative, Scan!ScansAsNative
  <2> DEFINE N == Scan!NumChunks
  <2>1. /\ Sizes /\ N \in Nat /\ \A c \in 1 .. N : boundary[c] = After(c)
        /\ N * chunk >= offset + frames
    BY NumChunksIs DEF ScanInv
  <2>2. ASSUME lo - 1 \in 0 .. frames - 1 PROVE Scan!Prefix(lo - 1) = Scan!Native(lo - 1, 1)
    <3> DEFINE f == lo - 1
               c == CHOOSE c \in 0 .. N - 1 : <<f, c>> \in Scan!Ends
    <3>1. \E d \in 0 .. N - 1 : <<f, d>> \in Scan!Ends
      BY <2>2 DEF Scan!Compatible, Scan!Ends
    <3>2. c \in 0 .. N - 1 /\ <<f, c>> \in Scan!Ends
      BY <3>1
    <3>3. Scan!Prefix(f) = boundary[c + 1][1]
      BY <3>1 DEF Scan!Prefix
    <3> HIDE DEF c
    <3>4. f + 1 = Before((c + 1) * chunk)
      <4> DEFINE p == (c + 1) * chunk
      <4>1. f = (IF p - 1 < offset + frames - 1 THEN p - 1 ELSE offset + frames - 1) - offset
        BY <3>2 DEF Scan!Ends
      <4>2. p \in Int
        BY <2>1, <3>2 DEF Sizes
      <4> HIDE DEF p
      <4>3. f + 1 = Before(p)
        BY <2>1, <2>2, <4>1, <4>2 DEF Before, Sizes
      <4> QED
        BY <4>3 DEF p
    <3>5. boundary[c + 1][1] = Scan!Recurrence(1)[f + 1]
      BY <2>1, <3>2, <3>4 DEF After
    <3> QED
      BY <3>3, <3>5 DEF Scan!Native
  <2>3. ASSUME hi + 1 \in 0 .. frames - 1 PROVE Scan!Suffix(hi + 1) = Scan!Native(hi + 1, -1)
    <3> DEFINE f == hi + 1
               c == CHOOSE c \in 0 .. N - 1 : <<f, c>> \in Scan!Starts
    <3>1. \E d \in 0 .. N - 1 : <<f, d>> \in Scan!Starts
      BY <2>3 DEF Scan!Compatible, Scan!Starts
    <3>2. c \in 0 .. N - 1 /\ <<f, c>> \in Scan!Starts
      BY <3>1
    <3>3. Scan!Suffix(f) = boundary[N - c][2]
      BY <3>1 DEF Scan!Suffix
    <3> HIDE DEF c
    <3>4. f = Before(c * chunk)
      <4> DEFINE p == c * chunk
      <4>1. f = p - offset
        BY <3>2 DEF Scan!Starts
      <4>2. p \in Int
        BY <2>1, <3>2 DEF Sizes
      <4> HIDE DEF p
      <4>3. f = Before(p)
        BY <2>1, <2>3, <4>1, <4>2 DEF Before, Sizes
      <4> QED
        BY <4>3 DEF p
    <3>5. boundary[N - c] = After(N - c) /\ N - (N - c) = c
      BY <2>1, <3>2
    <3>6. boundary[N - c][2] = Scan!Recurrence(-1)[frames - f]
      BY <3>4, <3>5 DEF After
    <3> QED
      BY <3>3, <3>6 DEF Scan!Native
  <2> QED
    BY <2>2, <2>3
<1> QED
  BY ScanInitial, ScanStep, <1>1, PTL DEF Spec

-----------------------------------------------------------------------------
(* Quotients.                                                              *)
LEMMA Quotient ==
  ASSUME NEW a \in Nat, NEW b \in Nat \ {0}
  PROVE  /\ a \div b \in Nat
         /\ b * (a \div b) <= a /\ a < b * (a \div b) + b
OBVIOUS

(* A product grows with its factors.                                       *)
LEMMA Grows ==
  ASSUME NEW a \in Nat, NEW b \in Nat, NEW c \in Nat, a <= b
  PROVE  c * a <= c * b /\ a * c <= b * c
<1>1. PICK d \in Nat : b = a + d
  BY b - a \in Nat, b = a + (b - a)
<1>2. c * b = c * a + c * d /\ b * c = a * c + d * c /\ c * d \in Nat /\ d * c \in Nat
  BY <1>1
<1>3. c * a \in Nat /\ a * c \in Nat
  OBVIOUS
<1> QED
  BY <1>2, <1>3

LEMMA VideoSlices ==
  ASSUME NEW s, {s.start, s.end, s.video_start, s.video_end} \subseteq Int
  PROVE  Layout!SliceIsMask(s, Layout!VideoSlice(s))
<1> DEFINE a == Layout!Most(0, Layout!Least(s.end - s.start, s.video_start - s.start))
           b == Layout!Most(0, Layout!Least(s.end - s.start, s.video_end - s.start))
<1>1. a \in Int /\ b \in Int
  BY DEF Layout!Least, Layout!Most
<1>2. ASSUME NEW i \in Int
      PROVE  (i \in 0 .. s.end - s.start - 1 /\ s.start + i >= s.video_start /\ s.start + i < s.video_end)
               <=> i \in a .. b - 1
  BY DEF Layout!Least, Layout!Most
<1> HIDE DEF a, b
<1>3. {i \in 0 .. s.end - s.start - 1 : s.start + i >= s.video_start /\ s.start + i < s.video_end} = a .. b - 1
  BY <1>1, <1>2
<1> QED
  BY <1>3 DEF Layout!SliceIsMask, Layout!VideoSlice, a, b

LEMMA QuerySlices ==
  ASSUME NEW s, s.video_start \in Nat, {s.frames, s.tokens} \subseteq Nat \ {0}
  PROVE  Layout!WindowRows(s, Layout!QuerySlice(s))
<1> DEFINE anchored == s.anchors \in {"rows", "both"}
           anchor == IF anchored THEN s.tokens ELSE 0
           first == s.video_start + anchor
           all == s.frames * s.tokens
           last == Layout!Most(first, s.video_start + all - anchor)
           Kept1(i) == anchored => (i \div s.tokens) \notin {0, s.frames - 1}
<1>1. s.frames \in Nat /\ s.frames > 0 /\ s.tokens \in Nat /\ s.tokens > 0 /\ all \in Nat
  OBVIOUS
<1>2. last \in Int /\ first \in Nat
  BY <1>1 DEF Layout!Most
<1>3. ASSUME NEW i \in Int
      PROVE  (i \in 0 .. all - 1 /\ Kept1(i)) <=> s.video_start + i \in first .. last - 1
  <2> DEFINE q == i \div s.tokens
  <2>1. CASE ~anchored
    BY <1>1, <2>1 DEF Layout!Most
  <2>2. CASE anchored /\ i \notin 0 .. all - 1
    BY <1>1, <2>2 DEF Layout!Most
  <2>3. CASE anchored /\ i \in 0 .. all - 1
    <3>1. q \in Nat /\ s.tokens * q <= i /\ i < s.tokens * q + s.tokens
      <4>1. i \in Nat /\ s.tokens \in Nat \ {0}
        BY <1>1, <2>3
      <4> QED
        BY <4>1, Quotient, Zenon
    <3>2. q = 0 <=> i < s.tokens
      <4>1. CASE q = 0
        BY <1>1, <3>1, <4>1
      <4>2. CASE q >= 1
        <5>1. s.tokens * 1 <= s.tokens * q
          BY <1>1, <3>1, <4>2, Grows
        <5> QED
          BY <1>1, <3>1, <4>2, <5>1
      <4> QED
        BY <3>1, <4>1, <4>2
    <3>3. q = s.frames - 1 <=> i >= all - s.tokens
      <4>1. s.tokens * (s.frames - 1) = all - s.tokens
        BY <1>1
      <4>2. CASE q = s.frames - 1
        BY <1>1, <3>1, <4>1, <4>2
      <4>3. CASE q <= s.frames - 2
        <5>1. s.tokens * (q + 1) <= s.tokens * (s.frames - 1)
          BY <1>1, <3>1, <4>3, Grows
        <5>2. s.tokens * (q + 1) = s.tokens * q + s.tokens /\ s.tokens * q \in Nat
          BY <1>1, <3>1
        <5> QED
          BY <1>1, <2>3, <3>1, <4>1, <4>3, <5>1, <5>2
      <4>4. CASE q >= s.frames
        <5>1. s.tokens * s.frames <= s.tokens * q
          BY <1>1, <3>1, <4>4, Grows
        <5>2. s.tokens * s.frames = all
          BY <1>1
        <5> QED
          BY <1>1, <2>3, <3>1, <5>1, <5>2
      <4> QED
        BY <1>1, <3>1, <4>2, <4>3, <4>4
    <3> HIDE DEF q
    <3>4. Kept1(i) <=> q # 0 /\ q # s.frames - 1
      BY <2>3 DEF q
    <3> HIDE DEF all, Kept1
    <3> QED
      BY <1>1, <2>3, <3>2, <3>3, <3>4 DEF Layout!Most
  <2> QED
    BY <2>1, <2>2, <2>3
<1> HIDE DEF all, first, last, Kept1, anchored
<1>4. {s.video_start + i : i \in {i \in 0 .. all - 1 : Kept1(i)}} = first .. last - 1
  <2>1. ASSUME NEW x \in first .. last - 1
        PROVE  \E i \in {i \in 0 .. all - 1 : Kept1(i)} : x = s.video_start + i
    <3> DEFINE i == x - s.video_start
    <3>1. i \in Int /\ x = s.video_start + i
      BY <1>2
    <3> HIDE DEF i
    <3> QED
      BY <1>3, <2>1, <3>1
  <2>2. ASSUME NEW i \in 0 .. all - 1, Kept1(i) PROVE s.video_start + i \in first .. last - 1
    BY <1>1, <1>3, <2>2
  <2> QED
    BY <2>1, <2>2
<1> QED
  BY <1>4 DEF Layout!WindowRows, Layout!QuerySlice, all, first, last, Kept1, anchored, anchor

LEMMA SamplesOfStrata ==
  ASSUME NEW s, {s.tokens, s.stride} \subseteq Nat \ {0}
  PROVE  Layout!OneOfEach(s, Layout!SampleIndices(s))
<1> DEFINE n == s.tokens
           kept == Layout!KeptTokens(s)
           out == Layout!SampleIndices(s)
<1>1. n \in Nat /\ n > 0 /\ s.stride \in Nat /\ s.stride > 0
  OBVIOUS
<1>2. kept \in Nat /\ kept >= 1 /\ kept <= n
  <2> DEFINE q == (n + s.stride - 1) \div s.stride
  <2>1. n + s.stride - 1 \in Nat /\ s.stride \in Nat \ {0}
    BY <1>1
  <2>2. q \in Nat /\ s.stride * q <= n + s.stride - 1 /\ n + s.stride - 1 < s.stride * q + s.stride
    BY <2>1, Quotient, Zenon
  <2>3. kept = q
    BY DEF Layout!KeptTokens
  <2> HIDE DEF q
  <2>4. q >= 1
    <3>1. CASE q = 0
      BY <1>1, <2>2, <3>1
    <3> QED
      BY <2>2, <3>1
  <2>5. q <= n
    <3>1. CASE q >= n + 1
      <4>1. s.stride * (n + 1) <= s.stride * q
        BY <1>1, <2>2, <3>1, Grows
      <4>2. s.stride * (n + 1) = s.stride * n + s.stride
        BY <1>1
      <4>3. 1 * n <= s.stride * n
        BY <1>1, Grows
      <4> QED
        BY <1>1, <2>2, <4>1, <4>2, <4>3
    <3> QED
      BY <1>1, <2>2, <3>1
  <2> QED
    BY <2>2, <2>3, <2>4, <2>5
<1> HIDE DEF kept
<1>3. /\ DOMAIN out = 1 .. kept /\ Len(out) = kept
      /\ \A k \in 1 .. kept : out[k] = ((2 * (k - 1) + 1) * n) \div (2 * kept)
  BY <1>2 DEF Layout!SampleIndices, kept
<1> HIDE DEF out, n
<1>4. ASSUME NEW k \in 1 .. kept
      PROVE  /\ out[k] \in Nat
             /\ 2 * (kept * out[k]) <= 2 * (k * n) - n
             /\ 2 * (k * n) - n < 2 * (kept * out[k]) + 2 * kept
  <2> DEFINE a == (2 * (k - 1) + 1) * n
             b == 2 * kept
             q == a \div b
  <2>1. k \in Nat /\ k >= 1 /\ k * n \in Nat /\ a = 2 * (k * n) - n
    BY <1>1, <1>2
  <2>2. a \in Nat /\ b \in Nat \ {0}
    <3>1. 2 * (k - 1) + 1 \in Nat
      BY <2>1
    <3> QED
      BY <1>1, <1>2, <3>1
  <2>3. out[k] = q
    BY <1>3
  <2> HIDE DEF a, b
  <2>4. q \in Nat /\ b * q <= a /\ a < b * q + b
    BY <2>2, Quotient, Zenon
  <2> HIDE DEF q
  <2>5. b * q = 2 * (kept * q) /\ kept * q \in Nat
    BY <1>2, <2>4 DEF b
  <2> QED
    BY <1>1, <1>2, <2>1, <2>3, <2>4, <2>5 DEF b
<1>5. ASSUME NEW k \in 1 .. kept
      PROVE  /\ (k - 1) * n <= out[k] * Len(out) + Len(out) - 1
             /\ out[k] * Len(out) < k * n
             /\ out[k] < n
  <2>1. k \in Nat /\ k * n \in Nat /\ (k - 1) * n = k * n - n
    BY <1>1, <1>2
  <2> DEFINE x == kept * out[k]
             y == k * n
  <2>2. out[k] \in Nat /\ out[k] * Len(out) = x /\ x \in Nat
    <3>1. \A z \in Nat : z * kept = kept * z /\ kept * z \in Nat
      BY <1>2
    <3> QED
      BY <1>3, <1>4, <3>1
  <2>3. 2 * x <= 2 * y - n /\ 2 * y - n < 2 * x + 2 * kept
    BY <1>4
  <2>4. CASE out[k] >= n
    <3>1. kept * n <= x
      BY <1>1, <1>2, <2>2, <2>4, Grows
    <3>2. y <= kept * n /\ kept * n \in Nat
      BY <1>1, <1>2, <2>1, Grows
    <3>3. y \in Nat
      BY <2>1
    <3> HIDE DEF x, y
    <3> QED
      BY <1>1, <1>2, <2>2, <2>3, <3>1, <3>2, <3>3
  <2>5. x < y /\ y - n <= x + kept - 1
    <3>1. y \in Nat
      BY <2>1
    <3> HIDE DEF x, y
    <3> QED
      BY <1>1, <1>2, <2>2, <2>3, <3>1
  <2>6. out[k] < n
    BY <1>1, <2>2, <2>4
  <2> QED
    BY <1>3, <2>1, <2>2, <2>5, <2>6
<1>6. ASSUME NEW k \in 1 .. kept, k > 1 PROVE out[k] > out[k - 1]
  <2>1. k - 1 \in 1 .. kept /\ k * n \in Nat /\ (k - 1) * n = k * n - n
    BY <1>1, <1>2, <1>6
  <2>2. out[k] \in Nat /\ out[k - 1] \in Nat
    BY <1>4, <2>1
  <2>3. 2 * ((k - 1) * n) - n >= 2 * (kept * out[k - 1]) /\ 2 * (k * n) - n < 2 * (kept * out[k]) + 2 * kept
    BY <1>4, <2>1
  <2>4. CASE out[k] <= out[k - 1]
    <3>1. kept * out[k] <= kept * out[k - 1]
      BY <1>2, <2>2, <2>4, Grows
    <3>2. kept * out[k] \in Nat /\ kept * out[k - 1] \in Nat
      BY <1>2, <2>2
    <3> QED
      BY <1>1, <1>2, <2>1, <2>3, <3>1, <3>2
  <2> QED
    BY <2>2, <2>4
<1> QED
  BY <1>3, <1>5, <1>6 DEF Layout!OneOfEach, out, n

-----------------------------------------------------------------------------
(* A prefix rounded up to a bucket.                                        *)
Bucketed(s) ==
  /\ {s.text, s.references, s.audio, s.stride} \subseteq Nat
  /\ {s.frames, s.tokens} \subseteq Nat \ {0}

LEMMA BucketTypes ==
  ASSUME NEW s, Bucketed(s)
  PROVE  /\ Layout!PrefixTokens(s) \in Nat
         /\ Layout!PrefixTokens(s) = s.text + s.references + s.audio
         /\ s.frames * s.tokens \in Nat /\ s.frames * s.tokens > 0
         /\ s.text \in Nat /\ s.references \in Nat /\ s.audio \in Nat
         /\ s.tokens \in Nat /\ s.frames \in Nat
<1>1. /\ s.text \in Nat /\ s.references \in Nat /\ s.audio \in Nat
      /\ s.tokens \in Nat /\ s.tokens > 0 /\ s.frames \in Nat /\ s.frames > 0
  BY DEF Bucketed
<1>2. 1 * 1 <= s.frames * 1 /\ s.frames * 1 <= s.frames * s.tokens
  BY <1>1, Grows
<1>3. s.frames * s.tokens \in Nat
  BY <1>1
<1> QED
  BY <1>1, <1>2, <1>3 DEF Layout!PrefixTokens

LEMMA PaddingIs ==
  ASSUME NEW s, Bucketed(s)
  PROVE  /\ Layout!Padding(s) \in Nat
         /\ s.stride = 0 => Layout!Padding(s) = 0
         /\ s.stride > 0 => /\ Layout!BucketCapacity(s) % s.stride = 0
                            /\ Layout!Padding(s) \in 0 .. s.stride - 1
<1> DEFINE p == Layout!PrefixTokens(s)
           d == s.stride
           q == (p + d - 1) \div d
<1>1. p \in Nat /\ d \in Nat
  BY BucketTypes DEF Bucketed
<1>2. CASE d = 0
  BY <1>1, <1>2 DEF Layout!Padding, Layout!BucketCapacity
<1>3. CASE d > 0
  <2>1. Layout!BucketCapacity(s) = q * d /\ Layout!Padding(s) = q * d - p
    BY <1>1, <1>3 DEF Layout!Padding, Layout!BucketCapacity
  <2> HIDE DEF p, d
  <2>2. p + d - 1 \in Nat /\ d \in Nat \ {0}
    BY <1>1, <1>3
  <2>3. q \in Nat /\ d * q <= p + d - 1 /\ p + d - 1 < d * q + d
    BY <2>2, Quotient, Zenon
  <2> HIDE DEF q
  <2>4. q * d = d * q /\ d * q \in Nat
    BY <1>1, <2>3
  <2>5. (q * d) % d = 0
    <3> DEFINE m == q * d
               r == m % d
               e == m \div d
    <3>1. m \in Nat
      BY <2>4
    <3>2. r \in 0 .. d - 1 /\ m = d * e + r /\ e \in Nat
      BY <1>1, <1>3, <3>1
    <3> HIDE DEF r, e
    <3>3. CASE q <= e
      <4>1. d * q <= d * e
        BY <1>1, <2>3, <3>2, <3>3, Grows
      <4> QED
        BY <1>1, <2>4, <3>2, <4>1 DEF r
    <3>4. CASE q >= e + 1
      <4>1. d * (e + 1) <= d * q /\ d * (e + 1) = d * e + d
        BY <1>1, <2>3, <3>2, <3>4, Grows
      <4> QED
        BY <1>1, <2>4, <3>2, <4>1
    <3> QED
      BY <2>3, <3>2, <3>3, <3>4
  <2> QED
    BY <1>1, <1>3, <2>1, <2>3, <2>4, <2>5 DEF d
<1> QED
  BY <1>1, <1>2, <1>3

(* With the gap, rows look at the rows they looked at before.              *)
LEMMA GapsUnseen ==
  ASSUME NEW s, Bucketed(s)
  PROVE  Layout!GapUnseen(s, Layout!IsolatedMask(s))
<1> DEFINE p == Layout!PrefixTokens(s)
           d == Layout!Padding(s)
           v == s.frames * s.tokens
           Moved(i) == IF i < p THEN i ELSE i + d
           out == Layout!IsolatedMask(s)
<1>1. p \in Nat /\ d \in Nat /\ v \in Nat
  BY BucketTypes, PaddingIs
<1> DEFINE L == Len(Layout!NativeRows(s))
<1>2. L = p + v
  BY <1>1 DEF Layout!NativeRows
<1> HIDE DEF L
<1>3. ASSUME NEW q \in 0 .. L - 1, NEW k \in 0 .. L - 1
      PROVE  Layout!Looks(s, p + d, Moved(q), Moved(k)) <=> Layout!Looks(s, p, q, k)
  <2>1. CASE q < p \/ k < p
    <3>1. Layout!Looks(s, p, q, k)
      BY <1>1, <1>2, <2>1 DEF Layout!Looks
    <3>2. Layout!Looks(s, p + d, Moved(q), Moved(k))
      BY <1>1, <1>2, <2>1 DEF Layout!Looks
    <3> QED
      BY <3>1, <3>2
  <2>2. CASE q >= p /\ k >= p
    <3>1. Moved(q) - (p + d) = q - p /\ Moved(k) - (p + d) = k - p
      BY <1>1, <1>2, <2>2
    <3>2. /\ Moved(q) >= p + d /\ Moved(k) >= p + d
          /\ Moved(q) < p + d + v /\ Moved(k) < p + d + v
          /\ q >= p /\ k >= p /\ q < p + v /\ k < p + v
      BY <1>1, <1>2, <2>2
    <3> HIDE DEF p, d, Moved
    <3> QED
      BY <3>1, <3>2 DEF Layout!Looks
  <2> QED
    BY <1>1, <1>2, <2>1, <2>2
<1>4. out = {r \in (0 .. p + d + v - 1) \X (0 .. p + d + v - 1) :
               Layout!Looks(s, p + d, r[1], r[2]) /\ (r[2] < p \/ r[2] >= p + d)}
  BY DEF Layout!IsolatedMask
<1> HIDE DEF p, d, v, out
<1>5. ASSUME NEW q \in 0 .. L - 1
      PROVE  {r[2] : r \in {r \in out : r[1] = Moved(q)}}
               = {Moved(k) : k \in {k \in 0 .. L - 1 : Layout!Looks(s, p, q, k)}}
  <2>1. ASSUME NEW r \in out, r[1] = Moved(q)
        PROVE  \E k \in {k \in 0 .. L - 1 : Layout!Looks(s, p, q, k)} : r[2] = Moved(k)
    <3> DEFINE k == IF r[2] < p THEN r[2] ELSE r[2] - d
    <3>1. /\ r[2] \in 0 .. p + d + v - 1 /\ Layout!Looks(s, p + d, Moved(q), r[2])
          /\ r[2] < p \/ r[2] >= p + d
      BY <1>4, <2>1
    <3>2. k \in 0 .. L - 1 /\ r[2] = Moved(k)
      BY <1>1, <1>2, <3>1
    <3> HIDE DEF k, Moved
    <3> QED
      BY <1>3, <3>1, <3>2
  <2>2. ASSUME NEW k \in 0 .. L - 1, Layout!Looks(s, p, q, k)
        PROVE  \E r \in out : r[1] = Moved(q) /\ r[2] = Moved(k)
    <3>1. Layout!Looks(s, p + d, Moved(q), Moved(k))
      BY <1>3, <2>2
    <3>2. /\ Moved(q) \in 0 .. p + d + v - 1 /\ Moved(k) \in 0 .. p + d + v - 1
          /\ Moved(k) < p \/ Moved(k) >= p + d
      BY <1>1, <1>2
    <3> HIDE DEF Moved
    <3>3. <<Moved(q), Moved(k)>> \in out
      BY <1>4, <3>1, <3>2
    <3> QED
      BY <3>3
  <2> HIDE DEF Moved
  <2> QED
    BY <2>1, <2>2
<1> QED
  BY <1>5 DEF Layout!GapUnseen, p, d, out, L

(* Bucketed rows: the prefix, the gap, the video.                          *)
LEMMA RowsAre ==
  ASSUME NEW s, Bucketed(s)
  PROVE  LET p == Layout!PrefixTokens(s)
             d == Layout!Padding(s)
             n == p + s.frames * s.tokens
             laid == Layout!PackLayout(s).rows
         IN  /\ DOMAIN laid = 1 .. n + d
             /\ \A k \in 1 .. n + d : laid[k] = IF k <= p THEN k ELSE IF k <= p + d THEN 0 ELSE k - d
<1> DEFINE p == Layout!PrefixTokens(s)
           d == Layout!Padding(s)
           v == s.frames * s.tokens
           n == p + v
           native == Layout!NativeRows(s)
           gap == [k \in 1 .. d |-> 0]
           prefix == SubSeq(native, 1, p)
           video == SubSeq(native, p + 1, n)
           laid == Layout!PackLayout(s).rows
<1>1. p \in Nat /\ d \in Nat /\ v \in Nat /\ v > 0 /\ s.references \in Nat
  BY BucketTypes, PaddingIs
<1>2. native = [k \in 1 .. n |-> k]
  BY DEF Layout!NativeRows
<1>3. Layout!NativeVideo(s)[s.references + 1] - 1 = p
  <2>1. s.references + 1 \in 1 .. s.references + v
    BY <1>1
  <2>2. Layout!NativeVideo(s)[s.references + 1] = p + (s.references + 1) - s.references
    BY <1>1, <2>1 DEF Layout!NativeVideo
  <2> QED
    BY <1>1, <2>2
<1>4. native \in Seq(Nat) /\ Len(native) = n
  BY <1>1, <1>2
<1>5. laid = prefix \o gap \o video
  BY <1>3, <1>4 DEF Layout!PackLayout
<1> HIDE DEF p, d, v, native, laid
<1>6. /\ prefix \in Seq(Nat) /\ Len(prefix) = p
      /\ \A k \in 1 .. p : prefix[k] = k
  BY <1>1, <1>2, <1>4, SubSeqProperties
<1>7. /\ video \in Seq(Nat) /\ Len(video) = v
      /\ \A k \in 1 .. v : video[k] = p + k
  BY <1>1, <1>2, <1>4, SubSeqProperties
<1>8. gap \in Seq(Nat) /\ Len(gap) = d /\ \A k \in 1 .. d : gap[k] = 0
  BY <1>1
<1> HIDE DEF prefix, gap, video
<1> DEFINE both == prefix \o gap
<1>9. /\ both \in Seq(Nat) /\ Len(both) = p + d
      /\ \A k \in 1 .. p + d : both[k] = IF k <= p THEN prefix[k] ELSE gap[k - p]
  BY <1>6, <1>8, ConcatProperties, ZenonT(60)
<1> HIDE DEF both
<1>10. /\ laid \in Seq(Nat) /\ Len(laid) = p + d + v
       /\ \A k \in 1 .. p + d + v : laid[k] = IF k <= p + d THEN both[k] ELSE video[k - (p + d)]
  <2>1. laid = both \o video
    BY <1>5 DEF both
  <2>2. /\ Len(both \o video) = Len(both) + Len(video)
        /\ both \o video \in Seq(Nat)
        /\ \A k \in 1 .. Len(both) + Len(video) :
             (both \o video)[k] = IF k <= Len(both) THEN both[k] ELSE video[k - Len(both)]
    BY <1>7, <1>9, ConcatProperties
  <2> QED
    BY <1>7, <1>9, <2>1, <2>2
<1>11. DOMAIN laid = 1 .. n + d
  BY <1>1, <1>10, LenProperties
<1>12. ASSUME NEW k \in 1 .. n + d
       PROVE  laid[k] = IF k <= p THEN k ELSE IF k <= p + d THEN 0 ELSE k - d
  <2>1. k \in 1 .. p + d + v
    BY <1>1
  <2>2. CASE k <= p
    BY <1>1, <1>6, <1>9, <1>10, <2>1, <2>2
  <2>3. CASE k > p /\ k <= p + d
    <3>1. k \in 1 .. p + d /\ k - p \in 1 .. d
      BY <1>1, <2>3
    <3> QED
      BY <1>1, <1>8, <1>9, <1>10, <2>1, <2>3, <3>1
  <2>4. CASE k > p + d
    <3>1. k - (p + d) \in 1 .. v /\ p + (k - (p + d)) = k - d
      BY <1>1, <2>1, <2>4
    <3> QED
      BY <1>1, <1>7, <1>10, <2>1, <2>4, <3>1
  <2> QED
    BY <1>1, <2>2, <2>3, <2>4
<1> QED
  BY <1>11, <1>12 DEF p, d, v, laid

LEMMA OnlyAGap ==
  ASSUME NEW s, Bucketed(s)
  PROVE  Layout!GapOnly(s, Layout!PackLayout(s))
<1> DEFINE p == Layout!PrefixTokens(s)
           d == Layout!Padding(s)
           v == s.frames * s.tokens
           n == p + v
           out == Layout!PackLayout(s)
           native == Layout!NativeVideo(s)
<1>1. /\ p \in Nat /\ d \in Nat /\ v \in Nat /\ v > 0 /\ p = s.text + s.references + s.audio
      /\ s.references \in Nat /\ s.text \in Nat /\ s.audio \in Nat /\ s.stride \in Nat
  BY BucketTypes, PaddingIs DEF Bucketed
<1>2. /\ DOMAIN out.rows = 1 .. n + d
      /\ \A k \in 1 .. n + d : out.rows[k] = IF k <= p THEN k ELSE IF k <= p + d THEN 0 ELSE k - d
  BY RowsAre
<1>3. /\ DOMAIN native = 1 .. s.references + v
      /\ \A k \in 1 .. s.references + v :
           native[k] = IF k <= s.references THEN s.text + k ELSE p + k - s.references
  BY DEF Layout!NativeVideo
<1>4. /\ DOMAIN out.video = 1 .. s.references + v
      /\ \A k \in 1 .. s.references + v :
           out.video[k] = IF k <= s.references THEN native[k] ELSE native[k] + d
  BY <1>3 DEF Layout!PackLayout
<1>5. Len(Layout!NativeRows(s)) = n
  BY <1>1 DEF Layout!NativeRows
<1> DEFINE laid == out.rows
           shown == out.video
<1> HIDE DEF p, d, v, out, native, laid, shown
<1>11. n \in Nat /\ n >= p /\ n + d \in Nat
  BY <1>1
<1>12. DOMAIN laid = 1 .. n + d /\ DOMAIN shown = 1 .. s.references + v
  BY <1>2, <1>4 DEF laid, shown
<1>13. ASSUME NEW k \in 1 .. n + d
       PROVE  laid[k] = IF k <= p THEN k ELSE IF k <= p + d THEN 0 ELSE k - d
  BY <1>2 DEF laid
<1>14. n = p + v
  OBVIOUS
<1>15. ASSUME NEW k \in 1 .. s.references + v
       PROVE  /\ native[k] = IF k <= s.references THEN s.text + k ELSE p + k - s.references
              /\ shown[k] = IF k <= s.references THEN native[k] ELSE native[k] + d
  BY <1>3, <1>4 DEF shown
<1> HIDE DEF n
<1>6. {laid[k] : k \in DOMAIN laid} \ {0} = 1 .. n
  <2>1. ASSUME NEW k \in 1 .. n + d, laid[k] # 0 PROVE laid[k] \in 1 .. n
    BY <1>1, <1>11, <1>13, <1>14, <2>1
  <2>2. ASSUME NEW x \in 1 .. n
        PROVE  \E k \in 1 .. n + d : laid[k] = x /\ x # 0
    <3>1. CASE x <= p
      <4>1. x \in 1 .. n + d /\ laid[x] = x
        BY <1>1, <1>11, <1>13, <1>14, <3>1
      <4> QED
        BY <1>1, <1>11, <4>1
    <3>2. CASE x > p
      <4>1. x + d \in 1 .. n + d /\ laid[x + d] = x
        BY <1>1, <1>11, <1>13, <1>14, <3>2
      <4> QED
        BY <1>1, <1>11, <4>1
    <3> QED
      BY <1>1, <3>1, <3>2
  <2> QED
    BY <1>12, <1>13, <2>1, <2>2
<1>7. ASSUME NEW j \in 1 .. n + d, NEW k \in 1 .. n + d,
             j < k, laid[j] # 0, laid[k] # 0
      PROVE  laid[j] < laid[k]
  BY <1>1, <1>11, <1>13, <1>14, <1>7
<1>8. ASSUME NEW k \in 1 .. s.references + v PROVE laid[shown[k]] = native[k]
  <2>1. CASE k <= s.references
    <3>1. shown[k] = s.text + k /\ native[k] = s.text + k
      BY <1>15, <2>1
    <3>2. s.text + k \in 1 .. n + d /\ s.text + k <= p
      BY <1>1, <1>11, <1>14, <2>1
    <3> QED
      BY <1>12, <1>13, <3>1, <3>2
  <2>2. CASE k > s.references
    <3> DEFINE x == p + k - s.references
    <3>1. shown[k] = x + d /\ native[k] = x
      BY <1>1, <1>15, <2>2
    <3>2. x \in Nat /\ x + d \in 1 .. n + d /\ x > p /\ x + d - d = x
      BY <1>1, <1>14, <2>2
    <3> HIDE DEF x
    <3> QED
      BY <1>1, <1>13, <3>1, <3>2
  <2> QED
    BY <1>1, <2>1, <2>2
<1>9. ASSUME NEW k \in 1 .. s.text + s.references + s.audio PROVE laid[k] = k
  BY <1>1, <1>11, <1>13, <1>14
<1>10. /\ s.stride > 0 => Layout!BucketCapacity(s) % s.stride = 0 /\ d \in 0 .. s.stride - 1
       /\ s.stride = 0 => d = 0
  BY PaddingIs DEF d
<1> QED
  BY <1>12, <1>3, <1>5, <1>6, <1>7, <1>8, <1>9, <1>10 DEF Layout!GapOnly, out, native, d, laid, shown

-----------------------------------------------------------------------------
(* What is computed is computed from one of the inputs.                    *)
LayoutInv ==
  part = "layout" => input \in Inputs /\ output \in {<<>>, <<Layout!Computed(input)>>}

LEMMA LayoutInitial == Init => LayoutInv
BY DEF Init, Choice, LayoutInv, Layout!LayoutsInit

LEMMA LayoutStep == LayoutInv /\ [Next]_pvars => LayoutInv'
<1> SUFFICES ASSUME LayoutInv, [Next]_pvars PROVE LayoutInv'
  OBVIOUS
<1>1. ASSUME UNCHANGED <<part, layoutVars>> PROVE LayoutInv'
  BY <1>1 DEF LayoutInv, layoutVars, Layout!Computed
<1>2. CASE LayoutMoves
  <2>1. UNCHANGED <<part, input>> /\ output' = <<Layout!Computed(input)>>
    BY <1>2 DEF LayoutMoves, Layout!LayoutsNext, Layout!Evaluate
  <2>2. Layout!Computed(input)' = Layout!Computed(input)
    BY <2>1
  <2> QED
    BY <2>1, <2>2 DEF LayoutInv
<1>3. CASE CacheMoves \/ ScopeMoves \/ CudaMoves \/ VaeMoves \/ ScanMoves \/ ExactMoves
  BY <1>1, <1>3 DEF CacheMoves, ScopeMoves, CudaMoves, VaeMoves, ScanMoves, ExactMoves
<1>4. CASE UNCHANGED pvars
  BY <1>1, <1>4 DEF pvars
<1> QED
  BY <1>2, <1>3, <1>4 DEF Next

(* For all sizes and placements: a prefix is filled up to its bucket and   *)
(* the gap is seen by nobody, slices have the rows their masks select, and *)
(* each stratum of a frame gives one sample.                               *)
THEOREM RowsAgree == Spec => []RowsAsReference
<1>1. LayoutInv => RowsAsReference
  <2> SUFFICES ASSUME LayoutInv, part = "layout", output # <<>> PROVE
                 /\ input.kind = "bucket" => Layout!GapOnly(input, output[1])
                 /\ input.kind = "mask"   => Layout!GapUnseen(input, output[1])
                 /\ input.kind = "video"  => Layout!SliceIsMask(input, output[1])
                 /\ input.kind = "query"  => Layout!WindowRows(input, output[1])
                 /\ input.kind = "sample" => Layout!OneOfEach(input, output[1])
    BY DEF RowsAsReference, Layout!RowsAsReference
  <2>1. input \in Inputs /\ output[1] = Layout!Computed(input)
    BY DEF LayoutInv
  <2>2. input.kind \in {"bucket", "mask"} => Bucketed(input)
    BY <2>1, LayoutAssumption DEF Bucketed
  <2>3. CASE input.kind = "bucket"
    <3>1. output[1] = Layout!PackLayout(input)
      BY <2>1, <2>3 DEF Layout!Computed
    <3> QED
      BY <2>2, <2>3, <3>1, OnlyAGap
  <2>4. CASE input.kind = "mask"
    <3>1. output[1] = Layout!IsolatedMask(input)
      BY <2>1, <2>4 DEF Layout!Computed
    <3> QED
      BY <2>2, <2>4, <3>1, GapsUnseen
  <2>5. CASE input.kind = "video"
    <3>1. output[1] = Layout!VideoSlice(input)
      BY <2>1, <2>5 DEF Layout!Computed
    <3>2. {input.start, input.end, input.video_start, input.video_end} \subseteq Int
      BY <2>1, <2>5, LayoutAssumption
    <3> QED
      BY <2>5, <3>1, <3>2, VideoSlices
  <2>6. CASE input.kind = "query"
    <3>1. output[1] = Layout!QuerySlice(input)
      BY <2>1, <2>6 DEF Layout!Computed
    <3>2. input.video_start \in Nat /\ {input.frames, input.tokens} \subseteq Nat \ {0}
      BY <2>1, <2>6, LayoutAssumption
    <3> QED
      BY <2>6, <3>1, <3>2, QuerySlices
  <2>7. CASE input.kind = "sample"
    <3>1. output[1] = Layout!SampleIndices(input)
      BY <2>1, <2>7 DEF Layout!Computed
    <3>2. {input.tokens, input.stride} \subseteq Nat \ {0}
      BY <2>1, <2>7, LayoutAssumption
    <3> QED
      BY <2>7, <3>1, <3>2, SamplesOfStrata
  <2> QED
    BY <2>3, <2>4, <2>5, <2>6, <2>7
<1> QED
  BY LayoutInitial, LayoutStep, <1>1, PTL DEF Spec

(* Scans by chunks and rows of fast layouts are those of the plain code.   *)
THEOREM FastIsPlain == Spec => []AsReference
<1>1. RowsAsReference /\ ScansAsNative => AsReference
  BY DEF AsReference
<1> QED
  BY RowsAgree, BoundaryScansAgree, <1>1, PTL

-----------------------------------------------------------------------------
(* Contents that storage can have, the initial one included.               *)
Held == Contents \union {CHOOSE c \in Contents : TRUE}

Entries == (Addresses \X Nat \X BOOLEAN) \X (Names \X Held \X BOOLEAN) \X Addresses

(* A cached entry is the constant of its tensor, as long as that has kept  *)
(* the version it was computed from; versions of a kept tensor only grow.  *)
Faithful(name, e) ==
  /\ e \in Entries
  /\ e[1][1] = e[3] /\ e[1][3] = e[2][3] /\ e[2][1] = name
  /\ e[1][2] <= version[e[3]]
  /\ e[1][2] = version[e[3]] => e[2][2] = content[e[3]]

ExactInv ==
  /\ bound \in [Names -> Addresses \union {0}]
  /\ version \in [Addresses -> Nat]
  /\ content \in [Addresses -> Held]
  /\ autocast \in BOOLEAN
  /\ values \in [Names -> Entries \union {<<>>}]
  /\ \A name \in Names : values[name] # <<>> => Faithful(name, values[name])
  /\ ConstantsAreCurrent

USE DEF Exact!None, ConstantsAreCurrent, Exact!ConstantsAreCurrent

LEMMA ExactInitial == Init => ExactInv
<1> SUFFICES ASSUME Exact!ExactInit
             PROVE  ExactInv
  BY DEF Init
<1>1. values \in [Names -> Entries \union {<<>>}] /\ \A name \in Names : values[name] = <<>>
  BY DEF Exact!ExactInit, Exact!Empty
<1> QED
  BY <1>1 DEF Exact!ExactInit, ExactInv, Held

LEMMA ExactStep ==
  ASSUME ExactInv, [Next]_pvars
  PROVE  ExactInv'
<1> USE DEF ExactInv
<1>1. CASE UNCHANGED exactVars
  BY <1>1 DEF exactVars, Faithful
<1>2. CASE Exact!Enter \/ Exact!Exit
  BY <1>2 DEF Exact!Enter, Exact!Exit, Exact!Empty, Faithful
<1>3. CASE Exact!ToggleAutocast
  BY <1>3 DEF Exact!ToggleAutocast, Faithful
<1>4. ASSUME NEW n \in Names, NEW a \in Addresses, NEW c \in Contents, Exact!Allocate(n, a, c)
      PROVE  ExactInv'
  <2>1. /\ values' = values /\ answer' = answer /\ autocast' = autocast
        /\ bound' \in [Names -> Addresses \union {0}]
        /\ version' \in [Addresses -> Nat] /\ content' \in [Addresses -> Held]
        /\ \A b \in Addresses \ {a} : version'[b] = version[b] /\ content'[b] = content[b]
    BY <1>4 DEF Exact!Allocate, Held
  <2>2. \A name \in Names : values[name] # <<>> => values[name][3] # a
    BY <1>4 DEF Exact!Allocate, Exact!KeptAlive
  <2>3. ASSUME NEW name \in Names, values[name] # <<>>
        PROVE  Faithful(name, values[name])'
    <3>1. Faithful(name, values[name]) /\ values[name][3] \in Addresses \ {a}
      BY <2>2, <2>3 DEF Faithful, Entries
    <3> QED
      BY <2>1, <3>1 DEF Faithful
  <2> QED
    BY <2>1, <2>3
<1>5. ASSUME NEW n \in Names, Exact!Drop(n)
      PROVE  ExactInv'
  BY <1>5 DEF Exact!Drop, Faithful
<1>6. ASSUME NEW n \in Names, NEW c \in Contents, Exact!Overwrite(n, c)
      PROVE  ExactInv'
  <2> DEFINE a == bound[n]
  <2>1. /\ a \in Addresses /\ values' = values /\ answer' = answer /\ autocast' = autocast
        /\ bound' = bound
        /\ version' \in [Addresses -> Nat] /\ content' \in [Addresses -> Held]
        /\ version'[a] = version[a] + 1
        /\ \A b \in Addresses \ {a} : version'[b] = version[b] /\ content'[b] = content[b]
    BY <1>6 DEF Exact!Overwrite, Held
  <2>2. ASSUME NEW name \in Names, values[name] # <<>>
        PROVE  Faithful(name, values[name])'
    <3> DEFINE e == values[name]
    <3>1. Faithful(name, e) /\ e[3] \in Addresses /\ e[1][2] \in Nat
      BY <2>2 DEF Faithful, Entries
    <3>2. CASE e[3] = a
      <4>1. e[1][2] <= version'[a] /\ e[1][2] # version'[a]
        BY <2>1, <3>1, <3>2 DEF Faithful
      <4> QED
        BY <2>1, <3>1, <3>2, <4>1 DEF Faithful
    <3>3. CASE e[3] # a
      BY <2>1, <3>1, <3>3 DEF Faithful
    <3> QED
      BY <3>2, <3>3
  <2> QED
    BY <2>1, <2>2
<1>7. ASSUME NEW n \in Names, Exact!Constant(n)
      PROVE  ExactInv'
  <2> DEFINE a == bound[n]
             fresh == Exact!Compute(n, a)
             new == <<Exact!TensorKey(a), fresh, a>>
  <2>1. a \in Addresses /\ UNCHANGED <<bound, content, version, autocast>>
    BY <1>7 DEF Exact!Constant
  <2>2. CASE values[n] # <<>> /\ values[n][1] = Exact!TensorKey(a)
    <3>1. values' = values /\ answer' = <<values[n][2], fresh>>
      BY <1>7, <2>2 DEF Exact!Constant
    <3>2. Faithful(n, values[n])
      BY <2>2
    <3>3. values[n][2] = <<n, content[a], autocast>>
      BY <2>1, <2>2, <3>2 DEF Faithful, Entries, Exact!TensorKey
    <3> QED
      BY <2>1, <3>1, <3>3 DEF Faithful, Exact!Compute
  <2>3. CASE ~(values[n] # <<>> /\ values[n][1] = Exact!TensorKey(a))
    <3>1. values' = [values EXCEPT ![n] = new] /\ answer' = <<values'[n][2], fresh>>
      BY <1>7, <2>3 DEF Exact!Constant
    <3>2. Faithful(n, new)
      BY <2>1 DEF Faithful, Entries, Exact!TensorKey, Exact!Compute
    <3>3. new \in Entries /\ values'[n] = new
      BY <3>1, <3>2 DEF Faithful
    <3>4. answer' = <<fresh, fresh>>
      BY <3>1, <3>3
    <3>5. values' = [values EXCEPT ![n] = new]
      BY <3>1
    <3>6. values' \in [Names -> Entries \union {<<>>}]
      <4> HIDE DEF new
      <4> QED
        BY <3>3, <3>5
    <3>7. ASSUME NEW name \in Names, values'[name] # <<>>
          PROVE  Faithful(name, values[name])'
      <4>1. Faithful(name, values'[name])
        <5>1. CASE name = n
          BY <3>2, <3>3, <5>1, Zenon
        <5>2. CASE name # n
          <6>1. values'[name] = values[name]
            <7> HIDE DEF new
            <7> QED
              BY <3>5, <5>2
          <6> QED
            BY <3>7, <6>1
        <5> QED
          BY <5>1, <5>2
      <4> QED
        BY <2>1, <4>1 DEF Faithful
    <3> QED
      BY <2>1, <3>4, <3>6, <3>7
  <2> QED
    BY <2>2, <2>3
<1> QED
  BY <1>1, <1>2, <1>3, <1>4, <1>5, <1>6, <1>7 DEF Next, pvars, ExactMoves, Exact!ExactNext,
    CacheMoves, ScopeMoves, CudaMoves, VaeMoves, ScanMoves, LayoutMoves

(* Neither storage that was handed out again nor one written in place is   *)
(* taken for the tensor a constant was computed from.                      *)
THEOREM CurrentConstants == Spec => []ConstantsAreCurrent
<1>1. ExactInv => ConstantsAreCurrent
  BY DEF ExactInv
<1> QED
  BY ExactInitial, ExactStep, <1>1, PTL DEF Spec

-----------------------------------------------------------------------------
(* What leaving linear_kv restores, when m are the methods by then.        *)
WithoutReadout(m) == [b \in Branches |-> [m[b] EXCEPT !.readout = Scope!Native]]

Places ==
  /\ phase \in {"idle", "selecting", "dead"} => open = 0
  /\ phase = "entering" => open \in 0 .. 5
  /\ phase = "denoising" => open = 6
  /\ phase = "leaving" => open \in 1 .. 6

(* Scopes are left as they were entered, the last one first: what each one *)
(* puts back is what it has found, or leads back to it.                    *)
ScopeInv ==
  /\ phase \in {"idle", "selecting", "entering", "denoising", "leaving", "dead"}
  /\ Places
  /\ open = 0 => profiling = FALSE
  /\ open \in 0 .. 2 => methods = Scope!Untouched
  /\ open = 3 => WithoutReadout(methods) = Scope!Untouched
  /\ open \in 4 .. 6 => WithoutReadout(saved["acceleration"]) = Scope!Untouched
  /\ open \in 0 .. 5 => softmax = Scope!Native
  /\ DOMAIN saved = {"acceleration", "fine"} /\ saved = [s \in DOMAIN saved |-> saved[s]]

USE DEF Scope!Scopes

LEMMA ScopeInitial == Init => ScopeInv
<1> SUFFICES ASSUME Scope!Init
             PROVE  ScopeInv
  BY DEF Init
<1> QED
  BY DEF Scope!Init, ScopeInv, Places

(* Where a scope is entered, and what becomes of the place.                *)
LEMMA EnteringAt ==
  ASSUME ScopeInv, NEW k \in 1 .. 6, Scope!Entering(Scope!Scopes[k])
  PROVE  open = k - 1 /\ phase = "entering"
BY DEF Scope!Entering, ScopeInv, Places

LEMMA EnteredPlaces ==
  ASSUME ScopeInv, phase = "entering", Scope!Entered \/ (Scope!Raise /\ open > 0)
  PROVE  /\ Places' /\ phase' \in {"entering", "denoising", "leaving"}
         /\ Scope!Entered => open' = open + 1
         /\ Scope!Raise => open' = open
BY DEF ScopeInv, Places, Scope!Entered, Scope!Raise

LEMMA ScopeStep ==
  ASSUME ScopeInv, [Next]_pvars
  PROVE  ScopeInv'
<1>1. CASE UNCHANGED scopeVars
  BY <1>1 DEF scopeVars, ScopeInv, Places, WithoutReadout
<1>2. CASE \E o \in Scope!Options, w \in BOOLEAN : Scope!Begin(o, w)
  BY <1>2 DEF Scope!Begin, ScopeInv, Places, WithoutReadout
<1>3. CASE Scope!Select
  BY <1>3 DEF Scope!Select, ScopeInv, Places, WithoutReadout
<1>4. CASE Scope!EnterDit
  <2>1. open = 0 /\ phase = "entering"
    BY <1>4, EnteringAt DEF Scope!EnterDit
  <2>2. open' = 1 /\ Places' /\ phase' \in {"entering", "denoising", "leaving"}
    BY <1>4, <2>1, EnteredPlaces DEF Scope!EnterDit
  <2> QED
    BY <1>4, <2>1, <2>2 DEF Scope!EnterDit, ScopeInv
<1>5. CASE Scope!EnterExact
  <2>1. open = 1 /\ phase = "entering"
    BY <1>5, EnteringAt DEF Scope!EnterExact
  <2>2. open' = 2 /\ Places' /\ phase' \in {"entering", "denoising", "leaving"}
    BY <1>5, <2>1, EnteredPlaces DEF Scope!EnterExact
  <2> QED
    BY <1>5, <2>1, <2>2 DEF Scope!EnterExact, ScopeInv
<1>6. CASE Scope!EnterLinear
  <2>1. open = 2 /\ phase = "entering"
    BY <1>6, EnteringAt DEF Scope!EnterLinear
  <2>2. open' = 3 /\ Places' /\ phase' \in {"entering", "denoising", "leaving"}
    BY <1>6, <2>1, EnteredPlaces DEF Scope!EnterLinear
  <2>3. WithoutReadout(methods') = Scope!Untouched
    <3>1. methods = Scope!Untouched
      BY <2>1 DEF ScopeInv
    <3> DEFINE R == IF opts.sampling \/ profiling THEN {"sampled"} ELSE Scope!Native
    <3>2. methods' = [b \in Branches |-> [methods[b] EXCEPT !.readout = R]]
      BY <1>6 DEF Scope!EnterLinear
    <3>3. \A b \in Branches : [methods'[b] EXCEPT !.readout = Scope!Native] = methods[b]
      <4> SUFFICES ASSUME NEW b \in Branches
                   PROVE  [methods'[b] EXCEPT !.readout = Scope!Native] = methods[b]
        OBVIOUS
      <4>1. methods[b] = [a \in Scope!Attrs |-> Scope!Native]
        BY <3>1 DEF Scope!Untouched
      <4>2. methods'[b] = [a \in Scope!Attrs |-> IF a = "readout" THEN R ELSE Scope!Native]
        BY <3>2, <4>1 DEF Scope!Attrs
      <4> QED
        BY <4>1, <4>2 DEF Scope!Attrs
    <3> QED
      BY <3>1, <3>3 DEF WithoutReadout, Scope!Untouched
  <2> QED
    <3>1. UNCHANGED <<softmax, saved>>
      BY <1>6 DEF Scope!EnterLinear
    <3> QED
      BY <2>1, <2>2, <2>3, <3>1 DEF ScopeInv, WithoutReadout
<1>7. CASE Scope!EnterAcceleration
  <2>1. open = 3 /\ phase = "entering"
    BY <1>7, EnteringAt DEF Scope!EnterAcceleration
  <2>2. open' \in {3, 4} /\ Places' /\ phase' \in {"entering", "denoising", "leaving"}
    BY <1>7, <2>1, EnteredPlaces DEF Scope!EnterAcceleration
  <2>3. saved' = [saved EXCEPT !["acceleration"] = methods]
    BY <1>7 DEF Scope!EnterAcceleration
  <2>4. /\ DOMAIN saved' = {"acceleration", "fine"} /\ saved' = [s \in DOMAIN saved' |-> saved'[s]]
        /\ saved'["acceleration"] = methods
    BY <2>3 DEF ScopeInv
  <2>5. WithoutReadout(methods) = Scope!Untouched /\ softmax' = Scope!Native
    BY <1>7, <2>1 DEF ScopeInv, Scope!EnterAcceleration
  <2>6. open' = 3 => methods' = methods
    BY <1>7, <2>1 DEF Scope!EnterAcceleration, Scope!Entered
  <2> QED
    BY <1>7, <2>2, <2>4, <2>5, <2>6 DEF ScopeInv, WithoutReadout
<1>8. CASE Scope!EnterDual
  <2>1. open = 4 /\ phase = "entering"
    BY <1>8, EnteringAt DEF Scope!EnterDual
  <2>2. open' \in {4, 5} /\ Places' /\ phase' \in {"entering", "denoising", "leaving"}
    BY <1>8, <2>1, EnteredPlaces DEF Scope!EnterDual
  <2> QED
    BY <1>8, <2>1, <2>2 DEF Scope!EnterDual, ScopeInv, WithoutReadout
<1>9. CASE Scope!EnterFine
  <2>1. open = 5 /\ phase = "entering"
    BY <1>9, EnteringAt DEF Scope!EnterFine
  <2>2. open' \in {5, 6} /\ Places' /\ phase' \in {"entering", "denoising", "leaving"}
    BY <1>9, <2>1, EnteredPlaces DEF Scope!EnterFine
  <2>3. /\ DOMAIN saved' = {"acceleration", "fine"} /\ saved' = [s \in DOMAIN saved' |-> saved'[s]]
        /\ saved'["acceleration"] = saved["acceleration"]
    <3>1. CASE saved' = saved
      BY <3>1 DEF ScopeInv
    <3>2. CASE saved' = [saved EXCEPT !["fine"] = methods]
      BY <3>2 DEF ScopeInv
    <3> QED
      BY <1>9, <3>1, <3>2 DEF Scope!EnterFine
  <2>4. open' = 5 => softmax' = softmax
    BY <1>9, <2>1 DEF Scope!EnterFine, Scope!Entered
  <2> QED
    BY <2>1, <2>2, <2>3, <2>4 DEF ScopeInv, WithoutReadout
<1>10. CASE Scope!Denoise
  BY <1>10 DEF Scope!Denoise, ScopeInv, Places, WithoutReadout
<1>11. CASE Scope!Leave
  <2>1. /\ open \in 1 .. 6 /\ open' = open - 1 /\ saved' = saved
        /\ phase' \in {"leaving", "dead", "idle"} /\ Places'
    BY <1>11 DEF Scope!Leave, ScopeInv, Places
  <2>2. CASE open = 1
    <3>1. methods' = methods /\ profiling' = FALSE /\ softmax' = softmax
      BY <1>11, <2>2 DEF Scope!Leave, Scope!Restored
    <3> QED
      BY <2>1, <2>2, <3>1 DEF ScopeInv
  <2>3. CASE open = 2
    <3>1. methods' = methods /\ softmax' = softmax
      BY <1>11, <2>3 DEF Scope!Leave, Scope!Restored
    <3> QED
      BY <2>1, <2>3, <3>1 DEF ScopeInv
  <2>4. CASE open = 3
    <3>1. methods' = WithoutReadout(methods) /\ softmax' = softmax
      BY <1>11, <2>4 DEF Scope!Leave, Scope!Restored, WithoutReadout
    <3> QED
      BY <2>1, <2>4, <3>1 DEF ScopeInv
  <2>5. CASE open = 4
    <3>1. methods' = saved["acceleration"] /\ softmax' = softmax
      BY <1>11, <2>5 DEF Scope!Leave, Scope!Restored
    <3> QED
      BY <2>1, <2>5, <3>1 DEF ScopeInv, WithoutReadout
  <2>6. CASE open = 5
    <3>1. softmax' = softmax
      BY <1>11, <2>6 DEF Scope!Leave
    <3> QED
      BY <2>1, <2>6, <3>1 DEF ScopeInv, WithoutReadout
  <2>7. CASE open = 6
    <3>1. softmax' = Scope!Native
      BY <1>11, <2>7 DEF Scope!Leave
    <3> QED
      BY <2>1, <2>7, <3>1 DEF ScopeInv, WithoutReadout
  <2> QED
    BY <2>1, <2>2, <2>3, <2>4, <2>5, <2>6, <2>7
<1> QED
  BY <1>1, <1>2, <1>3, <1>4, <1>5, <1>6, <1>7, <1>8, <1>9, <1>10, <1>11 DEF Next, pvars,
    ScopeMoves, Scope!Next, ExactMoves, CacheMoves, CudaMoves, VaeMoves, ScanMoves, LayoutMoves

(* Whatever a request has rebound, and whatever scope failed while it was  *)
(* entered or inside, the methods of the model are back when it is over.   *)
THEOREM RequestsLeaveNothing == Spec => []NativeAfterwards
<1>1. ScopeInv => NativeAfterwards
  BY DEF ScopeInv, Places, NativeAfterwards, Scope!NativeAfterwards
<1> QED
  BY ScopeInitial, ScopeStep, <1>1, PTL DEF Spec

-----------------------------------------------------------------------------
(* The methods a request has when it has entered linear_kv, acceleration   *)
(* and fine, one after the other; b is a branch, a an attribute.           *)
Sampled(a) == IF a = "readout" /\ (opts.sampling \/ profiling) THEN {"sampled"} ELSE {}
Faster(a) ==
  IF (a = "readout" /\ (flags.fused_delta \/ flags.boundary_scan)) \/ (a = "text" /\ flags.fused_delta)
    THEN Sampled(a) \union {"accelerated"} ELSE Sampled(a)
Timed(a) == IF profiling THEN Faster(a) \union {"profiled"} ELSE Faster(a)

Methods == [Branches -> [Scope!Attrs -> SUBSET Scope!Rewritings]]

ScopeTypes ==
  /\ served \in Nat /\ opts \in Scope!Options /\ warmup \in BOOLEAN /\ failed \in BOOLEAN
  /\ forward \in {"ulysses", "branch", "dual"}
  /\ methods \in Methods /\ softmax \subseteq Scope!Rewritings
  /\ saved \in [{"acceleration", "fine"} -> Methods]
  /\ active \subseteq {"dit", "exact", "linear_kv", "acceleration", "dual_stream", "fine"}
  /\ profiling \in BOOLEAN
  /\ flags \in [fused_delta: BOOLEAN, boundary_scan: BOOLEAN]
  /\ transport \in BOOLEAN /\ verified \subseteq Scope!Checks

(* From its selections to the end of the sampler, the worker has what this *)
(* request asks for, checked, and its methods are what the scopes make.    *)
Selected ==
  /\ flags = [fused_delta |-> opts.fused_delta, boundary_scan |-> opts.boundary_scan]
  /\ opts.fused_delta => "delta" \in verified
  /\ opts.boundary_scan => "scans" \in verified
  /\ transport => "communication" \in verified
  /\ open > 0 => /\ profiling = (opts.profile /\ ~warmup)
                 /\ forward = IF opts.dual_stream THEN "dual"
                              ELSE IF opts.branch_ranks THEN "branch" ELSE "ulysses"
  /\ open = 3 => methods = [b \in Branches |-> [a \in Scope!Attrs |-> Sampled(a)]]
  /\ open \in {4, 5} => methods = [b \in Branches |-> [a \in Scope!Attrs |-> Faster(a)]]
  /\ open = 6 => methods = [b \in Branches |-> [a \in Scope!Attrs |-> Timed(a)]]

ServeInv ==
  /\ ScopeTypes
  /\ phase \in {"entering", "denoising"} => Selected

LEMMA OptionTypes ==
  ASSUME NEW o \in Scope!Options
  PROVE  /\ o.branch_ranks \in BOOLEAN /\ o.dual_stream \in BOOLEAN /\ o.sampling \in BOOLEAN
         /\ o.fused_delta \in BOOLEAN /\ o.boundary_scan \in BOOLEAN
         /\ o.fast_communication \in BOOLEAN /\ o.profile \in BOOLEAN
BY DEF Scope!Options

LEMMA NativeType == Scope!Untouched \in Methods
BY DEF Scope!Untouched, Methods, Scope!Native

LEMMA ServeInitial == Init => ServeInv
<1> SUFFICES ASSUME Scope!Init
             PROVE  ServeInv
  BY DEF Init
<1>1. methods \in Methods /\ saved \in [{"acceleration", "fine"} -> Methods]
  BY NativeType DEF Scope!Init
<1>2. opts \in Scope!Options /\ opts.fused_delta \in BOOLEAN /\ opts.boundary_scan \in BOOLEAN
  BY OptionTypes DEF Scope!Init
<1>3. flags \in [fused_delta: BOOLEAN, boundary_scan: BOOLEAN]
  BY <1>2 DEF Scope!Init
<1>4. verified \subseteq Scope!Checks /\ forward \in {"ulysses", "branch", "dual"}
  BY DEF Scope!Init
<1>5. phase = "idle"
  BY DEF Scope!Init
<1> QED
  BY <1>1, <1>2, <1>3, <1>4, <1>5 DEF Scope!Init, ServeInv, ScopeTypes, Scope!Native

(* Each way to rewrite the methods gives methods.                          *)
LEMMA Rewritten ==
  ASSUME NEW m \in Methods, NEW R \in SUBSET Scope!Rewritings
  PROVE  /\ [b \in Branches |-> [m[b] EXCEPT !.readout = R]] \in Methods
         /\ [b \in Branches |-> [a \in Scope!Attrs |-> m[b][a] \union {"profiled"}]] \in Methods
         /\ [b \in Branches |-> Scope!Accelerated(m[b])] \in Methods
<1>1. ASSUME NEW b \in Branches
      PROVE  /\ m[b] \in [Scope!Attrs -> SUBSET Scope!Rewritings]
             /\ [m[b] EXCEPT !.readout = R] \in [Scope!Attrs -> SUBSET Scope!Rewritings]
  BY DEF Methods, Scope!Attrs
<1>2. ASSUME NEW b \in Branches
      PROVE  [a \in Scope!Attrs |-> m[b][a] \union {"profiled"}] \in [Scope!Attrs -> SUBSET Scope!Rewritings]
  BY <1>1 DEF Scope!Rewritings
<1>3. ASSUME NEW b \in Branches
      PROVE  Scope!Accelerated(m[b]) \in [Scope!Attrs -> SUBSET Scope!Rewritings]
  <2>1. /\ m[b].readout \union {"accelerated"} \in SUBSET Scope!Rewritings
        /\ m[b].text \union {"accelerated"} \in SUBSET Scope!Rewritings
    BY <1>1 DEF Scope!Attrs, Scope!Rewritings
  <2> QED
    BY <1>1, <2>1 DEF Scope!Accelerated, Scope!Attrs
<1> QED
  BY <1>1, <1>2, <1>3 DEF Methods

LEMMA ScopeTypesStep ==
  ASSUME ScopeInv, ScopeTypes, Scope!Next
  PROVE  ScopeTypes'
<1>1. ASSUME NEW o \in Scope!Options, NEW w \in BOOLEAN, Scope!Begin(o, w) PROVE ScopeTypes'
  BY <1>1 DEF Scope!Begin, ScopeTypes
<1>2. CASE Scope!Select
  <2>1. flags' \in [fused_delta: BOOLEAN, boundary_scan: BOOLEAN]
    BY <1>2, OptionTypes DEF Scope!Select, ScopeTypes
  <2>2. transport' \in BOOLEAN
    BY <1>2, OptionTypes DEF Scope!Select, ScopeTypes
  <2>3. verified' \subseteq Scope!Checks
    BY <1>2 DEF Scope!Select, ScopeTypes, Scope!Needed
  <2> QED
    BY <1>2, <2>1, <2>2, <2>3 DEF Scope!Select, ScopeTypes
<1>3. CASE Scope!EnterDit
  <2>1. profiling' \in BOOLEAN /\ forward' \in {"ulysses", "branch", "dual"}
    BY <1>3, OptionTypes DEF Scope!EnterDit, ScopeTypes
  <2> QED
    BY <1>3, <2>1 DEF Scope!EnterDit, ScopeTypes, Scope!Entered, Scope!Constant
<1>4. CASE Scope!EnterExact
  BY <1>4 DEF Scope!EnterExact, ScopeTypes, Scope!Entered, Scope!Constant
<1>5. CASE Scope!EnterLinear
  <2> DEFINE R == IF opts.sampling \/ profiling THEN {"sampled"} ELSE Scope!Native
  <2>1. R \in SUBSET Scope!Rewritings
    BY DEF Scope!Rewritings, Scope!Native
  <2>2. methods' = [b \in Branches |-> [methods[b] EXCEPT !.readout = R]]
    BY <1>5 DEF Scope!EnterLinear
  <2> HIDE DEF R
  <2>3. methods' \in Methods
    BY <2>1, <2>2, Rewritten DEF ScopeTypes
  <2> QED
    BY <1>5, <2>3 DEF Scope!EnterLinear, ScopeTypes, Scope!Entered, Scope!Constant
<1>6. CASE Scope!EnterAcceleration
  <2>1. methods' = methods \/ methods' = [b \in Branches |-> Scope!Accelerated(methods[b])]
    BY <1>6 DEF Scope!EnterAcceleration
  <2>2. methods' \in Methods
    <3>1. {} \in SUBSET Scope!Rewritings /\ methods \in Methods
      BY DEF ScopeTypes
    <3> QED
      BY <2>1, <3>1, Rewritten
  <2>3. saved' \in [{"acceleration", "fine"} -> Methods]
    BY <1>6 DEF Scope!EnterAcceleration, ScopeTypes
  <2>4. failed' \in BOOLEAN /\ active' \subseteq active \union {"acceleration"}
    BY <1>6 DEF Scope!EnterAcceleration, ScopeTypes, Scope!Entered, Scope!Raise
  <2> QED
    BY <1>6, <2>2, <2>3, <2>4 DEF Scope!EnterAcceleration, ScopeTypes, Scope!Constant
<1>7. CASE Scope!EnterDual
  <2>1. failed' \in BOOLEAN /\ active' \subseteq active \union {"dual_stream"}
    BY <1>7 DEF Scope!EnterDual, ScopeTypes, Scope!Entered, Scope!Raise
  <2> QED
    BY <1>7, <2>1 DEF Scope!EnterDual, ScopeTypes, Scope!Constant
<1>8. CASE Scope!EnterFine
  <2>1. \/ methods' = methods
        \/ methods' = [b \in Branches |-> [a \in Scope!Attrs |-> methods[b][a] \union {"profiled"}]]
    BY <1>8 DEF Scope!EnterFine
  <2>2. methods' \in Methods
    <3>1. {} \in SUBSET Scope!Rewritings /\ methods \in Methods
      BY DEF ScopeTypes
    <3> QED
      BY <2>1, <3>1, Rewritten
  <2>3. saved' \in [{"acceleration", "fine"} -> Methods] /\ softmax' \subseteq Scope!Rewritings
    BY <1>8 DEF Scope!EnterFine, ScopeTypes, Scope!Rewritings
  <2>4. failed' \in BOOLEAN /\ active' \subseteq active \union {"fine"}
    BY <1>8 DEF Scope!EnterFine, ScopeTypes, Scope!Entered, Scope!Raise
  <2> QED
    BY <1>8, <2>2, <2>3, <2>4 DEF Scope!EnterFine, ScopeTypes, Scope!Constant
<1>9. CASE Scope!Denoise
  BY <1>9 DEF Scope!Denoise, ScopeTypes
<1>10. CASE Scope!Leave
  <2>1. open \in 1 .. 6
    BY <1>10 DEF Scope!Leave, ScopeInv, Places
  <2>2. methods' \in Methods
    <3>1. saved.acceleration \in Methods /\ saved.fine \in Methods /\ methods \in Methods
      BY DEF ScopeTypes
    <3>2. [b \in Branches |-> [methods[b] EXCEPT !.readout = Scope!Native]] \in Methods
      BY <3>1, Rewritten DEF Scope!Native
    <3>3. \/ methods' = [b \in Branches |-> [methods[b] EXCEPT !.readout = Scope!Native]]
          \/ methods' = saved.acceleration \/ methods' = saved.fine \/ methods' = methods
      BY <1>10 DEF Scope!Leave, Scope!Restored
    <3> QED
      BY <3>1, <3>2, <3>3
  <2>3. softmax' \subseteq Scope!Rewritings /\ profiling' \in BOOLEAN /\ active' \subseteq active
    BY <1>10 DEF Scope!Leave, ScopeTypes, Scope!Native
  <2> QED
    BY <1>10, <2>2, <2>3 DEF Scope!Leave, ScopeTypes, Scope!Constant
<1> QED
  BY <1>1, <1>2, <1>3, <1>4, <1>5, <1>6, <1>7, <1>8, <1>9, <1>10 DEF Scope!Next

LEMMA SelectedStep ==
  ASSUME ScopeInv, ScopeTypes, phase \in {"entering", "denoising"} => Selected,
         Scope!Next, phase' \in {"entering", "denoising"}
  PROVE  Selected'
<1>1. CASE Scope!Select
  <2>1. open' = 0
    BY <1>1 DEF Scope!Select, ScopeInv, Places
  <2>2. flags' = [fused_delta |-> opts'.fused_delta, boundary_scan |-> opts'.boundary_scan]
    BY <1>1 DEF Scope!Select
  <2>3. verified' = verified \union Scope!Needed /\ transport' = opts.fast_communication /\ opts' = opts
    BY <1>1 DEF Scope!Select
  <2>4. /\ opts.fused_delta => "delta" \in verified \union Scope!Needed
        /\ opts.boundary_scan => "scans" \in verified \union Scope!Needed
        /\ opts.fast_communication => "communication" \in verified \union Scope!Needed
    BY DEF Scope!Needed, Scope!Checks
  <2> QED
    BY <2>1, <2>2, <2>3, <2>4 DEF Selected
<1>2. CASE Scope!EnterDit
  <2>1. open = 0 /\ phase = "entering"
    BY <1>2, EnteringAt DEF Scope!EnterDit
  <2>2. open' = 1
    BY <1>2, <2>1 DEF Scope!EnterDit, Scope!Entered
  <2> QED
    BY <1>2, <2>1, <2>2 DEF Scope!EnterDit, Scope!Constant, Selected
<1>3. CASE Scope!EnterExact
  <2>1. open = 1 /\ phase = "entering"
    BY <1>3, EnteringAt DEF Scope!EnterExact
  <2>2. open' = 2
    BY <1>3, <2>1 DEF Scope!EnterExact, Scope!Entered
  <2> QED
    BY <1>3, <2>1, <2>2 DEF Scope!EnterExact, Scope!Constant, Selected
<1>4. CASE Scope!EnterLinear
  <2>1. open = 2 /\ phase = "entering"
    BY <1>4, EnteringAt DEF Scope!EnterLinear
  <2>2. open' = 3
    BY <1>4, <2>1 DEF Scope!EnterLinear, Scope!Entered
  <2>3. methods' = [b \in Branches |-> [a \in Scope!Attrs |-> Sampled(a)']]
    <3>1. methods = Scope!Untouched
      BY <2>1 DEF ScopeInv
    <3> DEFINE R == IF opts.sampling \/ profiling THEN {"sampled"} ELSE Scope!Native
    <3>2. methods' = [b \in Branches |-> [methods[b] EXCEPT !.readout = R]]
      BY <1>4 DEF Scope!EnterLinear
    <3>3. opts' = opts /\ profiling' = profiling
      BY <1>4 DEF Scope!EnterLinear, Scope!Constant
    <3>4. ASSUME NEW b \in Branches
          PROVE  [methods[b] EXCEPT !.readout = R] = [a \in Scope!Attrs |-> Sampled(a)']
      <4>1. methods[b] = [a \in Scope!Attrs |-> Scope!Native]
        BY <3>1 DEF Scope!Untouched
      <4>2. \A a \in Scope!Attrs : Sampled(a)' = IF a = "readout" THEN R ELSE Scope!Native
        BY <3>3 DEF Sampled, Scope!Native
      <4> HIDE DEF R
      <4> QED
        BY <4>1, <4>2 DEF Scope!Attrs
    <3> QED
      BY <3>2, <3>4
  <2> QED
    <3>1. UNCHANGED <<opts, warmup, forward, profiling, flags, transport, verified>>
      BY <1>4 DEF Scope!EnterLinear, Scope!Constant
    <3>2. Selected
      BY <2>1
    <3> QED
      BY <2>1, <2>2, <2>3, <3>1, <3>2 DEF Selected
<1>5. CASE Scope!EnterAcceleration
  <2>1. open = 3 /\ phase = "entering"
    BY <1>5, EnteringAt DEF Scope!EnterAcceleration
  <2>2. open' = 4
    BY <1>5, <2>1 DEF Scope!EnterAcceleration, Scope!Entered, Scope!Raise
  <2>3. opts' = opts /\ profiling' = profiling /\ flags' = flags
    BY <1>5 DEF Scope!EnterAcceleration, Scope!Constant
  <2>4. methods = [b \in Branches |-> [a \in Scope!Attrs |-> Sampled(a)]]
    BY <2>1 DEF Selected
  <2>5. \A a : Faster(a)' = Faster(a)
    BY <2>3 DEF Faster, Sampled
  <2>6. methods' = [b \in Branches |-> [a \in Scope!Attrs |-> Faster(a)']]
    <3>1. CASE ~(flags.fused_delta \/ flags.boundary_scan)
      <4>1. methods' = methods
        BY <1>5, <3>1 DEF Scope!EnterAcceleration
      <4>2. \A a : Faster(a) = Sampled(a)
        BY <3>1 DEF Faster
      <4> QED
        BY <2>4, <2>5, <4>1, <4>2
    <3>2. CASE flags.fused_delta \/ flags.boundary_scan
      <4>1. methods' = [b \in Branches |-> Scope!Accelerated(methods[b])]
        <5>1. phase' # "leaving"
          OBVIOUS
        <5> QED
          BY <1>5, <3>2, <5>1 DEF Scope!EnterAcceleration, Scope!Raise
      <4>2. ASSUME NEW b \in Branches
            PROVE  Scope!Accelerated(methods[b]) = [a \in Scope!Attrs |-> Faster(a)]
        <5>1. methods[b] = [a \in Scope!Attrs |-> Sampled(a)]
          BY <2>4
        <5>2. /\ Faster("readout") = Sampled("readout") \union {"accelerated"}
              /\ Faster("text") = IF flags.fused_delta THEN Sampled("text") \union {"accelerated"} ELSE Sampled("text")
              /\ Faster("feature") = Sampled("feature")
          BY <3>2 DEF Faster
        <5> QED
          BY <5>1, <5>2 DEF Scope!Accelerated, Scope!Attrs
      <4> QED
        BY <2>5, <4>1, <4>2
    <3> QED
      BY <3>1, <3>2
  <2> QED
    BY <1>5, <2>1, <2>2, <2>3, <2>6 DEF Scope!EnterAcceleration, Scope!Constant, Selected
<1>6. CASE Scope!EnterDual
  <2>1. open = 4 /\ phase = "entering"
    BY <1>6, EnteringAt DEF Scope!EnterDual
  <2>2. open' = 5
    BY <1>6, <2>1 DEF Scope!EnterDual, Scope!Entered, Scope!Raise
  <2>3. \A a : Faster(a)' = Faster(a)
    BY <1>6 DEF Scope!EnterDual, Scope!Constant, Faster, Sampled
  <2> QED
    BY <1>6, <2>1, <2>2, <2>3 DEF Scope!EnterDual, Scope!Constant, Selected
<1>7. CASE Scope!EnterFine
  <2>1. open = 5 /\ phase = "entering"
    BY <1>7, EnteringAt DEF Scope!EnterFine
  <2>2. open' = 6
    BY <1>7, <2>1 DEF Scope!EnterFine, Scope!Entered, Scope!Raise
  <2>3. methods = [b \in Branches |-> [a \in Scope!Attrs |-> Faster(a)]]
    BY <2>1 DEF Selected
  <2>4. \A a : Timed(a)' = Timed(a)
    BY <1>7 DEF Scope!EnterFine, Scope!Constant, Timed, Faster, Sampled
  <2>5. methods' = [b \in Branches |-> [a \in Scope!Attrs |-> Timed(a)']]
    <3>1. CASE ~profiling
      <4>1. methods' = methods
        BY <1>7, <3>1 DEF Scope!EnterFine
      <4> QED
        BY <2>3, <2>4, <3>1, <4>1 DEF Timed
    <3>2. CASE profiling
      <4>1. methods' = [b \in Branches |-> [a \in Scope!Attrs |-> methods[b][a] \union {"profiled"}]]
        <5>1. phase' # "leaving"
          OBVIOUS
        <5> QED
          BY <1>7, <3>2, <5>1 DEF Scope!EnterFine, Scope!Raise
      <4> QED
        BY <2>3, <2>4, <3>2, <4>1 DEF Timed
    <3> QED
      BY <3>1, <3>2
  <2> QED
    BY <1>7, <2>1, <2>2, <2>5 DEF Scope!EnterFine, Scope!Constant, Selected
<1>8. CASE \E o \in Scope!Options, w \in BOOLEAN : Scope!Begin(o, w)
  BY <1>8 DEF Scope!Begin
<1>9. CASE Scope!Denoise \/ Scope!Leave
  BY <1>9 DEF Scope!Denoise, Scope!Leave
<1> QED
  BY <1>1, <1>2, <1>3, <1>4, <1>5, <1>6, <1>7, <1>8, <1>9 DEF Scope!Next

LEMMA ServeStep ==
  ASSUME ScopeInv, ServeInv, [Next]_pvars
  PROVE  ServeInv'
<1>1. CASE Scope!Next
  BY <1>1, ScopeTypesStep, SelectedStep DEF ServeInv
<1>2. CASE UNCHANGED scopeVars
  BY <1>2 DEF scopeVars, ServeInv, ScopeTypes, Selected, Sampled, Faster, Timed
<1> QED
  BY <1>1, <1>2 DEF Next, pvars, ScopeMoves, ExactMoves, CacheMoves, CudaMoves, VaeMoves,
    ScanMoves, LayoutMoves

(* What the invariant says of a request while it is entered, and while it  *)
(* computes.                                                               *)
LEMMA ServedAsAsked ==
  ASSUME ScopeInv, ServeInv
  PROVE  /\ Scope!TypeOK /\ Scope!ComputesAsAsked /\ Scope!ProfiledIffAsked
         /\ Scope!EveryMethodIsKnown /\ Scope!VerifiedBeforeUse
<1>1. Scope!TypeOK
  <2>1. open \in 0 .. 6
    BY DEF ScopeInv, Places
  <2>2. Len(Scope!Scopes) = 6
    OBVIOUS
  <2>3. Scope!Range(Scope!Scopes) = {"dit", "exact", "linear_kv", "acceleration", "dual_stream", "fine"}
    BY DEF Scope!Range
  <2> QED
    BY <2>1, <2>2, <2>3 DEF ServeInv, ScopeTypes, ScopeInv, Scope!TypeOK, Methods
<1>2. ASSUME phase = "denoising"
      PROVE  open = 6 /\ Selected /\ profiling = (opts.profile /\ ~warmup)
             /\ methods = [b \in Branches |-> [a \in Scope!Attrs |-> Timed(a)]]
  BY <1>2 DEF ScopeInv, Places, ServeInv, Selected
<1>3. Scope!ComputesAsAsked
  <2> SUFFICES ASSUME phase = "denoising" PROVE Scope!ComputesAsAsked
    BY DEF Scope!ComputesAsAsked
  <2>1. /\ opts.sampling \in BOOLEAN /\ opts.fused_delta \in BOOLEAN /\ opts.boundary_scan \in BOOLEAN
        /\ profiling \in BOOLEAN
    BY OptionTypes DEF ServeInv, ScopeTypes
  <2>2. flags.fused_delta = opts.fused_delta /\ flags.boundary_scan = opts.boundary_scan
    BY <1>2 DEF Selected
  <2>3. ASSUME NEW b \in Branches
        PROVE  Scope!Computed(b) =
                 [sampling |-> opts.sampling, boundary_scan |-> opts.boundary_scan,
                  fused_scan |-> opts.fused_delta, fused_text |-> opts.fused_delta]
    <3>1. methods[b].readout = Timed("readout") /\ methods[b].text = Timed("text")
      BY <1>2 DEF Scope!Attrs
    <3>2. opts.sampling => "sampled" \in Timed("readout")
      BY DEF Timed, Faster, Sampled
    <3>3. opts.fused_delta \/ opts.boundary_scan => "accelerated" \in Timed("readout")
      BY <2>2 DEF Timed, Faster
    <3>4. opts.fused_delta => "accelerated" \in Timed("text")
      BY <2>2 DEF Timed, Faster
    <3>5. /\ ("sampled" \in methods[b].readout /\ opts.sampling) = opts.sampling
          /\ ("accelerated" \in methods[b].readout /\ flags.boundary_scan) = opts.boundary_scan
          /\ ("accelerated" \in methods[b].readout /\ flags.fused_delta) = opts.fused_delta
          /\ ("accelerated" \in methods[b].text /\ flags.fused_delta) = opts.fused_delta
      BY <2>1, <2>2, <3>1, <3>2, <3>3, <3>4
    <3> QED
      BY <3>5 DEF Scope!Computed
  <2>4. forward = IF opts.dual_stream THEN "dual" ELSE IF opts.branch_ranks THEN "branch" ELSE "ulysses"
    BY <1>2 DEF Selected
  <2> QED
    BY <2>3, <2>4 DEF Scope!ComputesAsAsked
<1>4. Scope!ProfiledIffAsked
  <2> SUFFICES ASSUME phase = "denoising", NEW b \in Branches, NEW a \in Scope!Attrs
               PROVE  "profiled" \in methods[b][a] <=> opts.profile /\ ~warmup
    BY DEF Scope!ProfiledIffAsked
  <2>1. methods[b][a] = Timed(a)
    BY <1>2
  <2>2. "profiled" \in Timed(a) <=> profiling
    BY DEF Timed, Faster, Sampled
  <2> QED
    BY <1>2, <2>1, <2>2
<1>5. Scope!EveryMethodIsKnown
  <2>1. ASSUME Scope!Entering("acceleration"), NEW b \in Branches
        PROVE  methods[b].text \in Scope!AcceleratedTexts /\ methods[b].readout \in Scope!SampledReadouts
    <3>1. open = 3 /\ phase = "entering"
      BY <2>1, EnteringAt
    <3>2. methods[b].text = Sampled("text") /\ methods[b].readout = Sampled("readout")
      BY <3>1 DEF ServeInv, Selected, Scope!Attrs
    <3> QED
      BY <3>2 DEF Sampled, Scope!AcceleratedTexts, Scope!SampledReadouts, Scope!Native
  <2>2. ASSUME Scope!Entering("fine"), NEW b \in Branches, NEW a \in Scope!Attrs
        PROVE  methods[b][a] \in Scope!Profilable(a)
    <3>1. open = 5 /\ phase = "entering"
      BY <2>2, EnteringAt
    <3>2. methods[b][a] = Faster(a)
      BY <3>1 DEF ServeInv, Selected
    <3>3. CASE a = "readout"
      <4>1. Sampled(a) \in Scope!SampledReadouts
        BY DEF Sampled, Scope!SampledReadouts, Scope!Native
      <4>2. Faster(a) = Sampled(a) \/ Faster(a) = Sampled(a) \union {"accelerated"}
        BY DEF Faster
      <4> QED
        BY <3>2, <3>3, <4>1, <4>2 DEF Scope!Profilable
    <3>4. CASE a = "text"
      <4>1. Sampled(a) \in Scope!AcceleratedTexts
        BY <3>4 DEF Sampled, Scope!AcceleratedTexts, Scope!Native
      <4>2. Faster(a) = Sampled(a) \/ Faster(a) = Sampled(a) \union {"accelerated"}
        BY DEF Faster
      <4> QED
        BY <3>2, <3>4, <4>1, <4>2 DEF Scope!Profilable
    <3>5. CASE a = "feature"
      BY <3>2, <3>5 DEF Scope!Profilable, Faster, Sampled, Scope!Native
    <3> QED
      BY <3>3, <3>4, <3>5 DEF Scope!Attrs
  <2> QED
    BY <2>1, <2>2 DEF Scope!EveryMethodIsKnown
<1>6. Scope!VerifiedBeforeUse
  BY <1>2 DEF Selected, Scope!VerifiedBeforeUse
<1> QED
  BY <1>1, <1>3, <1>4, <1>5, <1>6

(* For any number of branches and requests, any options and any failures:  *)
(* a request that computes has each method its options ask for and no      *)
(* other, and nothing that was not compared.                               *)
THEOREM RequestsAreServed == Spec => []ServesAsAsked
<1>1. Init => ScopeInv /\ ServeInv
  BY ScopeInitial, ServeInitial
<1>2. ScopeInv /\ ServeInv /\ [Next]_pvars => (ScopeInv /\ ServeInv)'
  BY ScopeStep, ServeStep
<1>3. ScopeInv /\ ServeInv => ServesAsAsked
  BY ServedAsAsked DEF ServesAsAsked
<1> QED
  BY <1>1, <1>2, <1>3, PTL DEF Spec

(* For any branches and number of requests: each request computes what its *)
(* options ask for, and nothing it has rebound outlives it.                *)
THEOREM RequestsApart == Spec => []RequestsAreApart
<1>1. ServesAsAsked /\ NativeAfterwards => RequestsAreApart
  BY DEF RequestsAreApart
<1> QED
  BY RequestsAreServed, RequestsLeaveNothing, <1>1, PTL

=============================================================================
