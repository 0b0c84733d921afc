------------------------------ MODULE DBCache -------------------------------
(***************************************************************************)
(* openvdn_comfy/cache_dit.py: during one request, the middle blocks of a  *)
(* DiT step may be replaced by the residual of an earlier step.  Every     *)
(* block holds collectives, so all ranks must run the same blocks: they    *)
(* take the decision from statistics summed over all ranks.  Each rank     *)
(* goes through run() on its own; `trace` lists what it has run, step by   *)
(* step.  A change of the prefix is abstracted to each rank's share of the *)
(* score.                                                                  *)
(***************************************************************************)
EXTENDS Integers, Sequences, FiniteSets, FiniteSetsExt

CONSTANTS
  Ranks, Blocks, Steps, Requests,
  Candidates,   \* cache settings that requests ask for
  Shares        \* what the rows of one rank can add to the score

VARIABLES
  request,      \* requests begun
  config,
  pc,           \* of each rank: idle, prefix, reduce, decide, middle
  step,         \* calls of run() it has begun
  consecutive, records,   \* records: for every step, whether it was reused
  previous,     \* <<request, step>> the cached prefix and residual come from
  finite,       \* residual_finite
  share,        \* this rank's statistics of the current step
  stats,        \* the all-reduce under way: the shares of the ranks that joined
  executed,     \* executed_blocks
  trace         \* the parts with collectives it has run in each step of this request

vars == <<request, config, pc, step, consecutive, records, previous, finite, share, stats,
          executed, trace>>

Nothing == <<0, 0>>
Bad == -1     \* statistics of a rank whose cache is missing or not finite

(* Mutant of Valid: the prefix and the suffix may overlap.                 *)
ValidApart(c) ==
  /\ c.fn_blocks \in 1 .. Blocks - 1 /\ c.bn_blocks \in 0 .. Blocks - 1
  /\ c.warmup_steps \in 1 .. Steps
  /\ c.max_consecutive \in 1 .. Steps - 1
  /\ c.max_cached_steps \in 0 .. Steps - 1
  /\ c.last_steps \in 0 .. Steps - 1
  /\ c.warmup_steps + c.last_steps <= Steps

(* CacheConfig.validate().                                                 *)
Valid(c) ==
  /\ c.fn_blocks \in 1 .. Blocks - 1 /\ c.bn_blocks \in 0 .. Blocks - 1
  /\ c.warmup_steps \in 1 .. Steps
  /\ c.max_consecutive \in 1 .. Steps - 1
  /\ c.max_cached_steps \in 0 .. Steps - 1
  /\ c.last_steps \in 0 .. Steps - 1
  /\ c.fn_blocks + c.bn_blocks < Blocks
  /\ c.warmup_steps + c.last_steps <= Steps

Configs == {c \in Candidates : Valid(c)}
Disabled(c) == ~c.enabled \/ c.threshold = 0 \/ c.max_cached_steps = 0
MiddleBlocks(c) == Cardinality(c.fn_blocks .. Blocks - c.bn_blocks - 1)
Hits(r) == Cardinality({k \in DOMAIN records[r] : records[r][k]})

TypeOK ==
  /\ request \in 0 .. Requests
  /\ config \in Configs
  /\ pc \in [Ranks -> {"idle", "prefix", "reduce", "decide", "middle"}]
  /\ step \in [Ranks -> 0 .. Steps]
  /\ consecutive \in [Ranks -> 0 .. Steps]
  /\ records \in [Ranks -> Seq(BOOLEAN)]
  /\ previous \in [Ranks -> (0 .. Requests) \X (0 .. Steps)]
  /\ finite \in [Ranks -> BOOLEAN]
  /\ share \in [Ranks -> Shares \union {Bad}]
  /\ DOMAIN stats \subseteq Ranks
  /\ executed \in [Ranks -> Nat]
  /\ trace \in [Ranks -> Seq(Seq({"all", "prefix", "reduce", "middle", "suffix"}))]

AllRanks(v) == [r \in Ranks |-> v]
NoStats == [r \in {} |-> Bad]

Init ==
  /\ request = 0
  /\ config \in Configs
  /\ pc = AllRanks("idle")
  /\ step = AllRanks(Steps)
  /\ consecutive = AllRanks(0)
  /\ records = AllRanks(<<>>)
  /\ previous = AllRanks(Nothing)
  /\ finite = AllRanks(TRUE)
  /\ share = AllRanks(Bad)
  /\ stats = NoStats
  /\ executed = AllRanks(0)
  /\ trace = AllRanks(<<>>)

Idle == \A r \in Ranks : pc[r] = "idle" /\ step[r] = Steps

(* request(): the next request, after the barriers that end the last one.  *)
Begin ==
  /\ Idle /\ request < Requests
  /\ request' = request + 1
  /\ config' \in Configs
  /\ step' = AllRanks(0) /\ consecutive' = AllRanks(0) /\ records' = AllRanks(<<>>)
  /\ previous' = AllRanks(Nothing) /\ finite' = AllRanks(TRUE)
  /\ executed' = AllRanks(0) /\ trace' = AllRanks(<<>>)
  /\ UNCHANGED <<pc, share, stats>>

(* The first part of a step, and what follows in the same step.            *)
Compute(r, part, blocks) ==
  /\ executed' = [executed EXCEPT ![r] = @ + blocks]
  /\ trace' = [trace EXCEPT ![r] = Append(@, <<part>>)]
GoOn(r, parts) == trace' = [trace EXCEPT ![r][Len(trace[r])] = @ \o parts]
ComputeMore(r, parts, blocks) ==
  /\ executed' = [executed EXCEPT ![r] = @ + blocks]
  /\ GoOn(r, parts)

Goto(r, to) == pc' = [pc EXCEPT ![r] = to]
Record(r, reused) == records' = [records EXCEPT ![r] = Append(@, reused)]

(* A step without caching runs every block.                                *)
RunDisabled(r) ==
  /\ pc[r] = "idle" /\ step[r] < Steps /\ Disabled(config)
  /\ step' = [step EXCEPT ![r] = @ + 1]
  /\ Compute(r, "all", Blocks)
  /\ Record(r, FALSE)
  /\ UNCHANGED <<request, config, pc, consecutive, previous, finite, share, stats>>

(* Mutant of Reason: last_steps is counted from the wrong end.             *)
ReasonLate(r, k) ==
  \/ k < config.warmup_steps
  \/ k > Steps - config.last_steps
  \/ Hits(r) >= config.max_cached_steps
  \/ consecutive[r] >= config.max_consecutive

(* Mutant of Reason: one reuse too many in a row.                          *)
ReasonOneMore(r, k) ==
  \/ k < config.warmup_steps
  \/ k >= Steps - config.last_steps
  \/ Hits(r) >= config.max_cached_steps
  \/ consecutive[r] > config.max_consecutive

(* Why step k (from 0) must be computed, whatever the statistics say.      *)
Reason(r, k) ==
  \/ k < config.warmup_steps
  \/ k >= Steps - config.last_steps
  \/ Hits(r) >= config.max_cached_steps
  \/ consecutive[r] >= config.max_consecutive

(* The first blocks; how far the prefix has moved on this rank's rows.     *)
RunPrefix(r) ==
  /\ pc[r] = "idle" /\ step[r] < Steps /\ ~Disabled(config)
  /\ step' = [step EXCEPT ![r] = @ + 1]
  /\ Compute(r, "prefix", config.fn_blocks)
  /\ Goto(r, IF Reason(r, step[r]) THEN "middle" ELSE "reduce")
  /\ share' \in {[share EXCEPT ![r] = s] : s \in Shares}
  /\ UNCHANGED <<request, config, consecutive, records, previous, finite, stats>>

(* Mutant of Join: a rank without a valid cache computes at once.           *)
JoinIfValid(r) ==
  /\ pc[r] = "reduce" /\ r \notin DOMAIN stats
  /\ IF previous[r] = Nothing \/ ~finite[r]
       THEN Goto(r, "middle") /\ UNCHANGED <<stats, trace>>
       ELSE /\ Goto(r, "decide")
            /\ stats' = [q \in DOMAIN stats \union {r} |-> IF q # r THEN stats[q] ELSE share[r]]
            /\ GoOn(r, <<"reduce">>)
  /\ UNCHANGED <<request, config, step, consecutive, records, previous, finite, share, executed>>

(* decision(): joins the all-reduce; a rank without a valid cache says so. *)
Join(r) ==
  /\ pc[r] = "reduce" /\ r \notin DOMAIN stats
  /\ Goto(r, "decide")
  /\ stats' = [q \in DOMAIN stats \union {r} |->
                 IF q # r THEN stats[q]
                 ELSE IF previous[r] = Nothing \/ ~finite[r] THEN Bad ELSE share[r]]
  /\ GoOn(r, <<"reduce">>)
  /\ UNCHANGED <<request, config, step, consecutive, records, previous, finite, share, executed>>

(* Mutant of Reuse: each rank looks at its own statistics.                 *)
ReuseByOwn(r) == stats[r] # Bad /\ stats[r] < config.threshold

(* The score is that of all rows, and so the same on all ranks.            *)
Score(shares) == MapThenSumSet(LAMBDA q : shares[q], Ranks)
Reuse(r) == (\A q \in Ranks : stats[q] # Bad) /\ Score(stats) < config.threshold

(* The all-reduce is over; the middle blocks are replaced or computed.     *)
Decide(r) ==
  /\ pc[r] = "decide" /\ DOMAIN stats = Ranks
  /\ \/ /\ ~Reuse(r)
        /\ Goto(r, "middle")
        /\ UNCHANGED <<consecutive, records, executed, trace>>
     \/ /\ Reuse(r)
        /\ Goto(r, "idle")
        /\ Record(r, TRUE)
        /\ consecutive' = [consecutive EXCEPT ![r] = @ + 1]
        /\ ComputeMore(r, <<"suffix">>, config.bn_blocks)
  /\ stats' = IF \A q \in Ranks \ {r} : pc[q] # "decide" THEN NoStats ELSE stats
  /\ UNCHANGED <<request, config, step, previous, finite, share>>

(* The middle blocks are computed; the residual may not be finite.         *)
RunMiddle(r) ==
  /\ pc[r] = "middle"
  /\ Goto(r, "idle")
  /\ Record(r, FALSE)
  /\ consecutive' = [consecutive EXCEPT ![r] = 0]
  /\ previous' = [previous EXCEPT ![r] = <<request, step[r]>>]
  /\ finite' \in {[finite EXCEPT ![r] = f] : f \in BOOLEAN}
  /\ ComputeMore(r, <<"middle", "suffix">>, MiddleBlocks(config) + config.bn_blocks)
  /\ UNCHANGED <<request, config, step, share, stats>>

Next ==
  \/ Begin
  \/ \E r \in Ranks : RunDisabled(r) \/ RunPrefix(r) \/ Join(r) \/ Decide(r) \/ RunMiddle(r)

Spec == Init /\ [][Next]_vars /\ \A r \in Ranks : WF_vars(Join(r) \/ Decide(r) \/ RunPrefix(r)
          \/ RunMiddle(r) \/ RunDisabled(r))

-----------------------------------------------------------------------------
IsPrefixOf(s, t) == Len(s) <= Len(t) /\ s = SubSeq(t, 1, Len(s))

(* All ranks run the same parts in the same order, so that the collectives *)
(* inside them meet: no rank skips blocks that another one computes.       *)
CollectivesMatch ==
  \A r, q \in Ranks : \A k \in DOMAIN trace[r] \intersect DOMAIN trace[q] :
    /\ IsPrefixOf(trace[r][k], trace[q][k]) \/ IsPrefixOf(trace[q][k], trace[r][k])
    /\ k < Len(trace[r]) => IsPrefixOf(trace[q][k], trace[r][k])

(* A reused residual was computed in this request, and at most             *)
(* max_consecutive steps ago.                                              *)
ResidualIsFresh ==
  \A r \in Ranks : \A k \in DOMAIN records[r] :
    records[r][k] => \E j \in 1 .. config.max_consecutive :
                       k - j \in DOMAIN records[r] /\ ~records[r][k - j]

(* Warm-up and last steps are computed, and the report's skipped blocks    *)
(* are exactly the middle blocks of the reused steps: with valid settings  *)
(* no block runs twice or not at all.                                      *)
MandatorySteps ==
  \A r \in Ranks : \A k \in DOMAIN records[r] :
    records[r][k] => k > config.warmup_steps /\ k <= Steps - config.last_steps

SkippedBlocks ==
  \A r \in Ranks : pc[r] = "idle" /\ request > 0 =>
    step[r] * Blocks - executed[r] = Hits(r) * MiddleBlocks(config)

(* Every request comes to its end on every rank: none waits for ever in an *)
(* all-reduce the others do not join.                                      *)
RequestEnds == request > 0 ~> Idle
=============================================================================
