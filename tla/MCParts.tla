------------------------------ MODULE MCParts -------------------------------
(* Small instances of the parts of a worker.                               *)
EXTENDS Parts

CONSTANTS r0, r1, b0, b1

(* DBCache: settings for four steps of four blocks; the last two are       *)
(* refused.                                                                *)
Setting(fn, bn, first, row, cached, last) ==
  [enabled |-> TRUE, threshold |-> 1, fn_blocks |-> fn, bn_blocks |-> bn,
   warmup_steps |-> first, max_consecutive |-> row,
   max_cached_steps |-> cached, last_steps |-> last]

Settings ==
  {Setting(1, 1, 1, 1, 3, 0), Setting(2, 1, 1, 3, 2, 1), [Setting(1, 0, 2, 2, 2, 0) EXCEPT !.enabled = FALSE],
   Setting(1, 1, 2, 1, 2, 1), Setting(3, 2, 1, 1, 2, 0), Setting(1, 1, 3, 1, 2, 2)}

(* VaeBatch: three by three tiles, one row of them, one tile.              *)
SomeClips ==
  {<<"full", "full", "edge", "full", "full", "edge", "low", "low", "corner">>,
   <<"full", "full", "full">>, <<"whole">>}

(* Layouts: both sides of every rounding and boundary.                     *)
SmallInputs ==
  {[kind |-> "pack", rows |-> 2, heads |-> h, dim |-> 2, parts |-> p, shared |-> w]
     : h \in {3, 5}, p \in 1 .. 3, w \in {0, 2}}
  \union {[kind |-> "unpack", rows |-> 2, heads |-> h, dim |-> 2, parts |-> p, linear_parts |-> n]
     : h \in 3 .. 6, p \in 1 .. 3, n \in 1 .. 3}
  \union {[kind |-> "bucket", text |-> t, references |-> r, audio |-> a, frames |-> 2, tokens |-> 2, stride |-> st]
     : t \in 1 .. 3, r \in {0, 2}, a \in {0, 1, 3}, st \in {0, 1, 4}}
  \union {[kind |-> "mask", text |-> t, references |-> 1, audio |-> 1, frames |-> 3, tokens |-> 2, stride |-> st,
           lo |-> <<0, 0, 1>>, hi |-> h, anchors |-> an]
     : t \in 1 .. 4, st \in {0, 4}, h \in {<<0, 1, 2>>, <<1, 2, 2>>}, an \in {"none", "rows", "columns", "both"}}
  \union {[kind |-> "video", start |-> b, end |-> e, video_start |-> v, video_end |-> w]
     : b \in 0 .. 3, e \in 3 .. 6, v \in {1, 4}, w \in 4 .. 7}
  \union {[kind |-> "query", video_start |-> 3, frames |-> f, tokens |-> t, anchors |-> an]
     : f \in 1 .. 4, t \in 1 .. 3, an \in {"none", "rows", "columns", "both"}}
  \union {[kind |-> "sample", tokens |-> n, stride |-> st] : n \in 1 .. 17, st \in {1, 2, 4}}
  \union {[kind |-> "tiles", lengths |-> l, overlaps |-> o]
     : l \in {<<4, 4, 3>>, <<4, 5, 4>>, <<3, 3, 3>>}, o \in {<<1, 2>>, <<2, 2>>, <<1, 1>>, <<2, 1>>}}
=============================================================================
