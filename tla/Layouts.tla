------------------------------ MODULE Layouts -------------------------------
(***************************************************************************)
(* Index arithmetic of the inference path, each against a plain reference: *)
(* the kernels that pack head groups for the exchange between ranks and    *)
(* unpack them (communication_kernels.py), the gap that rounds a prefix up *)
(* to a bucket and the mask that hides it (token_buckets.py,               *)
(* attention_runtime.py), slices that stand for masks of rows              *)
(* (exact_runtime.py, window_attention.py), the sampled tokens of a frame  *)
(* (linear_kv.py) and the seams between tiles (vae_tiles.py).  A value is  *)
(* named by the place it is loaded from.                                   *)
(***************************************************************************)
EXTENDS Integers, Sequences, SequencesExt

CONSTANTS
  Inputs        \* records whose field `kind` says what is computed from them

VARIABLES input, output

lvars == <<input, output>>

Least(m, n) == IF m < n THEN m ELSE n
Most(m, n) == IF m > n THEN m ELSE n
Flag(b) == IF b THEN 1 ELSE 0
Total(s) ==
  LET sum[k \in 0 .. Len(s)] == IF k = 0 THEN 0 ELSE sum[k - 1] + s[k]
  IN  sum[Len(s)]

-----------------------------------------------------------------------------
(* Head groups.  s has rows, heads, dim, parts, shared (its width).        *)
Unit(s) == 3 * s.dim + 1
LocalHeads(s, parts, target) == s.heads \div parts + Flag(target < s.heads % parts)

(* Mutant of FirstHead: every group is as large as the last one.           *)
FirstHeadEven(s, parts, target) == target * (s.heads \div parts)

FirstHead(s, parts, target) == target * (s.heads \div parts) + Least(target, s.heads % parts)

(* pack_groups: what its programs store, as <<address, value>>.            *)
PackGroups(s) ==
  LET Payload(t) == LocalHeads(s, s.parts, t) * Unit(s)
      Width(t) == Payload(t) + s.shared
      HeadAt(t, col) == FirstHead(s, s.parts, t) + col \div Unit(s)
      Vector(t, row, col) == row * s.heads * s.dim + HeadAt(t, col) * s.dim
      Value(t, row, col) ==
        LET field == col % Unit(s) IN
        IF col >= Payload(t) THEN <<"shared", row * s.shared + col - Payload(t)>>
        ELSE CASE field < s.dim                          -> <<"q", Vector(t, row, col) + field>>
               [] field \in s.dim .. 2 * s.dim - 1      -> <<"k", Vector(t, row, col) + field - s.dim>>
               [] field \in 2 * s.dim .. 3 * s.dim - 1  -> <<"v", Vector(t, row, col) + field - 2 * s.dim>>
               [] field = 3 * s.dim                     -> <<"gate", row * s.heads + HeadAt(t, col)>>
      Address(t, row, col) ==
        s.rows * (FirstHead(s, s.parts, t) * Unit(s) + t * s.shared) + row * Width(t) + col
  IN  UNION {{<<Address(t, row, col), Value(t, row, col)>> : row \in 0 .. s.rows - 1, col \in 0 .. Width(t) - 1}
               : t \in 0 .. s.parts - 1}

(* unpack_groups: from where an element of the two branches is loaded.     *)
UnpackGroups(s) ==
  LET Target(parts, head) ==
        LET base == s.heads \div parts
            extra == s.heads % parts
            large == (base + 1) * extra
        IN  IF head < large THEN head \div (base + 1) ELSE extra + (head - large) \div base
      Parts(branch) == IF branch = 0 THEN s.parts ELSE s.linear_parts
  IN  [e \in (0 .. 1) \X (0 .. s.rows - 1) \X (0 .. s.heads - 1) \X (0 .. s.dim - 1) |->
         LET parts == Parts(e[1])
             target == Target(parts, e[3])
             first == FirstHead(s, parts, target)
         IN  s.rows * (e[1] * s.heads + first) * s.dim
             + (e[2] * LocalHeads(s, parts, target) + e[3] - first) * s.dim + e[4]]

-----------------------------------------------------------------------------
(* Token buckets.  s has text, references, audio, frames, tokens (of a     *)
(* frame), stride, and of the mask lo, hi (windows), anchors.              *)
PrefixTokens(s) == s.text + s.references + s.audio

(* Mutant of BucketCapacity: a full bucket gets another one.               *)
CapacityBeyond(s) == IF s.stride = 0 THEN PrefixTokens(s)
                     ELSE ((PrefixTokens(s) + s.stride) \div s.stride) * s.stride

BucketCapacity(s) == IF s.stride = 0 THEN PrefixTokens(s)
                     ELSE ((PrefixTokens(s) + s.stride - 1) \div s.stride) * s.stride
Padding(s) == BucketCapacity(s) - PrefixTokens(s)

(* pack_layout(): what is at each place (0 for the gap, else a native row, *)
(* from 1), and where the rows of reference and generated video are.       *)
NativeRows(s) == [k \in 1 .. PrefixTokens(s) + s.frames * s.tokens |-> k]
NativeVideo(s) == [k \in 1 .. s.references + s.frames * s.tokens |->
                     IF k <= s.references THEN s.text + k
                     ELSE PrefixTokens(s) + k - s.references]
PackLayout(s) ==
  LET start == NativeVideo(s)[s.references + 1] - 1
      gap == [k \in 1 .. Padding(s) |-> 0] IN
  [rows  |-> SubSeq(NativeRows(s), 1, start) \o gap
             \o SubSeq(NativeRows(s), start + 1, Len(NativeRows(s))),
   video |-> [k \in DOMAIN NativeVideo(s) |->
                IF k <= s.references THEN NativeVideo(s)[k] ELSE NativeVideo(s)[k] + Padding(s)]]

(* isolated_mask_mod() and mask(): whether row q looks at row k, when the  *)
(* generated video begins at `start`, rows being counted from 0.           *)
Looks(s, start, q, k) ==
  LET InVideoRows(i) == i >= start /\ i < start + s.frames * s.tokens
      qf == Most(0, Least((q - start) \div s.tokens, s.frames - 1))
      kf == (k - start) \div s.tokens
      window == \/ kf >= s.lo[qf + 1] /\ kf <= s.hi[qf + 1]
                \/ s.anchors \in {"columns", "both"} /\ kf \in {0, s.frames - 1}
                \/ s.anchors \in {"rows", "both"} /\ qf \in {0, s.frames - 1}
  IN  ~(InVideoRows(q) /\ InVideoRows(k)) \/ window

IsolatedMask(s) ==
  LET start == PrefixTokens(s) + Padding(s) IN
  {p \in (0 .. start + s.frames * s.tokens - 1) \X (0 .. start + s.frames * s.tokens - 1) :
     Looks(s, start, p[1], p[2]) /\ (p[2] < PrefixTokens(s) \/ p[2] >= start)}

-----------------------------------------------------------------------------
(* Rows first .. last - 1 as a pair.                                       *)
(* video_slice(): the video's part of a rank's rows.                       *)
VideoSlice(s) ==
  <<Most(0, Least(s.end - s.start, s.video_start - s.start)),
    Most(0, Least(s.end - s.start, s.video_end - s.start))>>

(* query_slice(): the rows that look through windows.                      *)
QuerySlice(s) ==
  LET anchor == IF s.anchors \in {"rows", "both"} THEN s.tokens ELSE 0
      first == s.video_start + anchor
  IN  <<first, Most(first, s.video_start + s.frames * s.tokens - anchor)>>

(* sample_indices(), of kept_tokens().  s has tokens and stride (1/ratio). *)
KeptTokens(s) == (s.tokens + s.stride - 1) \div s.stride
SampleIndices(s) ==
  [k \in 1 .. KeptTokens(s) |-> ((2 * (k - 1) + 1) * s.tokens) \div (2 * KeptTokens(s))]

-----------------------------------------------------------------------------
(* Tiles in a row.  s has lengths and overlaps.  A pixel is the set of its *)
(* shares: tile, index in it, weight and the weights' total.               *)
RawTile(s, j) == [i \in 1 .. s.lengths[j] |-> {<<j, i, 1, 1>>}]

Blend(a, b, extent) ==
  [i \in DOMAIN b |->
     IF i > extent THEN b[i]
     ELSE {<<x[1], x[2], extent - i + 1, extent>> : x \in a[Len(a) - extent + i]}
          \union {<<x[1], x[2], i - 1, extent>> : x \in b[i]}]

StitchTiles(s) ==
  FlattenSeq([j \in DOMAIN s.lengths |->
    LET extent == Least(Least(s.lengths[j - 1], s.lengths[j]), s.overlaps[j - 1])
        tile == IF j = 1 THEN RawTile(s, 1) ELSE Blend(RawTile(s, j - 1), RawTile(s, j), extent)
    IN  SubSeq(tile, 1, Len(tile) - (IF j < Len(s.lengths) THEN s.overlaps[j] ELSE 0))])

-----------------------------------------------------------------------------
LayoutsInit == input \in Inputs /\ output = <<>>

Computed(s) ==
  CASE s.kind = "pack"   -> PackGroups(s)
    [] s.kind = "unpack" -> UnpackGroups(s)
    [] s.kind = "bucket" -> PackLayout(s)
    [] s.kind = "mask"   -> IsolatedMask(s)
    [] s.kind = "video"  -> VideoSlice(s)
    [] s.kind = "query"  -> QuerySlice(s)
    [] s.kind = "sample" -> SampleIndices(s)
    [] s.kind = "tiles"  -> StitchTiles(s)

Evaluate ==
  /\ output = <<>>
  /\ output' = <<Computed(input)>>
  /\ UNCHANGED input

LayoutsNext == Evaluate

-----------------------------------------------------------------------------
(* References.  The native packer: targets one after the other, each with  *)
(* its rows, each of them with its heads and the shared fields.            *)
Fields(name, from, n) == [k \in 1 .. n |-> <<name, from + k - 1>>]
GroupSizes(s, parts) == [t \in 1 .. parts |-> LocalHeads(s, parts, t - 1)]
HeadsBefore(s, parts, t) == Total(SubSeq(GroupSizes(s, parts), 1, t - 1))

NativePack(s) ==
  FlattenSeq([t \in 1 .. s.parts |-> FlattenSeq([r \in 1 .. s.rows |->
    FlattenSeq([h \in 1 .. GroupSizes(s, s.parts)[t] |->
      LET head == (r - 1) * s.heads + HeadsBefore(s, s.parts, t) + h - 1 IN
      Fields("q", head * s.dim, s.dim) \o Fields("k", head * s.dim, s.dim)
      \o Fields("v", head * s.dim, s.dim) \o Fields("gate", head, 1)])
    \o Fields("shared", (r - 1) * s.shared, s.shared)])])

(* The chunks of a branch side by side: where head h of a row comes from.  *)
NativeUnpack(s, e) ==
  LET parts == IF e[1] = 0 THEN s.parts ELSE s.linear_parts
      t == CHOOSE n \in 1 .. parts : HeadsBefore(s, parts, n) <= e[3] /\ e[3] < HeadsBefore(s, parts, n + 1)
  IN  e[1] * s.rows * s.heads * s.dim + s.rows * HeadsBefore(s, parts, t) * s.dim
      + (e[2] * GroupSizes(s, parts)[t] + e[3] - HeadsBefore(s, parts, t)) * s.dim + e[4]

(* Each cell of the send buffer is stored once, with what the native       *)
(* packer puts there; unpacking finds every head of both branches.         *)
PackedAsNative(s, out) == out = {<<k - 1, NativePack(s)[k]>> : k \in DOMAIN NativePack(s)}
UnpackedAsNative(s, out) == \A e \in DOMAIN out : out[e] = NativeUnpack(s, e)

(* The gap is the shortest that fills a bucket, and nothing but the rows   *)
(* of the generated video moves.                                           *)
GapOnly(s, out) ==
  /\ s.stride > 0 => /\ BucketCapacity(s) % s.stride = 0
                     /\ Padding(s) \in 0 .. s.stride - 1
  /\ s.stride = 0 => Padding(s) = 0
  /\ {out.rows[k] : k \in DOMAIN out.rows} \ {0} = 1 .. Len(NativeRows(s))
  /\ \A j, k \in DOMAIN out.rows : j < k /\ out.rows[j] # 0 /\ out.rows[k] # 0 =>
       out.rows[j] < out.rows[k]
  /\ \A k \in DOMAIN out.video : out.rows[out.video[k]] = NativeVideo(s)[k]
  /\ \A k \in 1 .. s.text + s.references + s.audio : out.rows[k] = k

(* With the gap hidden, every row looks at the rows it looked at before.   *)
GapUnseen(s, out) ==
  LET Moved(i) == IF i < PrefixTokens(s) THEN i ELSE i + Padding(s) IN
  \A q \in 0 .. Len(NativeRows(s)) - 1 :
    {p[2] : p \in {r \in out : r[1] = Moved(q)}}
      = {Moved(k) : k \in {k \in 0 .. Len(NativeRows(s)) - 1 : Looks(s, PrefixTokens(s), q, k)}}

(* The slice has the rows the native mask selects, no more and no less.    *)
SliceIsMask(s, out) ==
  {i \in 0 .. s.end - s.start - 1 : s.start + i >= s.video_start /\ s.start + i < s.video_end}
    = out[1] .. out[2] - 1

WindowRows(s, out) ==
  {s.video_start + i : i \in {i \in 0 .. s.frames * s.tokens - 1 :
     s.anchors \in {"rows", "both"} => (i \div s.tokens) \notin {0, s.frames - 1}}}
    = out[1] .. out[2] - 1

(* One token of every stratum of the frame, none twice.                    *)
OneOfEach(s, out) ==
  \A k \in DOMAIN out :
    /\ (k - 1) * s.tokens <= out[k] * Len(out) + Len(out) - 1 /\ out[k] * Len(out) < k * s.tokens
    /\ out[k] < s.tokens
    /\ k > 1 => out[k] > out[k - 1]

(* Every pixel is made, once, from the pixels of the tiles at its own      *)
(* place, with weights that add up to one.                                 *)
SeamsInPlace(s, out) ==
  LET From(j) == Total(SubSeq(s.lengths, 1, j - 1)) - Total(SubSeq(s.overlaps, 1, j - 1)) IN
  /\ Len(out) = Total(s.lengths) - Total(s.overlaps)
  /\ \A p \in DOMAIN out :
       /\ \A x \in out[p] : From(x[1]) + x[2] = p
       /\ \E x, y \in out[p] : /\ out[p] = {x, y} /\ x[4] = y[4]
                              /\ x[4] = IF x = y THEN x[3] ELSE x[3] + y[3]

(* Which rows there are, which of them look at each other and which are    *)
(* taken agrees with the references.                                       *)
RowsAsReference ==
  output # <<>> =>
    /\ input.kind = "bucket" => GapOnly(input, output[1])
    /\ input.kind = "mask"   => GapUnseen(input, output[1])
    /\ input.kind = "video"  => SliceIsMask(input, output[1])
    /\ input.kind = "query"  => WindowRows(input, output[1])
    /\ input.kind = "sample" => OneOfEach(input, output[1])

(* Where things are copied to agrees with the references.                  *)
CopiesAsReference ==
  output # <<>> =>
    /\ input.kind = "pack"   => PackedAsNative(input, output[1])
    /\ input.kind = "unpack" => UnpackedAsNative(input, output[1])
    /\ input.kind = "tiles"  => SeamsInPlace(input, output[1])
=============================================================================
