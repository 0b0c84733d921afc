------------------------ MODULE StreamsCopiesProofs -------------------------
(***************************************************************************)
(* That the streams of Parts are free of races, for every number of layers *)
(* and of chunks of a video, and that what is packed, unpacked or stitched *)
(* is put where the plain code puts it, for all sizes.                     *)
(*                                                                         *)
(* The first part is about any program: a partial order of its operations  *)
(* in which nothing can race, and an outline of it, an assertion at each   *)
(* of its points that says which operations the host and the streams have  *)
(* behind them there.  A program that has both is free of races.           *)
(*                                                                         *)
(* The second part gives the order and the outline of DualStream, the      *)
(* third those of PinnedPixels.  The fourth is about sequences laid out    *)
(* one after the other, the heads that pack_groups() and unpack_groups()   *)
(* move and the tiles of a row.                                            *)
(***************************************************************************)
EXTENDS PartsProofs

-----------------------------------------------------------------------------
(* The operations of a program in an order: which ones are over before one *)
(* starts, what each of them reads and writes.  Where two of them touch a  *)
(* buffer that one of them writes, one comes first, and what is read was   *)
(* written last by an earlier one.                                         *)
Touches(o, z, b) == \E v \in o.writes[z] : v[1] = b

IsOrder(o) ==
  /\ o.before \in [o.ops -> SUBSET o.ops] /\ <<>> \notin o.ops
  /\ \A x \in o.ops : x \notin o.before[x]
  /\ \A x \in o.ops : \A y \in o.before[x] : o.before[y] \subseteq o.before[x]

IsRaceFree(o) ==
  /\ \A x \in o.ops : \A v, w \in o.writes[x] : v[1] = w[1] => v = w
  /\ \A x, y \in o.ops : \A w \in o.writes[x], v \in o.writes[y] \union o.reads[y] :
       w[1] = v[1] /\ x # y => x \in o.before[y] \/ y \in o.before[x]
  /\ \A x \in o.ops : \A r \in o.reads[x] : \E y \in o.before[x] :
       /\ r \in o.writes[y]
       /\ \A z \in o.ops \ {y} : Touches(o, z, r[1]) => z \in o.before[y] \/ x \in o.before[z]

(* What can be said of the order at a point of the program: what has been  *)
(* issued, what the host has seen to be over, and what must be over before *)
(* the next operation of a stream.                                         *)
Assertions(o) == [issued : SUBSET o.ops, known : SUBSET o.ops,
                  cover : [Cuda!StreamNames -> SUBSET o.ops]]

Through(o, x) == {x} \union o.before[x]
CoverOf(a, streams) == UNION {a.cover[s] : s \in streams}

(* What an instruction makes of it.                                        *)
LeadsRun(o, a, i, b) ==
  /\ i.do = "run" /\ i.op \in o.ops \ a.issued
  /\ i.reads = o.reads[i.op] /\ i.writes = o.writes[i.op]
  /\ o.before[i.op] \subseteq a.known \union a.cover[i.on] \union CoverOf(a, i.after)
  /\ b.issued = a.issued \union {i.op} /\ b.known \subseteq a.known
  /\ \A s \in Cuda!StreamNames :
       b.cover[s] \subseteq IF s = i.on THEN Through(o, i.op) ELSE a.cover[s]

LeadsWait(o, a, i, b) ==
  /\ i.do = "wait" /\ i.op \in o.ops \union {<<>>}
  /\ b.issued = a.issued /\ b.known \subseteq a.known
  /\ \A s \in Cuda!StreamNames :
       b.cover[s] \subseteq IF s # i.on THEN a.cover[s]
                            ELSE a.cover[s] \union CoverOf(a, i.after)
                                 \union IF i.op = <<>> THEN {} ELSE Through(o, i.op)

LeadsSync(o, a, i, b) ==
  /\ i.do = "sync" /\ i.op \in o.ops
  /\ b.issued = a.issued /\ b.known \subseteq a.known \union Through(o, i.op)
  /\ \A s \in Cuda!StreamNames : b.cover[s] \subseteq a.cover[s]

Leads(o, a, i, b) ==
  /\ i.on \in Cuda!StreamNames /\ i.after \subseteq Cuda!StreamNames
  /\ LeadsRun(o, a, i, b) \/ LeadsWait(o, a, i, b) \/ LeadsSync(o, a, i, b)

(* An outline of a program: an assertion at each point.                    *)
IsOutline(o, need, prog) ==
  /\ need \in [1 .. Len(prog) + 1 -> Assertions(o)]
  /\ \A n \in 1 .. Len(prog) : Leads(o, need[n], prog[n], need[n + 1])

-----------------------------------------------------------------------------
(* What holds while a program with an outline runs.                        *)
Started == done \union {i.op : i \in running}

IsOf(o, i) == i.op \in o.ops /\ i.reads = o.reads[i.op] /\ i.writes = o.writes[i.op]

Closed(o, S) == S \union UNION {o.before[y] : y \in S}

Once(o, need) ==
  /\ \A w \in waiting : /\ IsOf(o, w.is) /\ w.is.op \in need[issued + 1].issued /\ w.is.op \notin Started
                        /\ \A v \in waiting : v.is.op = w.is.op => v = w
  /\ \A i \in running : /\ IsOf(o, i) /\ i.op \in need[issued + 1].issued /\ i.op \notin done
                        /\ \A j \in running : j.op = i.op => j = i
  /\ done \subseteq need[issued + 1].issued

InOrder(o) == \A x \in Started : o.before[x] \subseteq done

Awaited(o, need) ==
  /\ \A w \in waiting : w.after \subseteq o.ops /\ o.before[w.is.op] \subseteq done \union Closed(o, w.after)
  /\ \A s \in Cuda!StreamNames : need[issued + 1].cover[s] \subseteq done \union Closed(o, frontier[s])
  /\ need[issued + 1].known \subseteq done

Last(o, y, b) == \A z \in Started \ {y} : Touches(o, z, b) => z \in o.before[y]
Versions(o) ==
  /\ \A y \in done : \A r \in o.writes[y] : Last(o, y, r[1]) => version_in[r[1]] = r[2]
  /\ \A x \in Started : \A r \in o.writes[x] : r[1] \in DOMAIN version_in

StreamTypes(o, need) ==
  /\ IsOrder(o) /\ IsRaceFree(o) /\ IsOutline(o, need, program)
  /\ program \in Cuda!Programs /\ Len(program) \in Nat /\ DOMAIN program = 1 .. Len(program)
  /\ issued \in 0 .. Len(program)
  /\ frontier \in [Cuda!StreamNames -> SUBSET o.ops]
  /\ DOMAIN version_in = Cuda!Buffers
  /\ running \subseteq Cuda!Range(program) /\ {w.is : w \in waiting} \subseteq Cuda!Range(program)

Outlined(o, need) ==
  StreamTypes(o, need) /\ Once(o, need) /\ InOrder(o) /\ Awaited(o, need) /\ Versions(o)

StreamInv == part = "streams" => \E o, need : Outlined(o, need)

-----------------------------------------------------------------------------
LEMMA NoRaces ==
  ASSUME NEW o, NEW need, Outlined(o, need)
  PROVE  Cuda!TypeOK /\ Cuda!RaceFree
<1>1. Cuda!TypeOK
  BY DEF Outlined, StreamTypes, Cuda!TypeOK
<1> USE DEF Outlined
<1>2. /\ \A i \in running : IsOf(o, i) /\ i.op \notin done /\ i.op \in Started
                            /\ \A j \in running : j.op = i.op => j = i
      /\ InOrder(o) /\ IsOrder(o) /\ IsRaceFree(o) /\ Versions(o)
  BY DEF Once, Started, StreamTypes
<1>3. ASSUME NEW i \in running, NEW r \in i.reads PROVE version_in[r[1]] = r[2]
  <2>1. i.op \in o.ops /\ r \in o.reads[i.op]
    BY <1>2 DEF IsOf
  <2>2. PICK y \in o.before[i.op] :
          /\ r \in o.writes[y]
          /\ \A z \in o.ops \ {y} : Touches(o, z, r[1]) => z \in o.before[y] \/ i.op \in o.before[z]
    BY <1>2, <2>1 DEF IsRaceFree
  <2>3. y \in done
    BY <1>2 DEF InOrder
  <2>4. Last(o, y, r[1])
    <3> SUFFICES ASSUME NEW z \in Started \ {y}, Touches(o, z, r[1]) PROVE z \in o.before[y]
      BY DEF Last
    <3>1. z \in o.ops
      BY DEF Started, Once, IsOf, StreamTypes, IsOutline, Assertions
    <3>2. i.op \notin o.before[z]
      BY <1>2 DEF InOrder
    <3> QED
      BY <2>2, <3>1, <3>2
  <2> QED
    BY <1>2, <2>2, <2>3, <2>4 DEF Versions
<1>4. ASSUME NEW i \in running, NEW j \in running \ {i}, NEW w \in i.writes, NEW v \in j.writes \union j.reads
      PROVE  w[1] # v[1]
  <2> SUFFICES ASSUME w[1] = v[1] PROVE FALSE
    OBVIOUS
  <2>1. i.op \in o.ops /\ j.op \in o.ops /\ i.op # j.op
    BY <1>2 DEF IsOf
  <2>2. w \in o.writes[i.op] /\ v \in o.writes[j.op] \union o.reads[j.op]
    BY <1>2 DEF IsOf
  <2>3. i.op \in o.before[j.op] \/ j.op \in o.before[i.op]
    BY <1>2, <2>1, <2>2 DEF IsRaceFree
  <2> QED
    BY <1>2, <2>3 DEF InOrder
<1> QED
  BY <1>1, <1>3, <1>4 DEF Cuda!RaceFree

(* The assertion at the next instruction.                                  *)
LEMMA NeedTypes ==
  ASSUME NEW o, NEW need, StreamTypes(o, need)
  PROVE  /\ need[issued + 1] \in Assertions(o)
         /\ issued < Len(program) => /\ need[issued + 1 + 1] \in Assertions(o)
                                     /\ Leads(o, need[issued + 1], program[issued + 1], need[issued + 1 + 1])
                                     /\ program[issued + 1] \in Cuda!Range(program)
                                     /\ issued + 1 \in 0 .. Len(program)
BY DEF StreamTypes, IsOutline, Cuda!Range

(* What an instruction waits for are operations, covered by the streams it *)
(* names.                                                                  *)
LEMMA FrontierTypes ==
  ASSUME NEW o, NEW need, StreamTypes(o, need), NEW i, i = program[issued + 1], issued < Len(program),
         NEW before, before = frontier[i.on] \union UNION {frontier[s] : s \in i.after}
  PROVE  /\ before \subseteq o.ops
         /\ need[issued + 1].cover[i.on] \union CoverOf(need[issued + 1], i.after)
              \subseteq UNION {need[issued + 1].cover[s] : s \in {i.on} \union i.after}
         /\ {i.on} \union i.after \subseteq Cuda!StreamNames
<1>1. {i.on} \union i.after \subseteq Cuda!StreamNames
  BY NeedTypes DEF Leads
<1>2. frontier \in [Cuda!StreamNames -> SUBSET o.ops]
  BY DEF StreamTypes
<1> QED
  BY <1>1, <1>2 DEF CoverOf

(* An operation that is issued waits for all that must be over before it.  *)
LEMMA Covered ==
  ASSUME NEW o, NEW need, StreamTypes(o, need), Awaited(o, need),
         issued < Len(program), NEW i, i = program[issued + 1]
  PROVE  LET a == need[issued + 1]
             before == frontier[i.on] \union UNION {frontier[s] : s \in i.after}
         IN  a.known \union a.cover[i.on] \union CoverOf(a, i.after) \subseteq done \union Closed(o, before)
<1> DEFINE a == need[issued + 1]
           before == frontier[i.on] \union UNION {frontier[s] : s \in i.after}
<1>1. {i.on} \union i.after \subseteq Cuda!StreamNames
  BY FrontierTypes
<1>2. a.known \subseteq done
  BY DEF Awaited
<1>3. ASSUME NEW s \in {i.on} \union i.after PROVE a.cover[s] \subseteq done \union Closed(o, before)
  <2>1. a.cover[s] \subseteq done \union Closed(o, frontier[s])
    BY <1>1 DEF Awaited
  <2>2. frontier[s] \subseteq before
    OBVIOUS
  <2> HIDE DEF before
  <2>3. Closed(o, frontier[s]) \subseteq Closed(o, before)
    BY <2>2 DEF Closed
  <2> QED
    BY <2>1, <2>3
<1> HIDE DEF before, a
<1>4. CoverOf(a, i.after) \subseteq done \union Closed(o, before)
  BY <1>3 DEF CoverOf
<1> QED
  BY <1>2, <1>3, <1>4 DEF a, before

(* The order and the outline do not depend on the state.                   *)
LEMMA Rigid ==
  ASSUME NEW o, NEW need, program' = program
  PROVE  /\ IsOrder(o)' = IsOrder(o) /\ IsRaceFree(o)' = IsRaceFree(o)
         /\ IsOutline(o, need, program)' = IsOutline(o, need, program)
         /\ (program \in Cuda!Programs)' = (program \in Cuda!Programs)
         /\ Cuda!Buffers' = Cuda!Buffers /\ Cuda!Range(program)' = Cuda!Range(program)
<1>1. IsOrder(o)' = IsOrder(o)
  BY DEF IsOrder
<1>2. IsRaceFree(o)' = IsRaceFree(o)
  BY DEF IsRaceFree, Touches
<1>3. IsOutline(o, need, program)' = IsOutline(o, need, program)
  BY DEF IsOutline, Assertions, Leads, LeadsRun, LeadsWait, LeadsSync, Through, CoverOf
<1>4. (program \in Cuda!Programs)' = (program \in Cuda!Programs)
  OBVIOUS
<1>5. Cuda!Buffers' = Cuda!Buffers /\ Cuda!Range(program)' = Cuda!Range(program)
  BY DEF Cuda!Buffers, Cuda!Range
<1> QED
  BY <1>1, <1>2, <1>3, <1>4, <1>5

(* Issuing an instruction: the outline moves on by one point.              *)
LEMMA IssueTypes ==
  ASSUME NEW o, NEW need, Outlined(o, need), Cuda!Issue
  PROVE  StreamTypes(o, need)'
<1> DEFINE i == program[issued + 1]
           before == frontier[i.on] \union UNION {frontier[s] : s \in i.after}
<1> USE DEF Outlined
<1>1. /\ issued < Len(program) /\ issued' = issued + 1
      /\ UNCHANGED <<program, running, done, version_in>>
      /\ frontier' = CASE i.do = "run"  -> [frontier EXCEPT ![i.on] = {i.op}]
                       [] i.do = "wait" -> [frontier EXCEPT ![i.on] =
                                              before \union (IF i.op = <<>> THEN {} ELSE {i.op})]
                       [] i.do = "sync" -> frontier
      /\ waiting' = IF i.do = "run" THEN waiting \union {[is |-> i, after |-> before]} ELSE waiting
  BY DEF Cuda!Issue
<1>2. before \subseteq o.ops
  BY <1>1, FrontierTypes
<1>3. Leads(o, need[issued + 1], i, need[issued + 1 + 1]) /\ i \in Cuda!Range(program) /\ issued + 1 \in 0 .. Len(program)
  BY <1>1, NeedTypes
<1> HIDE DEF i, before
<1>4. frontier' \in [Cuda!StreamNames -> SUBSET o.ops]
  BY <1>1, <1>2, <1>3 DEF Leads, LeadsRun, LeadsWait, LeadsSync, StreamTypes
<1>5. {w.is : w \in waiting'} \subseteq Cuda!Range(program)
  BY <1>1, <1>3 DEF StreamTypes
<1>6. issued' \in 0 .. Len(program)
  BY <1>1, <1>3
<1> QED
  BY <1>1, <1>4, <1>5, <1>6, Rigid DEF StreamTypes

LEMMA IssueOnce ==
  ASSUME NEW o, NEW need, Outlined(o, need), Cuda!Issue
  PROVE  Once(o, need)'
<1> DEFINE i == program[issued + 1]
           before == frontier[i.on] \union UNION {frontier[s] : s \in i.after}
           a == need[issued + 1]
           b == need[issued + 1 + 1]
<1> USE DEF Outlined
<1>1. /\ issued < Len(program) /\ issued' = issued + 1 /\ running' = running /\ done' = done
      /\ waiting' = IF i.do = "run" THEN waiting \union {[is |-> i, after |-> before]} ELSE waiting
  BY DEF Cuda!Issue
<1>2. Leads(o, a, i, b)
  BY <1>1, NeedTypes
<1>3. /\ i.do = "run" => IsOf(o, i) /\ i.op \notin a.issued /\ i.op \in b.issued
      /\ a.issued \subseteq b.issued
  BY <1>2 DEF Leads, LeadsRun, LeadsWait, LeadsSync, IsOf
<1> HIDE DEF i, before
<1>4. need[issued' + 1] = b /\ Started' = Started
  BY <1>1 DEF Started
<1> HIDE DEF a, b
<1>5. need[issued + 1] = a
  BY DEF a
<1>6. \A x : IsOf(o, x)' = IsOf(o, x)
  BY DEF IsOf
<1>7. Started \subseteq a.issued /\ \A w \in waiting : w.is.op \in a.issued
  BY <1>5 DEF Once, Started
<1>8. ASSUME NEW w \in waiting'
      PROVE  /\ IsOf(o, w.is) /\ w.is.op \in b.issued /\ w.is.op \notin Started
             /\ \A v \in waiting' : v.is.op = w.is.op => v = w
  <2>1. CASE w \in waiting
    BY <1>1, <1>3, <1>5, <1>7, <2>1 DEF Once
  <2>2. CASE w \notin waiting
    BY <1>1, <1>3, <1>7, <2>2
  <2> QED
    BY <2>1, <2>2
<1>9. ASSUME NEW j \in running
      PROVE  /\ IsOf(o, j) /\ j.op \in b.issued /\ j.op \notin done
             /\ \A v \in running : v.op = j.op => v = j
  BY <1>3, <1>5 DEF Once
<1>10. done \subseteq b.issued
  BY <1>3, <1>5 DEF Once
<1> QED
  BY <1>1, <1>4, <1>6, <1>8, <1>9, <1>10 DEF Once

LEMMA IssueAwaited ==
  ASSUME NEW o, NEW need, Outlined(o, need), Cuda!Issue
  PROVE  Awaited(o, need)'
<1> DEFINE i == program[issued + 1]
           before == frontier[i.on] \union UNION {frontier[s] : s \in i.after}
           a == need[issued + 1]
           b == need[issued + 1 + 1]
<1> USE DEF Outlined
<1>1. /\ issued < Len(program) /\ issued' = issued + 1 /\ running' = running /\ done' = done
      /\ waiting' = IF i.do = "run" THEN waiting \union {[is |-> i, after |-> before]} ELSE waiting
      /\ frontier' = CASE i.do = "run"  -> [frontier EXCEPT ![i.on] = {i.op}]
                       [] i.do = "wait" -> [frontier EXCEPT ![i.on] =
                                              before \union (IF i.op = <<>> THEN {} ELSE {i.op})]
                       [] i.do = "sync" -> frontier
      /\ i.do = "sync" => i.op \in done
  BY DEF Cuda!Issue
<1>2. Leads(o, a, i, b) /\ before \subseteq o.ops
  BY <1>1, NeedTypes, FrontierTypes
<1>3. a.known \union a.cover[i.on] \union CoverOf(a, i.after) \subseteq done \union Closed(o, before)
  BY <1>1, Covered
<1>4. frontier \in [Cuda!StreamNames -> SUBSET o.ops]
  BY DEF StreamTypes
<1> HIDE DEF i, before
<1>5. need[issued' + 1] = b
  BY <1>1
<1> HIDE DEF a, b
<1>6. /\ a.known \subseteq done
      /\ \A s \in Cuda!StreamNames : a.cover[s] \subseteq done \union Closed(o, frontier[s])
      /\ \A w \in waiting : w.after \subseteq o.ops /\ o.before[w.is.op] \subseteq done \union Closed(o, w.after)
  BY DEF Awaited, a
<1>7. \A S : Closed(o, S)' = Closed(o, S)
  BY DEF Closed
<1>8. ASSUME NEW w \in waiting'
      PROVE  w.after \subseteq o.ops /\ o.before[w.is.op] \subseteq done \union Closed(o, w.after)
  <2>1. CASE w \in waiting
    BY <1>6, <2>1
  <2>2. CASE w \notin waiting
    <3>1. i.do = "run" /\ w = [is |-> i, after |-> before]
      BY <1>1, <2>2
    <3>2. o.before[i.op] \subseteq done \union Closed(o, before)
      BY <1>2, <1>3, <3>1 DEF Leads, LeadsRun, LeadsWait, LeadsSync
    <3> QED
      BY <1>2, <3>1, <3>2
  <2> QED
    BY <2>1, <2>2
<1>9. i.do = "sync" => Through(o, i.op) \subseteq done
  BY <1>1 DEF InOrder, Started, Through
<1>10. b.known \subseteq done
  BY <1>2, <1>6, <1>9 DEF Leads, LeadsRun, LeadsWait, LeadsSync
<1>11. ASSUME NEW s \in Cuda!StreamNames
       PROVE  b.cover[s] \subseteq done \union Closed(o, frontier'[s])
  <2>1. CASE i.do = "run"
    <3>1. b.cover[s] \subseteq IF s = i.on THEN Through(o, i.op) ELSE a.cover[s]
      BY <1>2, <2>1 DEF Leads, LeadsRun, LeadsWait, LeadsSync
    <3>2. frontier'[s] = IF s = i.on THEN {i.op} ELSE frontier[s]
      BY <1>1, <1>4, <2>1
    <3>3. Through(o, i.op) \subseteq Closed(o, {i.op})
      BY DEF Through, Closed
    <3> QED
      BY <1>6, <3>1, <3>2, <3>3
  <2>2. CASE i.do = "wait"
    <3> DEFINE extra == IF i.op = <<>> THEN {} ELSE {i.op}
               through == IF i.op = <<>> THEN {} ELSE Through(o, i.op)
    <3>1. b.cover[s] \subseteq IF s # i.on THEN a.cover[s]
                              ELSE a.cover[s] \union CoverOf(a, i.after) \union through
      BY <1>2, <2>2 DEF Leads, LeadsRun, LeadsWait, LeadsSync
    <3>2. frontier'[s] = IF s = i.on THEN before \union extra ELSE frontier[s]
      BY <1>1, <1>4, <2>2
    <3>3. through \subseteq Closed(o, before \union extra)
      BY DEF Through, Closed
    <3> HIDE DEF extra, through
    <3>4. Closed(o, before) \subseteq Closed(o, before \union extra)
      BY DEF Closed
    <3> QED
      BY <1>3, <1>6, <3>1, <3>2, <3>3, <3>4
  <2>3. CASE i.do = "sync"
    <3>1. b.cover[s] \subseteq a.cover[s] /\ frontier'[s] = frontier[s]
      BY <1>1, <1>2, <2>3 DEF Leads, LeadsRun, LeadsWait, LeadsSync
    <3> QED
      BY <1>6, <3>1
  <2> QED
    BY <1>2, <2>1, <2>2, <2>3 DEF Leads, LeadsRun, LeadsWait, LeadsSync
<1> QED
  BY <1>1, <1>5, <1>7, <1>8, <1>10, <1>11 DEF Awaited

LEMMA IssueKeeps ==
  ASSUME NEW o, NEW need, Outlined(o, need), Cuda!Issue
  PROVE  Outlined(o, need)'
<1>1. Started' = Started /\ done' = done /\ version_in' = version_in
  BY DEF Cuda!Issue, Started
<1>2. InOrder(o)'
  BY <1>1 DEF Outlined, InOrder
<1>3. Versions(o)'
  <2>1. \A y, c : Last(o, y, c)' = Last(o, y, c)
    BY <1>1 DEF Last, Touches
  <2> QED
    BY <1>1, <2>1 DEF Outlined, Versions
<1> QED
  BY <1>2, <1>3, IssueTypes, IssueOnce, IssueAwaited DEF Outlined

(* An operation starts: all before it are over, and none after it has      *)
(* started, so it disturbs no version that somebody may still read.        *)
LEMMA StartKeeps ==
  ASSUME NEW o, NEW need, Outlined(o, need), NEW w \in waiting, Cuda!Start(w)
  PROVE  Outlined(o, need)'
<1> DEFINE x == w.is.op
<1> USE DEF Outlined
<1>1. /\ w.after \subseteq done /\ waiting' = waiting \ {w} /\ running' = running \union {w.is}
      /\ UNCHANGED <<program, issued, frontier, done>>
  BY DEF Cuda!Start
<1>2. /\ IsOf(o, w.is) /\ x \in need[issued + 1].issued /\ x \notin Started
      /\ \A v \in waiting : v.is.op = x => v = w
  BY DEF Once
<1>3. Started' = Started \union {x}
  BY <1>1 DEF Started
<1>4. done \subseteq Started /\ \A i \in running : i.op \in Started
  BY DEF Started
<1>5. o.before[x] \subseteq done
  BY <1>1, <1>4 DEF Awaited, InOrder, Closed
<1>6. w.is \in Cuda!Range(program)
  BY DEF StreamTypes
<1>7. \A b : b \in DOMAIN version_in /\ ~ Touches(o, x, b) => version_in'[b] = version_in[b]
  <2>1. version_in' = [b \in DOMAIN version_in |->
                         IF \E v \in {<<c[1], Cuda!Torn>> : c \in w.is.writes} : v[1] = b
                         THEN (CHOOSE v \in {<<c[1], Cuda!Torn>> : c \in w.is.writes} : v[1] = b)[2]
                         ELSE version_in[b]]
    BY DEF Cuda!Start, Cuda!Overwrite
  <2> SUFFICES ASSUME NEW b \in DOMAIN version_in, ~ Touches(o, x, b) PROVE version_in'[b] = version_in[b]
    OBVIOUS
  <2>2. ~ \E v \in {<<c[1], Cuda!Torn>> : c \in w.is.writes} : v[1] = b
    BY <1>2 DEF Touches, IsOf
  <2> QED
    BY <2>1, <2>2
<1>8. DOMAIN version_in' = DOMAIN version_in
  BY DEF Cuda!Start, Cuda!Overwrite
<1> HIDE DEF x
<1>9. StreamTypes(o, need)'
  <2>1. running' \subseteq Cuda!Range(program) /\ {v.is : v \in waiting'} \subseteq Cuda!Range(program)
    BY <1>1, <1>6 DEF StreamTypes
  <2> QED
    BY <1>1, <1>8, <2>1, Rigid DEF StreamTypes
<1>10. Once(o, need)'
  <2>1. \A i : IsOf(o, i)' = IsOf(o, i)
    BY DEF IsOf
  <2>2. ASSUME NEW v \in waiting'
        PROVE  /\ IsOf(o, v.is) /\ v.is.op \in need[issued + 1].issued /\ v.is.op \notin Started'
               /\ \A u \in waiting' : u.is.op = v.is.op => u = v
    BY <1>1, <1>2, <1>3 DEF Once, x
  <2>3. ASSUME NEW i \in running'
        PROVE  /\ IsOf(o, i) /\ i.op \in need[issued + 1].issued /\ i.op \notin done
               /\ \A j \in running' : j.op = i.op => j = i
    BY <1>1, <1>2, <1>4 DEF Once, x
  <2> QED
    BY <1>1, <2>1, <2>2, <2>3 DEF Once
<1>11. InOrder(o)'
  BY <1>1, <1>3, <1>5 DEF InOrder
<1>12. Awaited(o, need)'
  <2>1. \A S : Closed(o, S)' = Closed(o, S)
    BY DEF Closed
  <2> QED
    BY <1>1, <2>1 DEF Awaited
<1>13. Versions(o)'
  <2>1. ASSUME NEW y \in done, NEW r \in o.writes[y], Last(o, y, r[1])' PROVE version_in'[r[1]] = r[2]
    <3>1. Last(o, y, r[1])
      BY <1>3, <2>1 DEF Last, Touches
    <3>2. x # y /\ x \notin o.before[y]
      BY <1>2, <1>4 DEF InOrder
    <3>3. ~ Touches(o, x, r[1])
      BY <1>3, <2>1, <3>2 DEF Last, Touches
    <3> QED
      BY <1>4, <1>7, <3>1, <3>3 DEF Versions
  <2>2. ASSUME NEW y \in Started', NEW r \in o.writes[y] PROVE r[1] \in DOMAIN version_in'
    <3>1. CASE y = x
      BY <1>2, <1>6, <1>8, <3>1 DEF IsOf, StreamTypes, Cuda!Buffers, Cuda!Range, x
    <3>2. CASE y # x
      BY <1>3, <1>8, <3>2 DEF Versions
    <3> QED
      BY <3>1, <3>2
  <2> QED
    BY <1>1, <2>1, <2>2 DEF Versions
<1> QED
  BY <1>9, <1>10, <1>11, <1>12, <1>13

(* An operation ends, and its buffers hold the versions it writes.         *)
LEMMA FinishKeeps ==
  ASSUME NEW o, NEW need, Outlined(o, need), NEW i \in running, Cuda!Finish(i)
  PROVE  Outlined(o, need)'
<1> DEFINE x == i.op
<1> USE DEF Outlined
<1>1. /\ running' = running \ {i} /\ done' = done \union {x}
      /\ UNCHANGED <<program, issued, frontier, waiting>>
  BY DEF Cuda!Finish
<1>2. /\ IsOf(o, i) /\ x \in need[issued + 1].issued /\ x \in Started /\ x \notin done
      /\ \A j \in running : j.op = x => j = i
  BY DEF Once, Started
<1>3. Started' = Started
  BY <1>1 DEF Started
<1>4. version_in' = [b \in DOMAIN version_in |->
                       IF \E v \in i.writes : v[1] = b THEN (CHOOSE v \in i.writes : v[1] = b)[2]
                       ELSE version_in[b]]
  BY DEF Cuda!Finish, Cuda!Overwrite
<1>5. DOMAIN version_in' = DOMAIN version_in
  BY <1>4
<1>6. i.writes = o.writes[x] /\ x \in o.ops
  BY <1>2 DEF IsOf
<1> HIDE DEF x
<1>7. StreamTypes(o, need)'
  <2>1. running' \subseteq Cuda!Range(program)
    BY <1>1 DEF StreamTypes
  <2> QED
    BY <1>1, <1>5, <2>1, Rigid DEF StreamTypes
<1>8. Once(o, need)'
  <2>1. \A j : IsOf(o, j)' = IsOf(o, j)
    BY DEF IsOf
  <2>2. ASSUME NEW j \in running'
        PROVE  /\ IsOf(o, j) /\ j.op \in need[issued + 1].issued /\ j.op \notin done'
               /\ \A u \in running' : u.op = j.op => u = j
    BY <1>1, <1>2 DEF Once
  <2> QED
    BY <1>1, <1>2, <1>3, <2>1, <2>2 DEF Once
<1>9. InOrder(o)'
  BY <1>1, <1>3 DEF InOrder
<1>10. Awaited(o, need)'
  <2>1. \A S : Closed(o, S)' = Closed(o, S)
    BY DEF Closed
  <2> QED
    BY <1>1, <2>1 DEF Awaited
<1>11. Versions(o)'
  <2>1. ASSUME NEW y \in done', NEW r \in o.writes[y], Last(o, y, r[1]) PROVE version_in'[r[1]] = r[2]
    <3>1. r[1] \in DOMAIN version_in
      BY <1>1, <1>2 DEF Versions, Started
    <3>2. CASE y = x
      <4>1. r \in i.writes /\ \A v \in i.writes : v[1] = r[1] => v = r
        BY <1>6, <3>2 DEF StreamTypes, IsRaceFree
      <4>2. (CHOOSE v \in i.writes : v[1] = r[1]) = r
        BY <4>1
      <4> QED
        BY <1>4, <3>1, <4>1, <4>2
    <3>3. CASE y # x
      <4>1. y \in done /\ x \notin o.before[y]
        BY <1>1, <1>2, <3>3 DEF InOrder, Started
      <4>2. ~ Touches(o, x, r[1])
        BY <1>2, <2>1, <3>3, <4>1 DEF Last
      <4>3. version_in'[r[1]] = version_in[r[1]]
        BY <1>4, <1>6, <3>1, <4>2 DEF Touches
      <4> QED
        BY <2>1, <4>1, <4>3 DEF Versions
    <3> QED
      BY <3>2, <3>3
  <2>2. \A y, c : Last(o, y, c)' = Last(o, y, c)
    BY <1>3 DEF Last, Touches
  <2> QED
    BY <1>3, <1>5, <2>1, <2>2 DEF Versions
<1> QED
  BY <1>7, <1>8, <1>9, <1>10, <1>11

-----------------------------------------------------------------------------
(* A program that leads from one assertion to another.                     *)
Outlines(o, a, prog, b) ==
  /\ \E S : prog \in Seq(S)
  /\ \E need : IsOutline(o, need, prog) /\ need[1] = a /\ need[Len(prog) + 1] = b

(* How outlines are put together.                                          *)
LEMMA OutlineEmpty ==
  ASSUME NEW o, NEW a \in Assertions(o)
  PROVE  Outlines(o, a, <<>>, a)
<1> DEFINE need == [n \in 1 .. 1 |-> a]
<1>1. <<>> \in Seq({}) /\ Len(<<>>) = 0
  BY EmptySeq
<1>2. IsOutline(o, need, <<>>) /\ need[1] = a
  BY <1>1 DEF IsOutline
<1> HIDE DEF need
<1> QED
  BY <1>1, <1>2 DEF Outlines

LEMMA OutlineOne ==
  ASSUME NEW o, NEW a \in Assertions(o), NEW b \in Assertions(o), NEW i, Leads(o, a, i, b)
  PROVE  Outlines(o, a, <<i>>, b)
<1> DEFINE need == [n \in 1 .. 2 |-> IF n = 1 THEN a ELSE b]
<1>1. <<i>> \in Seq({i}) /\ Len(<<i>>) = 1 /\ <<i>>[1] = i
  OBVIOUS
<1>2. need \in [1 .. Len(<<i>>) + 1 -> Assertions(o)] /\ need[1] = a /\ need[2] = b
  BY <1>1
<1> HIDE DEF need
<1>3. IsOutline(o, need, <<i>>)
  BY <1>1, <1>2 DEF IsOutline
<1>4. need[Len(<<i>>) + 1] = b /\ \E S : <<i>> \in Seq(S)
  <2>1. need[Len(<<i>>) + 1] = need[2]
    BY <1>1
  <2> QED
    BY <1>1, <1>2, <2>1
<1> QED
  BY <1>2, <1>3, <1>4 DEF Outlines

LEMMA OutlineConcat ==
  ASSUME NEW o, NEW a, NEW b, NEW c, NEW s, NEW t, Outlines(o, a, s, b), Outlines(o, b, t, c)
  PROVE  Outlines(o, a, s \o t, c)
<1>1. PICK S, m : s \in Seq(S) /\ IsOutline(o, m, s) /\ m[1] = a /\ m[Len(s) + 1] = b
  BY DEF Outlines
<1>2. PICK T, n : t \in Seq(T) /\ IsOutline(o, n, t) /\ n[1] = b /\ n[Len(t) + 1] = c
  BY DEF Outlines
<1>3. s \in Seq(S \union T) /\ t \in Seq(S \union T) /\ Len(s) \in Nat /\ Len(t) \in Nat
  BY <1>1, <1>2
<1>4. /\ s \o t \in Seq(S \union T) /\ Len(s \o t) = Len(s) + Len(t)
      /\ \A k \in 1 .. Len(s) + Len(t) : (s \o t)[k] = IF k <= Len(s) THEN s[k] ELSE t[k - Len(s)]
  BY <1>3, ConcatProperties
<1> DEFINE need == [k \in 1 .. Len(s) + Len(t) + 1 |-> IF k <= Len(s) THEN m[k] ELSE n[k - Len(s)]]
<1>5. m \in [1 .. Len(s) + 1 -> Assertions(o)] /\ n \in [1 .. Len(t) + 1 -> Assertions(o)]
  BY <1>1, <1>2 DEF IsOutline
<1>6. /\ need \in [1 .. Len(s) + Len(t) + 1 -> Assertions(o)]
      /\ \A k \in 1 .. Len(s) + 1 : need[k] = m[k]
      /\ \A k \in 1 .. Len(t) + 1 : need[Len(s) + k] = n[k]
  BY <1>1, <1>2, <1>3, <1>5
<1> HIDE DEF need
<1>7. ASSUME NEW k \in 1 .. Len(s) + Len(t) PROVE Leads(o, need[k], (s \o t)[k], need[k + 1])
  <2>1. CASE k <= Len(s)
    <3>1. k \in 1 .. Len(s) /\ k \in 1 .. Len(s) + 1 /\ k + 1 \in 1 .. Len(s) + 1
      BY <1>3, <2>1
    <3>2. Leads(o, m[k], s[k], m[k + 1])
      BY <1>1, <3>1 DEF IsOutline
    <3> QED
      BY <1>4, <1>6, <2>1, <3>1, <3>2
  <2>2. CASE ~ (k <= Len(s))
    <3> DEFINE j == k - Len(s)
    <3>1. j \in 1 .. Len(t) /\ j \in 1 .. Len(t) + 1 /\ j + 1 \in 1 .. Len(t) + 1 /\ k = Len(s) + j /\ k + 1 = Len(s) + (j + 1)
      BY <1>3, <2>2
    <3>2. (s \o t)[k] = t[j]
      BY <1>4, <2>2
    <3> HIDE DEF j
    <3>3. Leads(o, n[j], t[j], n[j + 1])
      BY <1>2, <3>1 DEF IsOutline
    <3>4. need[k] = n[j] /\ need[k + 1] = n[j + 1]
      BY <1>6, <3>1
    <3> QED
      BY <3>2, <3>3, <3>4
  <2> QED
    BY <2>1, <2>2
<1>8. IsOutline(o, need, s \o t)
  BY <1>4, <1>6, <1>7 DEF IsOutline
<1>9. need[1] = a /\ need[Len(s \o t) + 1] = c
  <2>1. 1 \in 1 .. Len(s) + 1 /\ Len(t) + 1 \in 1 .. Len(t) + 1 /\ Len(s \o t) + 1 = Len(s) + (Len(t) + 1)
    BY <1>3, <1>4
  <2> QED
    BY <1>1, <1>2, <1>6, <2>1
<1> QED
  BY <1>4, <1>8, <1>9 DEF Outlines

(* Programs one after the other.                                           *)
Flattens(flat, n, seqs) ==
  /\ Cuda!FlattenSeq(seqs) = flat[n] /\ flat[1] = seqs[1]
  /\ \A k \in 2 .. n : flat[k] = flat[k - 1] \o seqs[k]

(* FlattenSeq(), a recursive function, satisfies its equations.            *)
LEMMA FlatIs ==
  ASSUME NEW n \in Nat \ {0}, NEW U, NEW seqs \in [1 .. n -> Seq(U)]
  PROVE  \E flat : Flattens(flat, n, seqs)
<1> DEFINE V == Seq(U)
           Body(g) == [k \in 1 .. n |-> IF k = 1 THEN seqs[k] ELSE g[k - 1] \o seqs[k]]
           flat == CHOOSE g : g = Body(g)
           Next1 == [k \in 1 .. n |-> [s \in V |-> s \o seqs[k]]]
<1>1. Len(seqs) = n /\ seqs # <<>>
  OBVIOUS
<1>2. Cuda!FlattenSeq(seqs) = flat[n]
  BY <1>1 DEF Cuda!FlattenSeq
<1>3. Next1 \in [1 .. n -> [V -> V]] /\ \A k \in 1 .. n, s \in V : Next1[k][s] = s \o seqs[k]
  BY ConcatProperties
<1> HIDE DEF Next1
<1>4. <<>> \in V
  BY EmptySeq
<1>5. PICK f : Follows(f, V, <<>>, Next1, n)
  <2> HIDE DEF V
  <2> QED
    BY <1>3, <1>4, RecursionExists
<1>6. f[1] = seqs[1] /\ \A k \in 2 .. n : f[k] = f[k - 1] \o seqs[k]
  <2>1. ASSUME NEW k \in 1 .. n PROVE f[k] = f[k - 1] \o seqs[k]
    <3>1. k - 1 \in 0 .. n
      OBVIOUS
    <3> HIDE DEF V
    <3>2. f[k - 1] \in V /\ f[k] = Next1[k][f[k - 1]]
      BY <1>5, <3>1 DEF Follows
    <3> QED
      BY <1>3, <3>2
  <2>2. 1 \in 1 .. n /\ 1 - 1 = 0 /\ f[0] = <<>>
    BY <1>5 DEF Follows
  <2>3. f[1] = <<>> \o seqs[1] /\ seqs[1] \in Seq(U)
    BY <2>1, <2>2
  <2>4. \A s \in Seq(U) : <<>> \o s = s
    BY ConcatEmptySeq
  <2>5. f[1] = seqs[1]
    BY <2>3, <2>4
  <2>6. 2 .. n \subseteq 1 .. n
    OBVIOUS
  <2> QED
    BY <2>1, <2>5, <2>6
<1> DEFINE g == [k \in 1 .. n |-> f[k]]
<1>7. g = Body(g)
  <2>1. ASSUME NEW k \in 1 .. n PROVE g[k] = IF k = 1 THEN seqs[k] ELSE g[k - 1] \o seqs[k]
    <3>1. CASE k = 1
      BY <1>6, <3>1
    <3>2. CASE k # 1
      <4>1. k \in 2 .. n /\ k - 1 \in 1 .. n
        BY <3>2
      <4>2. g[k - 1] = f[k - 1] /\ g[k] = f[k]
        BY <4>1
      <4> HIDE DEF g
      <4> QED
        BY <1>6, <3>2, <4>1, <4>2
    <3> QED
      BY <3>1, <3>2
  <2>2. g = [k \in 1 .. n |-> g[k]]
    OBVIOUS
  <2> HIDE DEF g
  <2> QED
    BY <2>1, <2>2
<1>8. flat = Body(flat)
  <2> HIDE DEF Body, g
  <2> QED
    BY <1>7
<1> HIDE DEF flat
<1>9. flat[1] = seqs[1] /\ \A k \in 2 .. n : flat[k] = flat[k - 1] \o seqs[k]
  <2>1. \A k \in 1 .. n : flat[k] = IF k = 1 THEN seqs[k] ELSE flat[k - 1] \o seqs[k]
    BY <1>8
  <2>2. 1 \in 1 .. n /\ \A k \in 2 .. n : k \in 1 .. n /\ k # 1
    OBVIOUS
  <2> QED
    BY <2>1, <2>2
<1> QED
  BY <1>2, <1>9 DEF Flattens

(* An outline of a loop, from those of its passes.                         *)
LEMMA OutlineFlat ==
  ASSUME NEW o, NEW n \in Nat, NEW at \in [0 .. n -> Assertions(o)], NEW Any, NEW seqs \in [1 .. n -> Any],
         \A k \in 1 .. n : Outlines(o, at[k - 1], seqs[k], at[k])
  PROVE  Outlines(o, at[0], Cuda!FlattenSeq(seqs), at[n])
<1>1. CASE n = 0
  <2>1. seqs = <<>> /\ Len(<<>>) = 0
    BY <1>1
  <2>2. Cuda!FlattenSeq(seqs) = <<>>
    BY <2>1 DEF Cuda!FlattenSeq
  <2> QED
    BY <1>1, <2>2, OutlineEmpty
<1>2. CASE n # 0
  <2> DEFINE U == UNION {{seqs[k][j] : j \in 1 .. Len(seqs[k])} : k \in 1 .. n}
  <2>1. ASSUME NEW k \in 1 .. n PROVE seqs[k] \in Seq(U)
    <3>1. PICK S : seqs[k] \in Seq(S)
      BY DEF Outlines
    <3>2. Len(seqs[k]) \in Nat /\ seqs[k] \in [1 .. Len(seqs[k]) -> S]
      BY <3>1, LenProperties
    <3>3. \A j \in 1 .. Len(seqs[k]) : seqs[k][j] \in U
      OBVIOUS
    <3> HIDE DEF U
    <3>4. seqs[k] \in [1 .. Len(seqs[k]) -> U]
      BY <3>2, <3>3
    <3> QED
      BY <3>2, <3>4
  <2> HIDE DEF U
  <2>2. PICK flat : Flattens(flat, n, seqs)
    <3>1. seqs \in [1 .. n -> Seq(U)]
      BY <2>1
    <3>2. n \in Nat \ {0}
      BY <1>2
    <3> QED
      BY <3>1, <3>2, FlatIs
  <2> DEFINE T == {k \in Nat : k + 1 <= n => Outlines(o, at[0], flat[k + 1], at[k + 1])}
  <2>3. 0 \in T
    BY <1>2, <2>2 DEF Flattens
  <2>4. ASSUME NEW k \in Nat, k \in T PROVE k + 1 \in T
    <3> SUFFICES ASSUME k + 1 + 1 <= n PROVE Outlines(o, at[0], flat[k + 1 + 1], at[k + 1 + 1])
      OBVIOUS
    <3>1. k + 1 + 1 \in 2 .. n /\ k + 1 + 1 \in 1 .. n /\ k + 1 + 1 - 1 = k + 1 /\ k + 1 <= n
      OBVIOUS
    <3>2. Outlines(o, at[0], flat[k + 1], at[k + 1])
      BY <2>4, <3>1
    <3>3. Outlines(o, at[k + 1], seqs[k + 1 + 1], at[k + 1 + 1])
      BY <3>1
    <3>4. flat[k + 1 + 1] = flat[k + 1] \o seqs[k + 1 + 1]
      <4> DEFINE m == k + 1 + 1
      <4>1. m \in 2 .. n /\ m - 1 = k + 1
        BY <3>1
      <4> HIDE DEF m
      <4>2. flat[m] = flat[m - 1] \o seqs[m]
        BY <2>2, <4>1 DEF Flattens
      <4> QED
        BY <4>1, <4>2 DEF m
    <3> QED
      BY <3>2, <3>3, <3>4, OutlineConcat
  <2>5. \A k \in Nat : k \in T
    <3> HIDE DEF T
    <3> QED
      BY <2>3, <2>4, ZeroAndNext
  <2>6. n - 1 \in T
    <3>1. n - 1 \in Nat
      BY <1>2
    <3> HIDE DEF T
    <3> QED
      BY <2>5, <3>1
  <2> QED
    BY <1>2, <2>2, <2>6 DEF Flattens
<1> QED
  BY <1>1, <1>2

LEMMA OutlineTwo ==
  ASSUME NEW o, NEW a \in Assertions(o), NEW b \in Assertions(o), NEW c \in Assertions(o),
         NEW i, NEW j, Leads(o, a, i, b), Leads(o, b, j, c)
  PROVE  Outlines(o, a, <<i, j>>, c)
<1>1. <<i, j>> = <<i>> \o <<j>>
  <2>1. <<i>> \in Seq({i, j}) /\ <<j>> \in Seq({i, j}) /\ Len(<<i>>) = 1 /\ Len(<<j>>) = 1
    OBVIOUS
  <2> DEFINE both == <<i>> \o <<j>>
  <2>2. both \in Seq({i, j}) /\ Len(both) = 2 /\ both[1] = i /\ both[2] = j
    BY <2>1, ConcatProperties
  <2> HIDE DEF both
  <2>3. both = <<i, j>>
    BY <2>2
  <2> QED
    BY <2>3 DEF both
<1>2. Outlines(o, a, <<i>>, b) /\ Outlines(o, b, <<j>>, c)
  BY OutlineOne
<1>3. Outlines(o, a, <<i>> \o <<j>>, c)
  BY <1>2, OutlineConcat
<1> QED
  BY <1>1, <1>3

LEMMA OutlineThree ==
  ASSUME NEW o, NEW a \in Assertions(o), NEW b \in Assertions(o), NEW c \in Assertions(o), NEW d \in Assertions(o),
         NEW i, NEW j, NEW k, Leads(o, a, i, b), Leads(o, b, j, c), Leads(o, c, k, d)
  PROVE  Outlines(o, a, <<i, j, k>>, d)
<1>1. <<i, j, k>> = <<i, j>> \o <<k>>
  OBVIOUS
<1>2. Outlines(o, a, <<i, j>>, c) /\ Outlines(o, c, <<k>>, d)
  BY OutlineOne, OutlineTwo
<1>3. Outlines(o, a, <<i, j>> \o <<k>>, d)
  BY <1>2, OutlineConcat
<1> QED
  BY <1>1, <1>3

LEMMA OutlineFour ==
  ASSUME NEW o, NEW a \in Assertions(o), NEW b \in Assertions(o), NEW c \in Assertions(o), NEW d \in Assertions(o),
         NEW e \in Assertions(o), NEW i, NEW j, NEW k, NEW l,
         Leads(o, a, i, b), Leads(o, b, j, c), Leads(o, c, k, d), Leads(o, d, l, e)
  PROVE  Outlines(o, a, <<i, j, k, l>>, e)
<1>1. <<i, j, k, l>> = <<i, j>> \o <<k, l>>
  OBVIOUS
<1>2. Outlines(o, a, <<i, j>>, c) /\ Outlines(o, c, <<k, l>>, e)
  BY OutlineTwo
<1>3. Outlines(o, a, <<i, j>> \o <<k, l>>, e)
  BY <1>2, OutlineConcat
<1> QED
  BY <1>1, <1>3

-----------------------------------------------------------------------------
(* Nothing is issued.                                                      *)
Nothing == [issued |-> {}, known |-> {}, cover |-> [s \in Cuda!StreamNames |-> {}]]

Provable(prog) ==
  \E o, b : IsOrder(o) /\ IsRaceFree(o) /\ Outlines(o, Nothing, prog, b)

(* A program begins with its outline, and keeps to it.                     *)
LEMMA OutlinedAtFirst ==
  ASSUME Cuda!Init, Provable(program)
  PROVE  \E o, need : Outlined(o, need)
<1>1. PICK o, b : IsOrder(o) /\ IsRaceFree(o) /\ Outlines(o, Nothing, program, b)
  BY DEF Provable
<1>2. PICK S, need : program \in Seq(S) /\ IsOutline(o, need, program) /\ need[1] = Nothing
  BY <1>1 DEF Outlines
<1>3. /\ program \in Cuda!Programs /\ issued = 0 /\ frontier = [s \in Cuda!StreamNames |-> {}]
      /\ waiting = {} /\ running = {} /\ done = {} /\ version_in = [b1 \in Cuda!Buffers |-> 0]
  BY DEF Cuda!Init
<1>4. need[issued + 1] = Nothing /\ Started = {}
  BY <1>2, <1>3 DEF Started
<1>5. Len(program) \in Nat /\ DOMAIN program = 1 .. Len(program)
  BY <1>2, LenProperties
<1>6. StreamTypes(o, need)
  BY <1>1, <1>2, <1>3, <1>5 DEF StreamTypes
<1>7. Once(o, need) /\ InOrder(o) /\ Versions(o)
  BY <1>3, <1>4 DEF Once, InOrder, Versions
<1>8. Awaited(o, need)
  BY <1>3, <1>4 DEF Awaited, Nothing
<1> QED
  BY <1>6, <1>7, <1>8 DEF Outlined

LEMMA OutlinedStep ==
  ASSUME NEW o, NEW need, Outlined(o, need), Cuda!Next
  PROVE  Outlined(o, need)'
<1>1. CASE Cuda!Issue
  BY <1>1, IssueKeeps
<1>2. CASE \E w \in waiting : Cuda!Start(w)
  BY <1>2, StartKeeps
<1>3. CASE \E i \in running : Cuda!Finish(i)
  BY <1>3, FinishKeeps
<1> QED
  BY <1>1, <1>2, <1>3 DEF Cuda!Next

-----------------------------------------------------------------------------
(* DualStream: the operations of a layer, those before each of them, what  *)
(* they write, and whose results they read.                                *)
LayerOps(two) ==
  {"pack", "to_heads", "sum", "mean", "gate", "softmax_compute", "soft", "project"}
  \union IF two THEN {"linear_compute", "linear"} ELSE {}

Gated == {"pack", "to_heads", "sum", "gate"}

Earlier(two, a) ==
  CASE a = "pack"            -> {}
    [] a = "to_heads"        -> {"pack"}
    [] a = "sum"             -> {"pack"}
    [] a = "mean"            -> {"pack", "sum"}
    [] a = "gate"            -> {"pack", "to_heads", "sum"}
    [] a = "softmax_compute" -> Gated
    [] a = "soft"            -> Gated \union {"softmax_compute"}
    [] a = "linear_compute"  -> Gated \union {"mean"}
    [] a = "linear"          -> Gated \union {"mean", "linear_compute"}
    [] a = "project"         -> LayerOps(two) \ {"project"}

Written(a) ==
  CASE a = "pack"            -> "qkv_send"
    [] a = "to_heads"        -> "qkv_recv"
    [] a = "sum"             -> "frame_sums"
    [] a = "mean"            -> "sums"
    [] a = "gate"            -> "linear_gate"
    [] a = "softmax_compute" -> "soft_send"
    [] a = "soft"            -> "soft_recv"
    [] a = "linear_compute"  -> "linear_send"
    [] a = "linear"          -> "linear_recv"

From(two, a) ==
  CASE a = "to_heads"        -> {"pack"}
    [] a = "mean"            -> {"sum"}
    [] a = "softmax_compute" -> {"to_heads"}
    [] a = "soft"            -> {"softmax_compute"}
    [] a = "linear_compute"  -> {"to_heads", "gate", "mean"}
    [] a = "linear"          -> {"linear_compute"}
    [] a = "project"         -> {"soft"} \union IF two THEN {"linear"} ELSE {}
    [] OTHER                 -> {}

LEMMA KindsAre ==
  ASSUME NEW two \in BOOLEAN, NEW a \in LayerOps(two)
  PROVE  /\ Earlier(two, a) \in SUBSET LayerOps(two) /\ a \notin Earlier(two, a)
         /\ \A b \in Earlier(two, a) : Earlier(two, b) \subseteq Earlier(two, a)
         /\ From(two, a) \subseteq Earlier(two, a) /\ "project" \notin From(two, a)
         /\ a # "reuse"
<1>1. Earlier(two, a) \in SUBSET LayerOps(two) /\ a \notin Earlier(two, a) /\ a # "reuse"
  BY DEF LayerOps, Earlier, Gated
<1>2. From(two, a) \subseteq Earlier(two, a) /\ "project" \notin From(two, a)
  BY DEF LayerOps, Earlier, From, Gated
<1>3. ASSUME NEW b \in Earlier(two, a) PROVE Earlier(two, b) \subseteq Earlier(two, a)
  <2>1. CASE a = "project"
    BY <1>3, <2>1 DEF LayerOps, Earlier, Gated
  <2>2. CASE a # "project"
    BY <1>3, <2>2 DEF LayerOps, Earlier, Gated
  <2> QED
    BY <2>1, <2>2
<1> QED
  BY <1>1, <1>2, <1>3

LEMMA WrittenByOne ==
  ASSUME NEW two \in BOOLEAN, NEW a \in LayerOps(two) \ {"project"}
  PROVE  /\ Written(a) \in Cuda!DualBuffers
         /\ \A b \in LayerOps(two) \ {"project"} : Written(a) = Written(b) => a = b
<1>1. Written(a) \in Cuda!DualBuffers
  BY DEF LayerOps, Written, Cuda!DualBuffers
<1>2. ASSUME NEW b \in LayerOps(two) \ {"project"}, a # b PROVE Written(a) # Written(b)
  BY <1>2 DEF LayerOps, Written
<1> QED
  BY <1>1, <1>2

(* A layer comes after those before it; the buffers are given up at last.  *)
InLayers(two) == LayerOps(two) \X (1 .. Layers)
DualOps(two) == InLayers(two) \union {<<"reuse", 0>>}

BeforeDual(two, x) ==
  IF x[1] = "reuse" THEN InLayers(two)
  ELSE {y \in InLayers(two) : y[2] < x[2] \/ (y[2] = x[2] /\ y[1] \in Earlier(two, x[1]))}

DualOrder(two) ==
  [ops    |-> DualOps(two),
   before |-> [x \in DualOps(two) |-> BeforeDual(two, x)],
   writes |-> [x \in DualOps(two) |-> IF x[1] = "reuse" THEN Cuda!DualBuffers \X {0}
                                         ELSE {<<Written(a), x[2]>> : a \in {x[1]} \ {"project"}}],
   reads  |-> [x \in DualOps(two) |-> {<<Written(a), x[2]>> : a \in From(two, x[1])}]]

LEMMA DualIs ==
  ASSUME NEW two \in BOOLEAN, NEW x \in DualOps(two), Layers \in Nat
  PROVE  LET o == DualOrder(two) IN
         /\ o.ops = DualOps(two)
         /\ o.before \in [DualOps(two) -> SUBSET DualOps(two)]
         /\ o.before[x] = BeforeDual(two, x) /\ o.before[x] \subseteq InLayers(two)
         /\ x[1] # "reuse" <=> x \in InLayers(two)
         /\ x \in InLayers(two) => /\ x[1] \in LayerOps(two) /\ x[2] \in 1 .. Layers /\ x = <<x[1], x[2]>>
                                       /\ o.writes[x] = {<<Written(a), x[2]>> : a \in {x[1]} \ {"project"}}
                                       /\ o.reads[x] = {<<Written(a), x[2]>> : a \in From(two, x[1])}
         /\ x \notin InLayers(two) => /\ x = <<"reuse", 0>> /\ o.before[x] = InLayers(two)
                                          /\ o.reads[x] = {} /\ o.writes[x] = Cuda!DualBuffers \X {0}
<1>1. ASSUME NEW y \in DualOps(two) PROVE BeforeDual(two, y) \in SUBSET DualOps(two)
  BY DEF BeforeDual, DualOps
<1>2. x \in InLayers(two) => x[1] \in LayerOps(two) /\ x[2] \in 1 .. Layers /\ x = <<x[1], x[2]>> /\ x[1] # "reuse"
  BY KindsAre DEF InLayers
<1>3. x \notin InLayers(two) => x = <<"reuse", 0>> /\ x[1] = "reuse"
  BY DEF DualOps
<1>4. BeforeDual(two, x) \subseteq InLayers(two)
  BY DEF BeforeDual
<1>5. From(two, "reuse") = {}
  BY DEF From
<1> QED
  BY <1>1, <1>2, <1>3, <1>4, <1>5 DEF DualOrder, BeforeDual

(* The operations are partially ordered.                                   *)
LEMMA DualIsOrder ==
  ASSUME NEW two \in BOOLEAN, Layers \in Nat
  PROVE  IsOrder(DualOrder(two))
<1> DEFINE o == DualOrder(two)
<1>1. o.ops = DualOps(two) /\ \A x \in DualOps(two) : o.before[x] = BeforeDual(two, x)
  BY DEF DualOrder
<1>2. o.before \in [o.ops -> SUBSET o.ops] /\ <<>> \notin o.ops
  <2>1. <<"reuse", 0>> \in DualOps(two)
    BY DEF DualOps
  <2>2. <<>> \notin DualOps(two)
    BY DEF DualOps, InLayers
  <2> QED
    BY <2>1, <2>2, DualIs
<1>3. ASSUME NEW x \in DualOps(two) PROVE x \notin BeforeDual(two, x)
  BY KindsAre DEF BeforeDual, DualOps, InLayers
<1>4. ASSUME NEW x \in DualOps(two), NEW y \in BeforeDual(two, x)
      PROVE  BeforeDual(two, y) \subseteq BeforeDual(two, x)
  <2>1. y \in InLayers(two) /\ y[1] \in LayerOps(two) /\ y[2] \in 1 .. Layers /\ y[1] # "reuse"
    BY DualIs DEF BeforeDual, DualOps
  <2>2. CASE x[1] = "reuse"
    BY <2>1, <2>2 DEF BeforeDual
  <2>3. CASE x[1] # "reuse"
    <3>1. x[1] \in LayerOps(two) /\ x[2] \in 1 .. Layers
      BY <2>3, DualIs
    <3> SUFFICES ASSUME NEW z \in BeforeDual(two, y) PROVE z \in BeforeDual(two, x)
      OBVIOUS
    <3>2. /\ y[2] < x[2] \/ (y[2] = x[2] /\ y[1] \in Earlier(two, x[1]))
          /\ z \in InLayers(two)
          /\ z[2] < y[2] \/ (z[2] = y[2] /\ z[1] \in Earlier(two, y[1]))
      BY <2>1, <2>3 DEF BeforeDual
    <3>3. z[2] \in 1 .. Layers
      BY <3>2 DEF InLayers
    <3>4. y[1] \in Earlier(two, x[1]) => Earlier(two, y[1]) \subseteq Earlier(two, x[1])
      BY <3>1, KindsAre
    <3>5. z[2] < x[2] \/ (z[2] = x[2] /\ z[1] \in Earlier(two, x[1]))
      BY <2>1, <3>1, <3>2, <3>3, <3>4
    <3> QED
      BY <2>3, <3>2, <3>5 DEF BeforeDual
  <2> QED
    BY <2>2, <2>3
<1> HIDE DEF o
<1>5. \A x \in o.ops : o.before[x] \subseteq DualOps(two)
  BY <1>1, <1>2
<1> QED
  BY <1>1, <1>2, <1>3, <1>4, <1>5 DEF IsOrder, o

(* Where two of them touch a buffer that one writes, they are in order: a  *)
(* layer overwrites nothing before the one before has read it.             *)
LEMMA DualIsRaceFree ==
  ASSUME NEW two \in BOOLEAN, Layers \in Nat
  PROVE  IsRaceFree(DualOrder(two))
<1> DEFINE o == DualOrder(two)
           Inside == InLayers(two)
<1>1. o.ops = DualOps(two)
  BY DEF DualOrder
<1>2. ASSUME NEW x \in DualOps(two)
      PROVE  /\ o.before[x] = BeforeDual(two, x) /\ o.before[x] \subseteq Inside /\ (x[1] # "reuse" <=> x \in Inside)
             /\ x \in Inside => /\ x[1] \in LayerOps(two) /\ x[2] \in 1 .. Layers /\ x = <<x[1], x[2]>>
                                /\ o.writes[x] = {<<Written(a), x[2]>> : a \in {x[1]} \ {"project"}}
                                /\ o.reads[x] = {<<Written(a), x[2]>> : a \in From(two, x[1])}
             /\ x \notin Inside => /\ x = <<"reuse", 0>> /\ o.before[x] = Inside
                                   /\ o.reads[x] = {} /\ o.writes[x] = Cuda!DualBuffers \X {0}
  BY <1>2, DualIs
<1> HIDE DEF o, Inside
<1>3. ASSUME NEW x \in Inside, NEW y \in Inside
      PROVE  y \in o.before[x] <=> y[2] < x[2] \/ (y[2] = x[2] /\ y[1] \in Earlier(two, x[1]))
  <2>1. x \in DualOps(two) /\ y \in DualOps(two)
    BY DEF Inside, DualOps
  <2> QED
    BY <1>2, <2>1 DEF BeforeDual, Inside
<1>4. Inside \subseteq DualOps(two)
  BY DEF Inside, DualOps
<1>5. ASSUME NEW x \in DualOps(two), NEW v \in o.writes[x], NEW w \in o.writes[x], v[1] = w[1] PROVE v = w
  BY <1>2, <1>5
<1>6. ASSUME NEW x \in DualOps(two), NEW y \in DualOps(two), NEW w \in o.writes[x],
             NEW v \in o.writes[y] \union o.reads[y], w[1] = v[1], x # y
      PROVE  x \in o.before[y] \/ y \in o.before[x]
  <2>1. CASE x \in Inside /\ y \in Inside
    <3>1. x[1] # "project" /\ w[1] = Written(x[1])
      BY <1>2, <2>1
    <3>2. PICK a \in ({y[1]} \ {"project"}) \union From(two, y[1]) : v[1] = Written(a)
      BY <1>2, <2>1
    <3>3. x[1] \in LayerOps(two) /\ y[1] \in LayerOps(two) /\ x[2] \in 1 .. Layers /\ y[2] \in 1 .. Layers
          /\ x = <<x[1], x[2]>> /\ y = <<y[1], y[2]>>
      BY <1>2, <2>1
    <3>4. a \in LayerOps(two) \ {"project"} /\ (a \in From(two, y[1]) => a \in Earlier(two, y[1]))
      BY <3>2, <3>3, KindsAre
    <3>5. x[1] = a
      BY <1>6, <3>1, <3>2, <3>3, <3>4, WrittenByOne
    <3>6. CASE x[2] = y[2]
      <4>1. x[1] \in Earlier(two, y[1])
        BY <1>6, <3>2, <3>3, <3>4, <3>5, <3>6
      <4> QED
        BY <1>3, <2>1, <3>6, <4>1
    <3>7. CASE x[2] # y[2]
      BY <1>3, <2>1, <3>3, <3>7
    <3> QED
      BY <3>6, <3>7
  <2>2. CASE x \notin Inside \/ y \notin Inside
    BY <1>2, <1>6, <2>2
  <2> QED
    BY <2>1, <2>2
<1>7. ASSUME NEW x \in DualOps(two), NEW r \in o.reads[x]
      PROVE  \E y \in o.before[x] :
               /\ r \in o.writes[y]
               /\ \A z \in DualOps(two) \ {y} : Touches(o, z, r[1]) => z \in o.before[y] \/ x \in o.before[z]
  <2>1. x \in Inside
    BY <1>2
  <2>2. PICK a \in From(two, x[1]) : r = <<Written(a), x[2]>>
    BY <1>2, <2>1
  <2>3. x[1] \in LayerOps(two) /\ x[2] \in 1 .. Layers
    BY <1>2, <2>1
  <2>4. a \in LayerOps(two) \ {"project"} /\ a \in Earlier(two, x[1])
    BY <2>2, <2>3, KindsAre
  <2> DEFINE y == <<a, x[2]>>
  <2>5. y \in Inside /\ y[1] = a /\ y[2] = x[2]
    BY <2>3, <2>4 DEF Inside, InLayers
  <2> HIDE DEF y
  <2>6. y \in o.before[x]
    BY <1>3, <2>1, <2>4, <2>5
  <2>7. r \in o.writes[y]
    BY <1>2, <1>4, <2>2, <2>4, <2>5
  <2>8. ASSUME NEW z \in DualOps(two) \ {y}, Touches(o, z, r[1])
        PROVE  z \in o.before[y] \/ x \in o.before[z]
    <3>1. CASE z \in Inside
      <4>1. /\ z[1] \in LayerOps(two) \ {"project"} /\ z[2] \in 1 .. Layers /\ z = <<z[1], z[2]>>
            /\ Written(z[1]) = Written(a)
        BY <1>2, <2>2, <2>8, <3>1 DEF Touches
      <4>2. z[1] = a
        BY <2>4, <4>1, WrittenByOne
      <4>3. z[2] # x[2]
        BY <2>8, <4>1, <4>2 DEF y
      <4> QED
        BY <1>3, <2>1, <2>3, <2>5, <3>1, <4>1, <4>3
    <3>2. CASE z \notin Inside
      BY <1>2, <2>1, <3>2
    <3> QED
      BY <3>1, <3>2
  <2> QED
    BY <2>6, <2>7, <2>8
<1> QED
  BY <1>1, <1>5, <1>6, <1>7 DEF IsRaceFree, o

(* In layer k, after operations I of it: before what comes next on the     *)
(* main stream, M of it and the earlier layers are over, and before what   *)
(* comes next on the side stream S, if that has waited for any.            *)
Layered(two, k) == LayerOps(two) \X (1 .. k - 1)
InLayer(k, S) == {<<a, k>> : a \in S}

Holds(two, k, M, S) ==
  [s \in Cuda!StreamNames |-> IF s = "main" THEN Layered(two, k) \union InLayer(k, M)
                             ELSE IF s = "side" /\ S # {} THEN Layered(two, k) \union InLayer(k, S)
                             ELSE {}]

At(two, k, M, S, I) ==
  [issued |-> Layered(two, k) \union InLayer(k, I), known |-> {}, cover |-> Holds(two, k, M, S)]

LEMMA AtTypes ==
  ASSUME NEW two \in BOOLEAN, Layers \in Nat, NEW k \in 1 .. Layers,
         NEW M \in SUBSET LayerOps(two), NEW S \in SUBSET LayerOps(two), NEW I \in SUBSET LayerOps(two)
  PROVE  At(two, k, M, S, I) \in Assertions(DualOrder(two))
<1>1. DualOrder(two).ops = DualOps(two)
  BY DEF DualOrder
<1>2. Layered(two, k) \subseteq DualOps(two)
  BY DEF Layered, DualOps, InLayers
<1>3. \A N \in SUBSET LayerOps(two) : InLayer(k, N) \subseteq DualOps(two)
  BY DEF InLayer, DualOps, InLayers
<1>4. Holds(two, k, M, S) \in [Cuda!StreamNames -> SUBSET DualOps(two)]
  BY <1>2, <1>3 DEF Holds
<1> QED
  BY <1>1, <1>2, <1>3, <1>4 DEF At, Assertions

(* The operations of a layer, and what is before them.                     *)
LEMMA OpOfLayer ==
  ASSUME NEW two \in BOOLEAN, Layers \in Nat, NEW k \in 1 .. Layers, NEW a \in LayerOps(two)
  PROVE  LET o == DualOrder(two)
             x == <<a, k>>
         IN  /\ x \in o.ops /\ x \in DualOps(two) /\ x # <<>>
             /\ o.before[x] = Layered(two, k) \union InLayer(k, Earlier(two, a))
             /\ o.writes[x] = {<<Written(b), k>> : b \in {a} \ {"project"}}
             /\ o.reads[x] = {<<Written(b), k>> : b \in From(two, a)}
             /\ \A N : x \in InLayer(k, N) <=> a \in N
             /\ x \notin Layered(two, k)
<1> DEFINE o == DualOrder(two)
           x == <<a, k>>
<1>1. x \in InLayers(two) /\ x \in DualOps(two) /\ o.ops = DualOps(two)
  BY DEF InLayers, DualOps, DualOrder
<1>2. x[1] = a /\ x[2] = k /\ a # "reuse"
  BY KindsAre
<1>3. o.before[x] = BeforeDual(two, x)
  BY <1>1 DEF DualOrder
<1>4. BeforeDual(two, x) = {y \in InLayers(two) : y[2] < k \/ (y[2] = k /\ y[1] \in Earlier(two, a))}
  BY <1>2 DEF BeforeDual
<1>5. Earlier(two, a) \subseteq LayerOps(two)
  BY KindsAre
<1>6. {y \in InLayers(two) : y[2] < k \/ (y[2] = k /\ y[1] \in Earlier(two, a))}
        = Layered(two, k) \union InLayer(k, Earlier(two, a))
  <2>1. ASSUME NEW y \in InLayers(two), y[2] < k \/ (y[2] = k /\ y[1] \in Earlier(two, a))
        PROVE  y \in Layered(two, k) \union InLayer(k, Earlier(two, a))
    BY <2>1 DEF InLayers, Layered, InLayer
  <2>2. ASSUME NEW y \in Layered(two, k) PROVE y \in InLayers(two) /\ y[2] < k
    BY DEF InLayers, Layered
  <2>3. ASSUME NEW y \in InLayer(k, Earlier(two, a))
        PROVE  y \in InLayers(two) /\ y[2] = k /\ y[1] \in Earlier(two, a)
    BY <1>5 DEF InLayers, InLayer
  <2> QED
    BY <2>1, <2>2, <2>3
<1>7. x \notin Layered(two, k) /\ \A N : x \in InLayer(k, N) <=> a \in N
  BY DEF Layered, InLayer
<1>8. /\ o.writes[x] = {<<Written(b), k>> : b \in {a} \ {"project"}}
      /\ o.reads[x] = {<<Written(b), k>> : b \in From(two, a)}
  BY <1>1, <1>2 DEF DualOrder
<1> QED
  BY <1>1, <1>3, <1>4, <1>6, <1>7, <1>8

(* What the operations of a layer read and write.                          *)
Reads(two, k, a) == {<<Written(b), k>> : b \in From(two, a)}
Writes(k, a) == {<<Written(b), k>> : b \in {a} \ {"project"}}

LEMMA LayerWrites ==
  ASSUME NEW k
  PROVE  /\ Writes(k, "pack") = {<<"qkv_send", k>>} /\ Writes(k, "to_heads") = {<<"qkv_recv", k>>}
         /\ Writes(k, "sum") = {<<"frame_sums", k>>} /\ Writes(k, "mean") = {<<"sums", k>>}
         /\ Writes(k, "gate") = {<<"linear_gate", k>>} /\ Writes(k, "softmax_compute") = {<<"soft_send", k>>}
         /\ Writes(k, "soft") = {<<"soft_recv", k>>} /\ Writes(k, "linear_compute") = {<<"linear_send", k>>}
         /\ Writes(k, "linear") = {<<"linear_recv", k>>} /\ Writes(k, "project") = {}
<1>1. \A a : a # "project" => Writes(k, a) = {<<Written(a), k>>}
  BY DEF Writes
<1>2. Writes(k, "project") = {}
  BY DEF Writes
<1> QED
  BY <1>1, <1>2 DEF Written

LEMMA LayerReads ==
  ASSUME NEW two \in BOOLEAN, NEW k
  PROVE  /\ Reads(two, k, "pack") = {} /\ Reads(two, k, "to_heads") = {<<"qkv_send", k>>}
         /\ Reads(two, k, "sum") = {} /\ Reads(two, k, "mean") = {<<"frame_sums", k>>}
         /\ Reads(two, k, "gate") = {} /\ Reads(two, k, "softmax_compute") = {<<"qkv_recv", k>>}
         /\ Reads(two, k, "soft") = {<<"soft_send", k>>}
         /\ Reads(two, k, "linear_compute") = {<<"qkv_recv", k>>, <<"linear_gate", k>>, <<"sums", k>>}
         /\ Reads(two, k, "linear") = {<<"linear_send", k>>}
         /\ Reads(two, k, "project") = {<<"soft_recv", k>>} \union (IF two THEN {<<"linear_recv", k>>} ELSE {})
<1>1. From(two, "pack") = {} /\ From(two, "sum") = {} /\ From(two, "gate") = {}
  BY DEF From
<1>2. From(two, "to_heads") = {"pack"} /\ From(two, "mean") = {"sum"} /\ From(two, "softmax_compute") = {"to_heads"}
  BY DEF From
<1>3. From(two, "soft") = {"softmax_compute"} /\ From(two, "linear_compute") = {"to_heads", "gate", "mean"}
  BY DEF From
<1>4. From(two, "linear") = {"linear_compute"} /\ From(two, "project") = {"soft"} \union IF two THEN {"linear"} ELSE {}
  BY DEF From
<1>5. /\ Written("pack") = "qkv_send" /\ Written("to_heads") = "qkv_recv" /\ Written("sum") = "frame_sums"
      /\ Written("mean") = "sums" /\ Written("gate") = "linear_gate" /\ Written("softmax_compute") = "soft_send"
      /\ Written("soft") = "soft_recv" /\ Written("linear_compute") = "linear_send" /\ Written("linear") = "linear_recv"
  BY DEF Written
<1>6. Reads(two, k, "pack") = {} /\ Reads(two, k, "sum") = {} /\ Reads(two, k, "gate") = {}
  BY <1>1 DEF Reads
<1>7. /\ Reads(two, k, "to_heads") = {<<"qkv_send", k>>} /\ Reads(two, k, "mean") = {<<"frame_sums", k>>}
      /\ Reads(two, k, "softmax_compute") = {<<"qkv_recv", k>>}
  BY <1>2, <1>5 DEF Reads
<1>8. /\ Reads(two, k, "soft") = {<<"soft_send", k>>} /\ Reads(two, k, "linear") = {<<"linear_send", k>>}
  BY <1>3, <1>4, <1>5 DEF Reads
<1>9. Reads(two, k, "linear_compute") = {<<"qkv_recv", k>>, <<"linear_gate", k>>, <<"sums", k>>}
  BY <1>3, <1>5 DEF Reads
<1>10. Reads(two, k, "project") = {<<"soft_recv", k>>} \union (IF two THEN {<<"linear_recv", k>>} ELSE {})
  BY <1>4, <1>5 DEF Reads
<1> QED
  BY <1>6, <1>7, <1>8, <1>9, <1>10

LEMMA EarlierIs ==
  ASSUME NEW two \in BOOLEAN
  PROVE  /\ Earlier(two, "pack") = {} /\ Earlier(two, "to_heads") = {"pack"} /\ Earlier(two, "sum") = {"pack"}
         /\ Earlier(two, "mean") = {"pack", "sum"} /\ Earlier(two, "gate") = {"pack", "to_heads", "sum"}
         /\ Earlier(two, "softmax_compute") = Gated /\ Earlier(two, "soft") = Gated \union {"softmax_compute"}
         /\ Earlier(two, "linear_compute") = Gated \union {"mean"}
         /\ Earlier(two, "linear") = Gated \union {"mean", "linear_compute"}
         /\ Earlier(two, "project") = LayerOps(two) \ {"project"}
BY DEF Earlier

LEMMA InLayerMonotonic ==
  ASSUME NEW k, NEW S, NEW T, S \subseteq T
  PROVE  InLayer(k, S) \subseteq InLayer(k, T)
BY DEF InLayer

(* An operation a waits for what is over on its own stream and on those it *)
(* is launched from.                                                       *)
LEMMA DualRuns ==
  ASSUME NEW two \in BOOLEAN, Layers \in Nat, NEW k \in 1 .. Layers, NEW a \in LayerOps(two),
         NEW M, NEW S, NEW I, a \notin I, NEW J, J = I \union {a},
         NEW on \in Cuda!StreamNames, NEW after \in SUBSET Cuda!StreamNames,
         (\/ "main" \in {on} \union after /\ Earlier(two, a) \subseteq M
          \/ "side" \in {on} \union after /\ Earlier(two, a) \subseteq S /\ S # {}),
         NEW reads, reads = Reads(two, k, a), NEW writes, writes = Writes(k, a),
         NEW M1, M1 \subseteq IF on = "main" THEN Earlier(two, a) \union {a} ELSE M,
         NEW S1, S1 \subseteq IF on = "side" THEN Earlier(two, a) \union {a} ELSE S
  PROVE  Leads(DualOrder(two), At(two, k, M, S, I), Cuda!Run(on, after, <<a, k>>, reads, writes),
               At(two, k, M1, S1, J))
<1> DEFINE o == DualOrder(two)
           x == <<a, k>>
           i == Cuda!Run(on, after, x, reads, writes)
           p == At(two, k, M, S, I)
           q == At(two, k, M1, S1, J)
           E == Earlier(two, a)
           B == Layered(two, k)
<1>1. /\ i.do = "run" /\ i.on = on /\ i.after = after /\ i.op = x /\ i.reads = reads /\ i.writes = writes
  BY DEF Cuda!Run
<1>2. /\ p.issued = B \union InLayer(k, I) /\ p.known = {}
      /\ p.cover["main"] = B \union InLayer(k, M)
      /\ p.cover["side"] = IF S # {} THEN B \union InLayer(k, S) ELSE {}
      /\ q.issued = B \union InLayer(k, J) /\ q.known = {}
      /\ q.cover["main"] = B \union InLayer(k, M1)
      /\ q.cover["side"] = IF S1 # {} THEN B \union InLayer(k, S1) ELSE {}
      /\ \A s \in Cuda!StreamNames \ {"main", "side"} : q.cover[s] = {}
  <2>1. /\ At(two, k, M, S, I).issued = Layered(two, k) \union InLayer(k, I) /\ At(two, k, M, S, I).known = {}
        /\ At(two, k, M, S, I).cover["main"] = Layered(two, k) \union InLayer(k, M)
        /\ At(two, k, M, S, I).cover["side"] = IF S # {} THEN Layered(two, k) \union InLayer(k, S) ELSE {}
    BY DEF At, Holds, Cuda!StreamNames
  <2>2. /\ At(two, k, M1, S1, J).issued = Layered(two, k) \union InLayer(k, J) /\ At(two, k, M1, S1, J).known = {}
        /\ At(two, k, M1, S1, J).cover["main"] = Layered(two, k) \union InLayer(k, M1)
        /\ At(two, k, M1, S1, J).cover["side"] = IF S1 # {} THEN Layered(two, k) \union InLayer(k, S1) ELSE {}
        /\ \A s \in Cuda!StreamNames \ {"main", "side"} : At(two, k, M1, S1, J).cover[s] = {}
    BY DEF At, Holds, Cuda!StreamNames
  <2> QED
    BY <2>1, <2>2
<1>3. /\ x \in o.ops /\ o.before[x] = B \union InLayer(k, E)
      /\ o.writes[x] = writes /\ o.reads[x] = reads
      /\ \A N : x \in InLayer(k, N) <=> a \in N
      /\ x \notin B
  BY OpOfLayer DEF Reads, Writes
<1>4. \A T \in SUBSET (E \union {a}) : B \union InLayer(k, T) \subseteq Through(o, x)
  BY <1>3 DEF Through, InLayer
<1>5. InLayer(k, J) = InLayer(k, I) \union {x}
  BY DEF InLayer
<1> HIDE DEF o, i, p, q, E, B, x
<1>6. x \notin p.issued /\ q.issued = p.issued \union {x}
  BY <1>2, <1>3, <1>5
<1>7. o.before[x] \subseteq p.cover[on] \union CoverOf(p, after)
  <2>1. CASE "main" \in {on} \union after /\ E \subseteq M
    <3>1. o.before[x] \subseteq p.cover["main"]
      BY <1>2, <1>3, <2>1, InLayerMonotonic
    <3> QED
      BY <2>1, <3>1 DEF CoverOf
  <2>2. CASE "side" \in {on} \union after /\ E \subseteq S /\ S # {}
    <3>1. o.before[x] \subseteq p.cover["side"]
      BY <1>2, <1>3, <2>2, InLayerMonotonic
    <3> QED
      BY <2>2, <3>1 DEF CoverOf
  <2> QED
    BY <2>1, <2>2 DEF E
<1>8. ASSUME NEW s \in Cuda!StreamNames
      PROVE  q.cover[s] \subseteq IF s = on THEN Through(o, x) ELSE p.cover[s]
  <2>1. CASE s = "main"
    <3>1. CASE s = on
      BY <1>2, <1>4, <2>1, <3>1 DEF E
    <3>2. CASE s # on
      BY <1>2, <2>1, <3>2, InLayerMonotonic
    <3> QED
      BY <3>1, <3>2
  <2>2. CASE s = "side"
    <3>1. CASE s = on
      BY <1>2, <1>4, <2>2, <3>1 DEF E
    <3>2. CASE s # on
      <4>1. S1 \subseteq S
        BY <2>2, <3>2
      <4> QED
        BY <1>2, <2>2, <3>2, <4>1, InLayerMonotonic
    <3> QED
      BY <3>1, <3>2
  <2>3. CASE s \notin {"main", "side"}
    BY <1>2, <2>3
  <2> QED
    BY <2>1, <2>2, <2>3
<1>9. Leads(o, p, i, q)
  BY <1>1, <1>2, <1>3, <1>6, <1>7, <1>8 DEF Leads, LeadsRun
<1> QED
  BY <1>9 DEF o, i, p, q, x

(* wait() of a collective: the stream goes on when it is over.             *)
LEMMA DualWaitsFor ==
  ASSUME NEW two \in BOOLEAN, Layers \in Nat, NEW k \in 1 .. Layers, NEW a \in LayerOps(two),
         NEW M, NEW S, NEW I, NEW on \in {"main", "side"},
         NEW M1, M1 \subseteq IF on = "main" THEN M \union Earlier(two, a) \union {a} ELSE M,
         NEW S1, S1 \subseteq IF on = "side" THEN S \union Earlier(two, a) \union {a} ELSE S
  PROVE  Leads(DualOrder(two), At(two, k, M, S, I), Cuda!WaitFor(on, <<a, k>>), At(two, k, M1, S1, I))
<1> DEFINE o == DualOrder(two)
           x == <<a, k>>
           i == Cuda!WaitFor(on, x)
           p == At(two, k, M, S, I)
           q == At(two, k, M1, S1, I)
           E == Earlier(two, a)
           B == Layered(two, k)
<1>1. i.do = "wait" /\ i.on = on /\ i.after = {} /\ i.op = x
  BY DEF Cuda!WaitFor
<1>2. /\ p.known = {} /\ p.cover["main"] = B \union InLayer(k, M)
      /\ p.cover["side"] = IF S # {} THEN B \union InLayer(k, S) ELSE {}
      /\ q.issued = p.issued /\ q.known = {} /\ q.cover["main"] = B \union InLayer(k, M1)
      /\ q.cover["side"] = IF S1 # {} THEN B \union InLayer(k, S1) ELSE {}
      /\ \A s \in Cuda!StreamNames \ {"main", "side"} : q.cover[s] = {}
  <2>1. /\ At(two, k, M, S, I).issued = Layered(two, k) \union InLayer(k, I) /\ At(two, k, M, S, I).known = {}
        /\ At(two, k, M, S, I).cover["main"] = Layered(two, k) \union InLayer(k, M)
        /\ At(two, k, M, S, I).cover["side"] = IF S # {} THEN Layered(two, k) \union InLayer(k, S) ELSE {}
    BY DEF At, Holds, Cuda!StreamNames
  <2>2. /\ At(two, k, M1, S1, I).issued = Layered(two, k) \union InLayer(k, I) /\ At(two, k, M1, S1, I).known = {}
        /\ At(two, k, M1, S1, I).cover["main"] = Layered(two, k) \union InLayer(k, M1)
        /\ At(two, k, M1, S1, I).cover["side"] = IF S1 # {} THEN Layered(two, k) \union InLayer(k, S1) ELSE {}
        /\ \A s \in Cuda!StreamNames \ {"main", "side"} : At(two, k, M1, S1, I).cover[s] = {}
    BY DEF At, Holds, Cuda!StreamNames
  <2> QED
    BY <2>1, <2>2
<1>3. x \in o.ops /\ x # <<>> /\ o.before[x] = B \union InLayer(k, E)
  BY OpOfLayer
<1>4. \A T, V : T \subseteq V \union E \union {a} => B \union InLayer(k, T) \subseteq InLayer(k, V) \union Through(o, x)
  BY <1>3 DEF Through, InLayer
<1>5. on \in Cuda!StreamNames
  BY DEF Cuda!StreamNames
<1> HIDE DEF o, i, p, q, E, B, x
<1>6. ASSUME NEW s \in Cuda!StreamNames
      PROVE  q.cover[s] \subseteq IF s # on THEN p.cover[s] ELSE p.cover[s] \union Through(o, x)
  <2>1. CASE s = "main"
    <3>1. CASE s = on
      <4>1. M1 \subseteq M \union E \union {a}
        BY <2>1, <3>1 DEF E
      <4> QED
        BY <1>2, <1>4, <2>1, <3>1, <4>1
    <3>2. CASE s # on
      BY <1>2, <2>1, <3>2, InLayerMonotonic
    <3> QED
      BY <3>1, <3>2
  <2>2. CASE s = "side"
    <3>1. CASE s = on
      <4>1. S1 \subseteq S \union E \union {a}
        BY <2>2, <3>1 DEF E
      <4>2. B \union InLayer(k, S1) \subseteq InLayer(k, S) \union Through(o, x)
        BY <1>4, <4>1
      <4>3. InLayer(k, S) \subseteq p.cover["side"]
        <5>1. S = {} => InLayer(k, S) = {}
          BY DEF InLayer
        <5> QED
          BY <1>2, <5>1
      <4> QED
        BY <1>2, <2>2, <3>1, <4>2, <4>3
    <3>2. CASE s # on
      <4>1. S1 \subseteq S
        BY <2>2, <3>2
      <4> QED
        BY <1>2, <2>2, <3>2, <4>1, InLayerMonotonic
    <3> QED
      BY <3>1, <3>2
  <2>3. CASE s \notin {"main", "side"}
    BY <1>2, <2>3
  <2> QED
    BY <2>1, <2>2, <2>3
<1> QED
  BY <1>1, <1>2, <1>3, <1>5, <1>6 DEF Leads, LeadsWait, o, i, p, q, x

(* wait_stream(): a stream also waits for what the other one waits for.    *)
LEMMA DualWaits ==
  ASSUME NEW two \in BOOLEAN, Layers \in Nat, NEW k \in 1 .. Layers + 1, NEW M, NEW S, NEW I,
         NEW on, NEW for, <<on, for>> \in {<<"main", "side">>, <<"side", "main">>},
         NEW M1, M1 \subseteq IF on = "main" THEN M \union S ELSE M,
         NEW S1, S1 \subseteq IF on = "side" THEN M \union S ELSE S
  PROVE  Leads(DualOrder(two), At(two, k, M, S, I), Cuda!Wait(on, for), At(two, k, M1, S1, I))
<1> DEFINE o == DualOrder(two)
           i == Cuda!Wait(on, for)
           p == At(two, k, M, S, I)
           q == At(two, k, M1, S1, I)
           B == Layered(two, k)
<1>1. i.do = "wait" /\ i.on = on /\ i.after = {for} /\ i.op = <<>>
  BY DEF Cuda!Wait
<1>2. /\ p.known = {} /\ p.cover["main"] = B \union InLayer(k, M)
      /\ p.cover["side"] = IF S # {} THEN B \union InLayer(k, S) ELSE {}
      /\ q.issued = p.issued /\ q.known = {} /\ q.cover["main"] = B \union InLayer(k, M1)
      /\ q.cover["side"] = IF S1 # {} THEN B \union InLayer(k, S1) ELSE {}
      /\ \A s \in Cuda!StreamNames \ {"main", "side"} : q.cover[s] = {}
  <2>1. /\ At(two, k, M, S, I).issued = Layered(two, k) \union InLayer(k, I) /\ At(two, k, M, S, I).known = {}
        /\ At(two, k, M, S, I).cover["main"] = Layered(two, k) \union InLayer(k, M)
        /\ At(two, k, M, S, I).cover["side"] = IF S # {} THEN Layered(two, k) \union InLayer(k, S) ELSE {}
    BY DEF At, Holds, Cuda!StreamNames
  <2>2. /\ At(two, k, M1, S1, I).issued = Layered(two, k) \union InLayer(k, I) /\ At(two, k, M1, S1, I).known = {}
        /\ At(two, k, M1, S1, I).cover["main"] = Layered(two, k) \union InLayer(k, M1)
        /\ At(two, k, M1, S1, I).cover["side"] = IF S1 # {} THEN Layered(two, k) \union InLayer(k, S1) ELSE {}
        /\ \A s \in Cuda!StreamNames \ {"main", "side"} : At(two, k, M1, S1, I).cover[s] = {}
    BY DEF At, Holds, Cuda!StreamNames
  <2> QED
    BY <2>1, <2>2
<1>3. on \in {"main", "side"} /\ for \in {"main", "side"} /\ on # for
  BY DEF Cuda!StreamNames
<1>4. on \in Cuda!StreamNames /\ for \in Cuda!StreamNames
  BY <1>3 DEF Cuda!StreamNames
<1> HIDE DEF o, i, p, q, B
<1>5. \A T \in SUBSET (M \union S) : B \union InLayer(k, T) \subseteq p.cover["main"] \union p.cover["side"]
  <2> SUFFICES ASSUME NEW T \in SUBSET (M \union S)
               PROVE  B \union InLayer(k, T) \subseteq p.cover["main"] \union p.cover["side"]
    OBVIOUS
  <2>1. InLayer(k, T) \subseteq InLayer(k, M) \union InLayer(k, S) /\ (S = {} => InLayer(k, S) = {})
    BY DEF InLayer
  <2> QED
    BY <1>2, <2>1
<1>6. CoverOf(p, {for}) = p.cover[for]
  BY DEF CoverOf
<1>7. ASSUME NEW s \in Cuda!StreamNames
      PROVE  q.cover[s] \subseteq IF s # on THEN p.cover[s] ELSE p.cover[s] \union p.cover[for]
  <2>1. CASE s = "main"
    <3>1. CASE s = on
      <4>1. for = "side"
        BY <1>3, <2>1, <3>1
      <4> QED
        BY <1>2, <1>5, <2>1, <3>1, <4>1
    <3>2. CASE s # on
      BY <1>2, <2>1, <3>2, InLayerMonotonic
    <3> QED
      BY <3>1, <3>2
  <2>2. CASE s = "side"
    <3>1. CASE s = on
      <4>1. for = "main"
        BY <1>3, <2>2, <3>1
      <4> QED
        BY <1>2, <1>5, <2>2, <3>1, <4>1
    <3>2. CASE s # on
      <4>1. S1 \subseteq S
        BY <2>2, <3>2
      <4> QED
        BY <1>2, <2>2, <3>2, <4>1, InLayerMonotonic
    <3> QED
      BY <3>1, <3>2
  <2>3. CASE s \notin {"main", "side"}
    BY <1>2, <2>3
  <2> QED
    BY <2>1, <2>2, <2>3
<1> QED
  BY <1>1, <1>2, <1>4, <1>6, <1>7 DEF Leads, LeadsWait, o, i, p, q

(* The assertions within one layer.                                        *)
LEMMA LayerTypes ==
  ASSUME NEW two \in BOOLEAN, Layers \in Nat, NEW k \in 1 .. Layers + 1
  PROVE  At(two, k, {}, {}, {}) \in Assertions(DualOrder(two))
<1>1. DualOrder(two).ops = DualOps(two)
  BY DEF DualOrder
<1>2. Layered(two, k) \subseteq DualOps(two)
  BY DEF Layered, DualOps, InLayers
<1>3. InLayer(k, {}) = {}
  BY DEF InLayer
<1>4. Holds(two, k, {}, {}) \in [Cuda!StreamNames -> SUBSET DualOps(two)]
  BY <1>2, <1>3 DEF Holds
<1> QED
  BY <1>1, <1>2, <1>3, <1>4 DEF At, Assertions

(* All of a layer is what the next one comes after.                        *)
LEMMA NextLayer ==
  ASSUME NEW two \in BOOLEAN, Layers \in Nat, NEW k \in 1 .. Layers
  PROVE  At(two, k, LayerOps(two), {}, LayerOps(two)) = At(two, k + 1, {}, {}, {})
<1>1. Layered(two, k) \union InLayer(k, LayerOps(two)) = Layered(two, k + 1)
  BY DEF Layered, InLayer
<1>2. InLayer(k + 1, {}) = {}
  BY DEF InLayer
<1>3. Holds(two, k, LayerOps(two), {}) = Holds(two, k + 1, {}, {})
  BY <1>1, <1>2 DEF Holds
<1> QED
  BY <1>1, <1>2, <1>3 DEF At

(* From the beginning of a layer to the next one, with or without the      *)
(* linear branch.                                                          *)
LEMMA LayerOutline ==
  ASSUME NEW two \in BOOLEAN, Layers \in Nat, NEW k \in 1 .. Layers
  PROVE  Outlines(DualOrder(two), At(two, k, {}, {}, {}), Cuda!Layer(k, two), At(two, k + 1, {}, {}, {}))
<1> DEFINE o == DualOrder(two)
           R(on, after, a) == Cuda!Run(on, after, <<a, k>>, Reads(two, k, a), Writes(k, a))
           p0 == At(two, k, {}, {}, {})
           p1 == At(two, k, {"pack"}, {}, {"pack"})
           p2 == At(two, k, {"pack"}, {}, {"pack", "to_heads"})
           p3 == At(two, k, {"pack", "sum"}, {}, {"pack", "to_heads", "sum"})
           p4 == At(two, k, {"pack", "sum"}, {}, {"pack", "to_heads", "sum", "mean"})
           p5 == At(two, k, {"pack", "sum", "to_heads"}, {}, {"pack", "to_heads", "sum", "mean"})
           p6 == At(two, k, Gated, {}, Gated \union {"mean"})
           p7 == At(two, k, Gated, Gated, Gated \union {"mean"})
           p8 == At(two, k, Gated \union {"softmax_compute"}, Gated, Gated \union {"mean", "softmax_compute"})
           I9 == Gated \union {"mean", "softmax_compute", "soft"}
           p9 == At(two, k, Gated \union {"softmax_compute"}, Gated, I9)
           p10 == At(two, k, Gated \union {"softmax_compute"}, Gated \union {"mean"}, I9)
           S == IF two THEN Gated \union {"mean", "linear_compute", "linear"} ELSE Gated \union {"mean"}
           I == IF two THEN I9 \union {"linear_compute", "linear"} ELSE I9
           p13 == At(two, k, Gated \union {"softmax_compute"}, S, I)
           p14 == At(two, k, LayerOps(two) \ {"soft", "project"}, S, I)
           p15 == At(two, k, LayerOps(two) \ {"project"}, S, I)
           p16 == At(two, k, LayerOps(two), {}, LayerOps(two))
           Streams == {"main", "side", "soft_group", "mean_group", "linear_group"}
<1>1. /\ Streams \subseteq Cuda!StreamNames
      /\ {"pack", "to_heads", "sum", "mean", "gate", "softmax_compute", "soft", "project"} \subseteq LayerOps(two)
      /\ two => {"linear_compute", "linear"} \subseteq LayerOps(two)
  BY DEF Cuda!StreamNames, LayerOps
<1>2. Leads(o, p0, R("main", {}, "pack"), p1)
  BY <1>1, DualRuns, EarlierIs
<1>3. Leads(o, p1, R("soft_group", {"main"}, "to_heads"), p2)
  BY <1>1, DualRuns, EarlierIs
<1>4. Leads(o, p2, R("main", {}, "sum"), p3)
  BY <1>1, DualRuns, EarlierIs
<1>5. Leads(o, p3, R("mean_group", {"main"}, "mean"), p4)
  BY <1>1, DualRuns, EarlierIs
<1>6. Leads(o, p4, Cuda!WaitFor("main", <<"to_heads", k>>), p5)
  BY <1>1, DualWaitsFor, EarlierIs
<1>7. Leads(o, p5, R("main", {}, "gate"), p6)
  BY <1>1, DualRuns, EarlierIs DEF Gated
<1>8. Leads(o, p6, Cuda!Wait("side", "main"), p7)
  BY <1>1, DualWaits
<1>9. Leads(o, p7, R("main", {}, "softmax_compute"), p8)
  BY <1>1, DualRuns, EarlierIs DEF Gated
<1>10. Leads(o, p8, R("soft_group", {"main"}, "soft"), p9)
  BY <1>1, DualRuns, EarlierIs DEF Gated
<1>11. Leads(o, p9, Cuda!WaitFor("side", <<"mean", k>>), p10)
  BY <1>1, DualWaitsFor, EarlierIs DEF Gated
<1>12. Outlines(o, p9, Cuda!LinearBranch(k, two), p13)
  <2>1. p9 \in Assertions(o) /\ p10 \in Assertions(o) /\ p13 \in Assertions(o)
    BY <1>1, AtTypes DEF Gated
  <2>2. CASE ~ two
    <3>1. p13 = p10 /\ Cuda!LinearBranch(k, two) = <<Cuda!WaitFor("side", <<"mean", k>>)>> \o <<>>
      BY <2>2 DEF Cuda!LinearBranch
    <3>2. Outlines(o, p9, <<Cuda!WaitFor("side", <<"mean", k>>)>>, p10) /\ Outlines(o, p10, <<>>, p10)
      BY <1>11, <2>1, OutlineOne, OutlineEmpty
    <3> QED
      BY <3>1, <3>2, OutlineConcat
  <2>3. CASE two
    <3> DEFINE p11 == At(two, k, Gated \union {"softmax_compute"}, Gated \union {"mean", "linear_compute"},
                         I9 \union {"linear_compute"})
               p12 == At(two, k, Gated \union {"softmax_compute"}, Gated \union {"mean", "linear_compute"}, I)
    <3>1. p11 \in Assertions(o) /\ p12 \in Assertions(o)
      BY <1>1, <2>3, AtTypes, ZenonT(60) DEF Gated
    <3>2. Leads(o, p10, R("side", {}, "linear_compute"), p11)
      BY <1>1, <2>3, DualRuns, EarlierIs DEF Gated
    <3>3. Leads(o, p11, R("linear_group", {"side"}, "linear"), p12)
      <4>1. "linear" \notin I9 \union {"linear_compute"} /\ I = (I9 \union {"linear_compute"}) \union {"linear"}
        BY <2>3 DEF Gated
      <4>2. Earlier(two, "linear") \subseteq Gated \union {"mean", "linear_compute"}
        BY EarlierIs
      <4>3. Gated \union {"mean", "linear_compute"} # {} /\ "linear" \in LayerOps(two)
        BY <1>1, <2>3
      <4> HIDE DEF I, I9
      <4> QED
        BY <1>1, <4>1, <4>2, <4>3, DualRuns
    <3>4. Leads(o, p12, Cuda!WaitFor("side", <<"linear", k>>), p13)
      BY <1>1, <2>3, DualWaitsFor, EarlierIs DEF Gated
    <3>5. Cuda!LinearBranch(k, two) =
            <<Cuda!WaitFor("side", <<"mean", k>>)>>
            \o <<R("side", {}, "linear_compute"), R("linear_group", {"side"}, "linear"),
                 Cuda!WaitFor("side", <<"linear", k>>)>>
      BY <2>3, LayerReads, LayerWrites DEF Cuda!LinearBranch, Cuda!ToRows
    <3> HIDE DEF o, p9, p10, p11, p12, p13, R
    <3>6. /\ Outlines(o, p9, <<Cuda!WaitFor("side", <<"mean", k>>)>>, p10)
          /\ Outlines(o, p10, <<R("side", {}, "linear_compute"), R("linear_group", {"side"}, "linear"),
                                Cuda!WaitFor("side", <<"linear", k>>)>>, p13)
      BY <1>11, <2>1, <3>1, <3>2, <3>3, <3>4, OutlineOne, OutlineThree
    <3> QED
      BY <3>5, <3>6, OutlineConcat
  <2> QED
    BY <2>2, <2>3
<1>13. Leads(o, p13, Cuda!Wait("main", "side"), p14)
  <2>1. LayerOps(two) \ {"soft", "project"} \subseteq (Gated \union {"softmax_compute"}) \union S
    BY DEF LayerOps, Gated
  <2> QED
    BY <1>1, <2>1, DualWaits
<1>14. Leads(o, p14, Cuda!WaitFor("main", <<"soft", k>>), p15)
  BY <1>1, DualWaitsFor, EarlierIs
<1>15. Leads(o, p15, R("main", {}, "project"), p16)
  <2>1. LayerOps(two) = I \union {"project"} /\ "project" \notin I
    BY DEF LayerOps, Gated
  <2> HIDE DEF I, S
  <2>2. LayerOps(two) \subseteq (LayerOps(two) \ {"project"}) \union {"project"}
    OBVIOUS
  <2> QED
    BY <1>1, <2>1, <2>2, DualRuns, EarlierIs
<1>16. /\ p0 \in Assertions(o) /\ p1 \in Assertions(o) /\ p2 \in Assertions(o) /\ p3 \in Assertions(o)
       /\ p4 \in Assertions(o) /\ p5 \in Assertions(o) /\ p6 \in Assertions(o) /\ p7 \in Assertions(o)
       /\ p8 \in Assertions(o) /\ p9 \in Assertions(o)
  BY <1>1, AtTypes DEF Gated
<1>17. p13 \in Assertions(o) /\ p14 \in Assertions(o) /\ p15 \in Assertions(o) /\ p16 \in Assertions(o)
  BY <1>1, AtTypes DEF Gated
<1>18. Cuda!ToHeads(k) = <<R("main", {}, "pack"), R("soft_group", {"main"}, "to_heads")>>
  BY LayerReads, LayerWrites, ZenonT(60) DEF Cuda!ToHeads
<1>19. Cuda!Layer(k, two) =
         Cuda!ToHeads(k)
         \o <<R("main", {}, "sum"), R("mean_group", {"main"}, "mean"), Cuda!WaitFor("main", <<"to_heads", k>>),
              R("main", {}, "gate")>>
         \o <<Cuda!Wait("side", "main")>>
         \o <<R("main", {}, "softmax_compute"), R("soft_group", {"main"}, "soft")>>
         \o Cuda!LinearBranch(k, two)
         \o <<Cuda!Wait("main", "side"), Cuda!WaitFor("main", <<"soft", k>>)>>
         \o <<R("main", {}, "project")>>
  <2>1. /\ R("main", {}, "sum") = Cuda!Run("main", {}, <<"sum", k>>, {}, {<<"frame_sums", k>>})
        /\ R("mean_group", {"main"}, "mean")
             = Cuda!Run("mean_group", {"main"}, <<"mean", k>>, {<<"frame_sums", k>>}, {<<"sums", k>>})
        /\ R("main", {}, "gate") = Cuda!Run("main", {}, <<"gate", k>>, {}, {<<"linear_gate", k>>})
    BY LayerReads, LayerWrites
  <2>2. /\ R("main", {}, "softmax_compute")
             = Cuda!Run("main", {}, <<"softmax_compute", k>>, {<<"qkv_recv", k>>}, {<<"soft_send", k>>})
        /\ R("soft_group", {"main"}, "soft") = Cuda!ToRows(k, "main", "soft_group", "soft", "soft_send", "soft_recv")
        /\ R("main", {}, "project")
             = Cuda!Run("main", {}, <<"project", k>>,
                        {<<"soft_recv", k>>} \union (IF two THEN {<<"linear_recv", k>>} ELSE {}), {})
    BY LayerReads, LayerWrites, ZenonT(60) DEF Cuda!ToRows
  <2> HIDE DEF R
  <2> QED
    BY <2>1, <2>2 DEF Cuda!Layer, Cuda!SoftmaxFirst, Cuda!Join
<1> HIDE DEF o, R, p0, p1, p2, p3, p4, p5, p6, p7, p8, p9, p13, p14, p15, p16
<1>20. Outlines(o, p0, Cuda!ToHeads(k), p2)
  BY <1>2, <1>3, <1>16, <1>18, OutlineTwo
<1>21. Outlines(o, p2, <<R("main", {}, "sum"), R("mean_group", {"main"}, "mean"),
                         Cuda!WaitFor("main", <<"to_heads", k>>), R("main", {}, "gate")>>, p6)
  BY <1>4, <1>5, <1>6, <1>7, <1>16, OutlineFour
<1>22. /\ Outlines(o, p6, <<Cuda!Wait("side", "main")>>, p7)
       /\ Outlines(o, p7, <<R("main", {}, "softmax_compute"), R("soft_group", {"main"}, "soft")>>, p9)
  BY <1>8, <1>9, <1>10, <1>16, OutlineOne, OutlineTwo
<1>23. /\ Outlines(o, p13, <<Cuda!Wait("main", "side"), Cuda!WaitFor("main", <<"soft", k>>)>>, p15)
       /\ Outlines(o, p15, <<R("main", {}, "project")>>, p16)
  BY <1>13, <1>14, <1>15, <1>17, OutlineOne, OutlineTwo
<1>24. Outlines(o, p0, Cuda!Layer(k, two), p16)
  BY <1>12, <1>19, <1>20, <1>21, <1>22, <1>23, OutlineConcat
<1> QED
  BY <1>24, NextLayer DEF o, p0, p16

(* Layer after layer, then the buffers are given up.                       *)
LEMMA DualProvable ==
  ASSUME NEW two \in BOOLEAN, Layers \in Nat
  PROVE  Provable(Cuda!DualRequest(two))
<1> DEFINE o == DualOrder(two)
           at == [k \in 0 .. Layers |-> At(two, k + 1, {}, {}, {})]
           seqs == [k \in 1 .. Layers |-> Cuda!Layer(k, two)]
           e == At(two, Layers + 1, {}, {}, {})
           op == <<"reuse", 0>>
           wait == Cuda!Wait("main", "side")
           give == Cuda!Run("main", {}, op, {}, Cuda!DualBuffers \X {0})
           b == [issued |-> e.issued \union {op}, known |-> {}, cover |-> [s \in Cuda!StreamNames |-> {}]]
<1>1. at \in [0 .. Layers -> Assertions(o)] /\ at[0] = At(two, 0 + 1, {}, {}, {}) /\ at[Layers] = e
  <2>1. \A k \in 0 .. Layers : At(two, k + 1, {}, {}, {}) \in Assertions(o)
    <3> SUFFICES ASSUME NEW k \in 0 .. Layers PROVE At(two, k + 1, {}, {}, {}) \in Assertions(o)
      OBVIOUS
    <3>1. k + 1 \in 1 .. Layers + 1
      OBVIOUS
    <3> HIDE DEF o
    <3> QED
      BY <3>1, LayerTypes DEF o
  <2> HIDE DEF o
  <2> QED
    BY <2>1
<1>2. at[0] = Nothing
  <2>1. 0 + 1 = 1
    OBVIOUS
  <2>2. Layered(two, 1) = {} /\ InLayer(1, {}) = {}
    BY DEF Layered, InLayer
  <2>3. Holds(two, 1, {}, {}) = [s \in Cuda!StreamNames |-> {}]
    BY <2>2 DEF Holds
  <2> QED
    BY <1>1, <2>1, <2>2, <2>3 DEF At, Nothing
<1>3. ASSUME NEW k \in 1 .. Layers PROVE Outlines(o, at[k - 1], seqs[k], at[k])
  <2>1. k - 1 \in 0 .. Layers /\ k \in 0 .. Layers /\ k - 1 + 1 = k
    OBVIOUS
  <2>2. at[k - 1] = At(two, k, {}, {}, {}) /\ at[k] = At(two, k + 1, {}, {}, {}) /\ seqs[k] = Cuda!Layer(k, two)
    BY <2>1
  <2> HIDE DEF at, seqs
  <2> QED
    BY <2>2, LayerOutline
<1>4. seqs \in [1 .. Layers -> {Cuda!Layer(k, two) : k \in 1 .. Layers}]
  OBVIOUS
<1>5. Leads(o, e, wait, e)
  <2>1. Layers + 1 \in 1 .. Layers + 1
    OBVIOUS
  <2> QED
    BY <2>1, DualWaits
<1>6. e \in Assertions(o)
  BY <1>1
<1>7. op \in DualOps(two) /\ op \notin InLayers(two)
  <2>1. "reuse" \notin LayerOps(two)
    BY DEF LayerOps
  <2> QED
    BY <2>1 DEF DualOps, InLayers
<1>8. /\ o.ops = DualOps(two) /\ o.before[op] = InLayers(two)
      /\ o.reads[op] = {} /\ o.writes[op] = Cuda!DualBuffers \X {0}
  BY <1>7, DualIs
<1>9. /\ e.issued = InLayers(two) /\ e.known = {} /\ e.cover["main"] = InLayers(two)
  <2>1. Layered(two, Layers + 1) = InLayers(two)
    BY DEF Layered, InLayers
  <2>2. InLayer(Layers + 1, {}) = {}
    BY DEF InLayer
  <2> QED
    BY <2>1, <2>2 DEF At, Holds, Cuda!StreamNames
<1>10. "main" \in Cuda!StreamNames
  BY DEF Cuda!StreamNames
<1>11. Leads(o, e, give, b) /\ b \in Assertions(o)
  <2>1. /\ give.do = "run" /\ give.on = "main" /\ give.after = {} /\ give.op = op /\ give.reads = {}
        /\ give.writes = Cuda!DualBuffers \X {0}
    BY DEF Cuda!Run
  <2>2. b.issued = e.issued \union {op} /\ b.known = {} /\ b.cover = [s \in Cuda!StreamNames |-> {}]
    OBVIOUS
  <2>3. b \in Assertions(o)
    BY <1>7, <1>8, <1>9 DEF Assertions, DualOps
  <2> HIDE DEF b, give, e, o, op
  <2> QED
    BY <1>7, <1>8, <1>9, <1>10, <2>1, <2>2, <2>3 DEF Leads, LeadsRun, CoverOf
<1> HIDE DEF o, at, seqs, e, wait, give, b
<1>12. Outlines(o, at[0], Cuda!FlattenSeq(seqs), at[Layers])
  BY <1>1, <1>3, <1>4, OutlineFlat
<1>13. Outlines(o, e, <<wait, give>>, b)
  BY <1>5, <1>6, <1>11, OutlineTwo
<1>14. Outlines(o, Nothing, Cuda!FlattenSeq(seqs) \o <<wait, give>>, b)
  BY <1>1, <1>2, <1>12, <1>13, OutlineConcat
<1>15. Cuda!DualRequest(two) = Cuda!FlattenSeq(seqs) \o <<wait, give>>
  BY DEF Cuda!DualRequest, seqs, wait, give, op
<1>16. IsOrder(o) /\ IsRaceFree(o)
  BY DualIsOrder, DualIsRaceFree DEF o
<1> QED
  BY <1>14, <1>15, <1>16 DEF Provable

-----------------------------------------------------------------------------
(* PinnedPixels: of n chunks m are submitted and t taken.  The operations  *)
(* on the first chunks of each kind, and those before each one.            *)
Upto(p, c, f, e) ==
  ({"prepare"} \X (1 .. p)) \union ({"copy"} \X (1 .. c)) \union ({"free"} \X (1 .. f)) \union ({"encode"} \X (1 .. e))

Decode == {<<"decode", 0>>}
Chunked(m, t) == Decode \union Upto(m, m, t, t)
PixelOps(m, t) == Chunked(m, t) \union {<<"free_all", 0>>}

BeforePixel(m, t, x) ==
  CASE x[1] = "decode"   -> {}
    [] x[1] = "prepare"  -> Decode
    [] x[1] = "copy"     -> Decode \union Upto(x[2], x[2] - 1, x[2] - 2, x[2] - 2)
    [] x[1] = "free"     -> Decode \union Upto(x[2], x[2], x[2] - 1, x[2] - 1)
    [] x[1] = "encode"   -> Decode \union Upto(x[2], x[2], x[2], x[2] - 1)
    [] x[1] = "free_all" -> Chunked(m, t)

Video == <<"video", 0>>
Pixel(k) == <<"pixels", k>>
Host(k) == <<"host", Cuda!Slot(k)>>

PixelReads(x) ==
  CASE x[1] = "prepare" -> {<<Video, 1>>}
    [] x[1] = "copy"    -> {<<Pixel(x[2]), x[2]>>}
    [] x[1] = "encode"  -> {<<Host(x[2]), x[2]>>}
    [] OTHER            -> {}

PixelWrites(n, x) ==
  CASE x[1] = "decode"   -> {<<Video, 1>>}
    [] x[1] = "prepare"  -> {<<Pixel(x[2]), x[2]>>}
    [] x[1] = "copy"     -> {<<Host(x[2]), x[2]>>}
    [] x[1] = "free"     -> {<<Pixel(x[2]), 0>>}
    [] x[1] = "encode"   -> {}
    [] x[1] = "free_all" -> {<<Video, 0>>} \union {<<Pixel(k), 0>> : k \in 1 .. n}
                            \union {<<<<"host", s>>, 0>> : s \in {0, 1}}

PixelOrder(n, m, t) ==
  [ops    |-> PixelOps(m, t),
   before |-> [x \in PixelOps(m, t) |-> BeforePixel(m, t, x)],
   writes |-> [x \in PixelOps(m, t) |-> PixelWrites(n, x)],
   reads  |-> [x \in PixelOps(m, t) |-> PixelReads(x)]]

(* What is in such a set of operations.                                    *)
LEMMA UptoIs ==
  ASSUME NEW p \in Int, NEW c \in Int, NEW f \in Int, NEW e \in Int, NEW x \in Upto(p, c, f, e)
  PROVE  /\ x = <<x[1], x[2]>> /\ x[2] \in Nat \ {0}
         /\ \/ x[1] = "prepare" /\ x[2] <= p
            \/ x[1] = "copy" /\ x[2] <= c
            \/ x[1] = "free" /\ x[2] <= f
            \/ x[1] = "encode" /\ x[2] <= e
BY DEF Upto

LEMMA UptoHas ==
  ASSUME NEW p \in Int, NEW c \in Int, NEW f \in Int, NEW e \in Int, NEW a, NEW k \in Nat \ {0},
         (\/ a = "prepare" /\ k <= p
          \/ a = "copy" /\ k <= c
          \/ a = "free" /\ k <= f
          \/ a = "encode" /\ k <= e)
  PROVE  <<a, k>> \in Upto(p, c, f, e)
BY DEF Upto

LEMMA UptoMonotonic ==
  ASSUME NEW p \in Int, NEW c \in Int, NEW f \in Int, NEW e \in Int,
         NEW p1 \in Int, NEW c1 \in Int, NEW f1 \in Int, NEW e1 \in Int,
         p <= p1, c <= c1, f <= f1, e <= e1
  PROVE  Upto(p, c, f, e) \subseteq Upto(p1, c1, f1, e1)
BY DEF Upto

(* The operations and what is known of each.                               *)
LEMMA PixelKinds ==
  ASSUME NEW m \in Nat, NEW t \in Nat, NEW x \in PixelOps(m, t)
  PROVE  /\ x = <<x[1], x[2]>> /\ x[2] \in Nat
         /\ \/ x[1] = "decode" /\ x[2] = 0
            \/ x[1] = "free_all" /\ x[2] = 0
            \/ x[1] \in {"prepare", "copy"} /\ x[2] \in 1 .. m
            \/ x[1] \in {"free", "encode"} /\ x[2] \in 1 .. t
<1>1. CASE x \in Upto(m, m, t, t)
  BY <1>1, UptoIs
<1>2. CASE x \notin Upto(m, m, t, t)
  BY <1>2 DEF PixelOps, Chunked, Decode
<1> QED
  BY <1>1, <1>2

(* What comes before one of the first ones is one of them.                 *)
LEMMA UptoClosed ==
  ASSUME NEW m \in Nat, NEW t \in Nat, NEW p \in Int, NEW c \in Int, NEW f \in Int, NEW e \in Int,
         c <= p, c - 2 <= f, c - 2 <= e, f <= c, f - 1 <= e, e <= f,
         NEW x \in Decode \union Upto(p, c, f, e)
  PROVE  BeforePixel(m, t, x) \subseteq Decode \union Upto(p, c, f, e)
<1>1. CASE x \in Decode
  BY <1>1 DEF Decode, BeforePixel
<1>2. CASE x \in Upto(p, c, f, e)
  <2> DEFINE k == x[2]
  <2>1. /\ k \in Nat \ {0}
        /\ \/ x[1] = "prepare" /\ k <= p
           \/ x[1] = "copy" /\ k <= c
           \/ x[1] = "free" /\ k <= f
           \/ x[1] = "encode" /\ k <= e
    BY <1>2, UptoIs
  <2>2. CASE x[1] = "prepare"
    BY <2>2 DEF BeforePixel
  <2>3. CASE x[1] = "copy"
    <3>1. BeforePixel(m, t, x) = Decode \union Upto(k, k - 1, k - 2, k - 2)
      BY <2>3 DEF BeforePixel
    <3> HIDE DEF k
    <3>2. /\ k \in Int /\ k - 1 \in Int /\ k - 2 \in Int /\ k <= p /\ k - 1 <= c /\ k - 2 <= f /\ k - 2 <= e
      BY <2>1, <2>3
    <3>3. Upto(k, k - 1, k - 2, k - 2) \subseteq Upto(p, c, f, e)
      BY <3>2, UptoMonotonic
    <3> QED
      BY <3>1, <3>3
  <2>4. CASE x[1] = "free"
    <3>1. BeforePixel(m, t, x) = Decode \union Upto(k, k, k - 1, k - 1)
      BY <2>4 DEF BeforePixel
    <3> HIDE DEF k
    <3>2. /\ k \in Int /\ k - 1 \in Int /\ k <= p /\ k <= c /\ k - 1 <= f /\ k - 1 <= e
      BY <2>1, <2>4
    <3>3. Upto(k, k, k - 1, k - 1) \subseteq Upto(p, c, f, e)
      BY <3>2, UptoMonotonic
    <3> QED
      BY <3>1, <3>3
  <2>5. CASE x[1] = "encode"
    <3>1. BeforePixel(m, t, x) = Decode \union Upto(k, k, k, k - 1)
      BY <2>5 DEF BeforePixel
    <3> HIDE DEF k
    <3>2. /\ k \in Int /\ k - 1 \in Int /\ k <= p /\ k <= c /\ k <= f /\ k - 1 <= e
      BY <2>1, <2>5
    <3>3. Upto(k, k, k, k - 1) \subseteq Upto(p, c, f, e)
      BY <3>2, UptoMonotonic
    <3> QED
      BY <3>1, <3>3
  <2> QED
    BY <2>1, <2>2, <2>3, <2>4, <2>5
<1> QED
  BY <1>1, <1>2

(* The operations are partially ordered.                                   *)
LEMMA PixelIsOrder ==
  ASSUME NEW n \in Nat, NEW m \in Nat, NEW t \in Nat, t <= m, m <= t + 2
  PROVE  IsOrder(PixelOrder(n, m, t))
<1> DEFINE o == PixelOrder(n, m, t)
           B(x) == BeforePixel(m, t, x)
<1>1. o.ops = PixelOps(m, t) /\ o.before = [x \in PixelOps(m, t) |-> B(x)]
  BY DEF PixelOrder
<1>2. ASSUME NEW x \in Chunked(m, t) PROVE B(x) \subseteq Chunked(m, t)
  <2>1. x \in Decode \union Upto(m, m, t, t) /\ m - 2 <= t
    BY DEF Chunked
  <2> QED
    BY <2>1, UptoClosed DEF Chunked
<1>3. B(<<"free_all", 0>>) = Chunked(m, t)
  BY DEF BeforePixel
<1>4. <<>> \notin PixelOps(m, t) /\ <<"free_all", 0>> \notin Chunked(m, t)
  BY DEF PixelOps, Chunked, Decode, Upto
<1>5. ASSUME NEW x \in Chunked(m, t)
      PROVE  x \notin B(x) /\ \A y \in B(x) : B(y) \subseteq B(x)
  <2> DEFINE k == x[2]
  <2>1. /\ x \in PixelOps(m, t) /\ x # <<"free_all", 0>>
    BY <1>4 DEF PixelOps
  <2>2. /\ x = <<x[1], k>> /\ k \in Nat
        /\ \/ x[1] = "decode"
           \/ x[1] \in {"prepare", "copy", "free", "encode"} /\ k \in Nat \ {0}
    BY <2>1, PixelKinds
  <2>3. CASE x[1] = "decode"
    BY <2>3 DEF BeforePixel
  <2>4. CASE x[1] = "prepare"
    <3>1. B(x) = Decode
      BY <2>4 DEF BeforePixel
    <3>2. BeforePixel(m, t, <<"decode", 0>>) = {}
      BY DEF BeforePixel
    <3> QED
      BY <2>4, <3>1, <3>2 DEF Decode
  <2>5. CASE x[1] = "copy"
    <3>1. B(x) = Decode \union Upto(k, k - 1, k - 2, k - 2)
      BY <2>5 DEF BeforePixel
    <3>2. x \notin Decode /\ x \notin Upto(k, k - 1, k - 2, k - 2)
      BY <2>2, <2>5 DEF Decode, Upto
    <3> HIDE DEF B, k
    <3>3. ASSUME NEW y \in B(x) PROVE BeforePixel(m, t, y) \subseteq B(x)
      <4>1. k \in Int /\ k - 1 \in Int /\ k - 2 \in Int /\ y \in Decode \union Upto(k, k - 1, k - 2, k - 2)
        BY <2>2, <3>1
      <4>2. BeforePixel(m, t, y) \subseteq Decode \union Upto(k, k - 1, k - 2, k - 2)
        BY <4>1, UptoClosed
      <4> QED
        BY <3>1, <4>2
    <3> QED
      BY <3>1, <3>2, <3>3 DEF B
  <2>6. CASE x[1] = "free"
    <3>1. B(x) = Decode \union Upto(k, k, k - 1, k - 1)
      BY <2>6 DEF BeforePixel
    <3>2. x \notin Decode /\ x \notin Upto(k, k, k - 1, k - 1)
      BY <2>2, <2>6 DEF Decode, Upto
    <3> HIDE DEF B, k
    <3>3. ASSUME NEW y \in B(x) PROVE BeforePixel(m, t, y) \subseteq B(x)
      <4>1. k \in Int /\ k - 1 \in Int /\ k - 2 \in Int /\ y \in Decode \union Upto(k, k, k - 1, k - 1)
        BY <2>2, <3>1
      <4>2. BeforePixel(m, t, y) \subseteq Decode \union Upto(k, k, k - 1, k - 1)
        BY <4>1, UptoClosed
      <4> QED
        BY <3>1, <4>2
    <3> QED
      BY <3>1, <3>2, <3>3 DEF B
  <2>7. CASE x[1] = "encode"
    <3>1. B(x) = Decode \union Upto(k, k, k, k - 1)
      BY <2>7 DEF BeforePixel
    <3>2. x \notin Decode /\ x \notin Upto(k, k, k, k - 1)
      BY <2>2, <2>7 DEF Decode, Upto
    <3> HIDE DEF B, k
    <3>3. ASSUME NEW y \in B(x) PROVE BeforePixel(m, t, y) \subseteq B(x)
      <4>1. k \in Int /\ k - 1 \in Int /\ k - 2 \in Int /\ y \in Decode \union Upto(k, k, k, k - 1)
        BY <2>2, <3>1
      <4>2. BeforePixel(m, t, y) \subseteq Decode \union Upto(k, k, k, k - 1)
        BY <4>1, UptoClosed
      <4> QED
        BY <3>1, <4>2
    <3> QED
      BY <3>1, <3>2, <3>3 DEF B
  <2> QED
    BY <2>2, <2>3, <2>4, <2>5, <2>6, <2>7
<1> HIDE DEF B, o
<1>6. PixelOps(m, t) = Chunked(m, t) \union {<<"free_all", 0>>}
  BY DEF PixelOps
<1>7. \A x \in PixelOps(m, t) : B(x) \subseteq Chunked(m, t)
  BY <1>2, <1>3, <1>6
<1> QED
  BY <1>1, <1>2, <1>3, <1>4, <1>5, <1>6, <1>7 DEF IsOrder, o

LEMMA PixelBuffers ==
  ASSUME NEW j \in Nat, NEW k \in Nat
  PROVE  /\ Video # Pixel(k) /\ Video # Host(k) /\ Pixel(j) # Host(k)
         /\ Pixel(j) = Pixel(k) => j = k
         /\ Host(j) = Host(k) => j = k \/ j <= k - 2 \/ k <= j - 2
BY DEF Video, Pixel, Host, Cuda!Slot

(* What the operations on chunks write, and what they touch at all.        *)
LEMMA PixelTouches ==
  ASSUME NEW n \in Nat, NEW m \in Nat, NEW t \in Nat, NEW x \in Chunked(m, t)
  PROVE  /\ \A w \in PixelWrites(n, x) : \/ w = <<Video, 1>> /\ x[1] = "decode"
                                         \/ w[1] = Pixel(x[2]) /\ x[1] \in {"prepare", "free"}
                                         \/ w[1] = Host(x[2]) /\ x[1] = "copy"
         /\ \A r \in PixelReads(x) : \/ r = <<Video, 1>> /\ x[1] = "prepare"
                                     \/ r = <<Pixel(x[2]), x[2]>> /\ x[1] = "copy"
                                     \/ r = <<Host(x[2]), x[2]>> /\ x[1] = "encode"
         /\ \A v, w \in PixelWrites(n, x) : v = w
<1>1. x \in PixelOps(m, t) /\ x # <<"free_all", 0>>
  BY DEF PixelOps, Chunked, Decode, Upto
<1>2. x[1] \in {"decode", "prepare", "copy", "free", "encode"}
  BY <1>1, PixelKinds
<1>3. \A w \in PixelWrites(n, x) : \/ w = <<Video, 1>> /\ x[1] = "decode"
                                   \/ w[1] = Pixel(x[2]) /\ x[1] \in {"prepare", "free"}
                                   \/ w[1] = Host(x[2]) /\ x[1] = "copy"
  BY <1>2 DEF PixelWrites
<1>4. \A r \in PixelReads(x) : \/ r = <<Video, 1>> /\ x[1] = "prepare"
                               \/ r = <<Pixel(x[2]), x[2]>> /\ x[1] = "copy"
                               \/ r = <<Host(x[2]), x[2]>> /\ x[1] = "encode"
  BY <1>2 DEF PixelReads
<1>5. \A v, w \in PixelWrites(n, x) : v = w
  BY <1>2 DEF PixelWrites
<1> QED
  BY <1>3, <1>4, <1>5

(* What comes before an operation on a chunk.                              *)
LEMMA PixelBefore ==
  ASSUME NEW m \in Nat, NEW t \in Nat, NEW x \in Chunked(m, t), NEW y \in Chunked(m, t)
  PROVE  /\ x[1] = "decode" /\ y[1] # "decode" => x \in BeforePixel(m, t, y)
         /\ x[1] = "prepare" /\ x[2] <= y[2] /\ y[1] \in {"copy", "free", "encode"} => x \in BeforePixel(m, t, y)
         /\ x[1] = "copy" /\ y[1] = "copy" /\ x[2] < y[2] => x \in BeforePixel(m, t, y)
         /\ x[1] = "copy" /\ y[1] \in {"free", "encode"} /\ x[2] <= y[2] => x \in BeforePixel(m, t, y)
         /\ x[1] = "encode" /\ y[1] = "copy" /\ x[2] <= y[2] - 2 => x \in BeforePixel(m, t, y)
<1> DEFINE j == x[2]
           k == y[2]
<1>1. x \in PixelOps(m, t) /\ y \in PixelOps(m, t) /\ x # <<"free_all", 0>> /\ y # <<"free_all", 0>>
  BY DEF PixelOps, Chunked, Decode, Upto
<1>2. /\ x = <<x[1], j>> /\ j \in Nat /\ y = <<y[1], k>> /\ k \in Nat
      /\ (x[1] = "decode" /\ j = 0) \/ (x[1] \in {"prepare", "copy", "free", "encode"} /\ j \in Nat \ {0})
      /\ y[1] \in {"decode", "prepare", "copy", "free", "encode"}
  BY <1>1, PixelKinds
<1>3. /\ y[1] = "prepare" => BeforePixel(m, t, y) = Decode
      /\ y[1] = "copy" => BeforePixel(m, t, y) = Decode \union Upto(k, k - 1, k - 2, k - 2)
      /\ y[1] = "free" => BeforePixel(m, t, y) = Decode \union Upto(k, k, k - 1, k - 1)
      /\ y[1] = "encode" => BeforePixel(m, t, y) = Decode \union Upto(k, k, k, k - 1)
  BY DEF BeforePixel
<1> HIDE DEF j, k
<1>4. x[1] = "decode" => x \in Decode
  BY <1>2 DEF Decode
<1>5. k \in Int /\ k - 1 \in Int /\ k - 2 \in Int
  BY <1>2
<1>6. x[1] = "prepare" /\ j <= k => /\ x \in Upto(k, k - 1, k - 2, k - 2) /\ x \in Upto(k, k, k - 1, k - 1)
                                    /\ x \in Upto(k, k, k, k - 1)
  BY <1>2, <1>5, UptoHas
<1>7. x[1] = "copy" /\ j < k => x \in Upto(k, k - 1, k - 2, k - 2)
  BY <1>2, <1>5, UptoHas
<1>8. x[1] = "copy" /\ j <= k => x \in Upto(k, k, k - 1, k - 1) /\ x \in Upto(k, k, k, k - 1)
  BY <1>2, <1>5, UptoHas
<1>9. x[1] = "encode" /\ j <= k - 2 => x \in Upto(k, k - 1, k - 2, k - 2)
  BY <1>2, <1>5, UptoHas
<1> QED
  BY <1>2, <1>3, <1>4, <1>6, <1>7, <1>8, <1>9 DEF j, k

(* Copies alternate between two host buffers, each of which is encoded     *)
(* before it is used again.                                                *)
LEMMA PixelIsRaceFree ==
  ASSUME NEW n \in Nat, NEW m \in Nat, NEW t \in Nat, t <= m
  PROVE  IsRaceFree(PixelOrder(n, m, t))
<1> DEFINE o == PixelOrder(n, m, t)
           all == <<"free_all", 0>>
           Ops == Chunked(m, t)
<1>1. o.ops = Ops \union {all} /\ all \notin Ops
  BY DEF PixelOrder, PixelOps, Chunked, Decode, Upto
<1>2. ASSUME NEW x \in Ops \union {all}
      PROVE  /\ o.before[x] = BeforePixel(m, t, x) /\ o.writes[x] = PixelWrites(n, x) /\ o.reads[x] = PixelReads(x)
  BY <1>2 DEF PixelOrder, PixelOps
<1>3. /\ o.before[all] = Ops /\ o.reads[all] = {}
      /\ \A v, w \in o.writes[all] : v[1] = w[1] => v = w
  <2>1. BeforePixel(m, t, all) = Ops /\ PixelReads(all) = {}
    BY DEF BeforePixel, PixelReads
  <2>2. \A w \in PixelWrites(n, all) : w = <<w[1], 0>>
    BY DEF PixelWrites
  <2> HIDE DEF o, all
  <2> QED
    BY <1>2, <2>1, <2>2
<1>4. ASSUME NEW x \in Ops
      PROVE  /\ x[2] \in Nat /\ x = <<x[1], x[2]>>
             /\ (x[1] = "decode" /\ x = <<"decode", 0>>) \/ x[1] \in {"prepare", "copy", "free", "encode"}
  <2>1. x \in PixelOps(m, t) /\ x # all
    BY <1>1 DEF PixelOps
  <2> QED
    BY <2>1, PixelKinds
<1> HIDE DEF o, all, Ops
<1>5. ASSUME NEW x \in Ops
      PROVE  /\ \A w \in o.writes[x] : \/ w = <<Video, 1>> /\ x[1] = "decode"
                                       \/ w[1] = Pixel(x[2]) /\ x[1] \in {"prepare", "free"}
                                       \/ w[1] = Host(x[2]) /\ x[1] = "copy"
             /\ \A r \in o.reads[x] : \/ r = <<Video, 1>> /\ x[1] = "prepare"
                                      \/ r = <<Pixel(x[2]), x[2]>> /\ x[1] = "copy"
                                      \/ r = <<Host(x[2]), x[2]>> /\ x[1] = "encode"
             /\ \A v, w \in o.writes[x] : v = w
  BY <1>2, PixelTouches DEF Ops
<1>6. ASSUME NEW x \in Ops, NEW y \in Ops
      PROVE  /\ x[1] = "decode" /\ y[1] # "decode" => x \in o.before[y]
             /\ x[1] = "prepare" /\ x[2] <= y[2] /\ y[1] \in {"copy", "free", "encode"} => x \in o.before[y]
             /\ x[1] = "copy" /\ y[1] = "copy" /\ x[2] < y[2] => x \in o.before[y]
             /\ x[1] = "copy" /\ y[1] \in {"free", "encode"} /\ x[2] <= y[2] => x \in o.before[y]
             /\ x[1] = "encode" /\ y[1] = "copy" /\ x[2] <= y[2] - 2 => x \in o.before[y]
  BY <1>2, PixelBefore DEF Ops
<1>7. ASSUME NEW x \in o.ops, NEW y \in o.ops, NEW w \in o.writes[x], NEW v \in o.writes[y] \union o.reads[y],
             w[1] = v[1], x # y
      PROVE  x \in o.before[y] \/ y \in o.before[x]
  <2>1. CASE x = all \/ y = all
    BY <1>1, <1>3, <1>7, <2>1
  <2>2. CASE x \in Ops /\ y \in Ops
    <3>1. /\ \/ w[1] = Video /\ x[1] = "decode"
             \/ w[1] = Pixel(x[2]) /\ x[1] \in {"prepare", "free"}
             \/ w[1] = Host(x[2]) /\ x[1] = "copy"
          /\ \/ v[1] = Video /\ y[1] \in {"decode", "prepare"}
             \/ v[1] = Pixel(y[2]) /\ y[1] \in {"prepare", "copy", "free"}
             \/ v[1] = Host(y[2]) /\ y[1] \in {"copy", "encode"}
      BY <1>5, <2>2
    <3>2. x[2] \in Nat /\ y[2] \in Nat /\ x = <<x[1], x[2]>> /\ y = <<y[1], y[2]>>
      BY <1>4, <2>2
    <3>3. CASE w[1] = Video
      <4>1. x[1] = "decode" /\ y[1] \in {"decode", "prepare"}
        BY <1>7, <3>1, <3>2, <3>3, PixelBuffers
      <4>2. y[1] # "decode"
        BY <1>4, <1>7, <2>2, <4>1
      <4> QED
        BY <1>6, <2>2, <4>1, <4>2
    <3>4. CASE w[1] = Pixel(x[2]) /\ x[1] \in {"prepare", "free"}
      <4>1. x[2] = y[2] /\ y[1] \in {"prepare", "copy", "free"}
        BY <1>7, <3>1, <3>2, <3>4, PixelBuffers
      <4>2. x[1] # y[1]
        BY <1>7, <3>2, <4>1
      <4> QED
        BY <1>6, <2>2, <3>2, <3>4, <4>1, <4>2
    <3>5. CASE w[1] = Host(x[2]) /\ x[1] = "copy"
      <4>1. /\ y[1] \in {"copy", "encode"}
            /\ x[2] = y[2] \/ x[2] <= y[2] - 2 \/ y[2] <= x[2] - 2
        BY <1>7, <3>1, <3>2, <3>5, PixelBuffers
      <4>2. y[1] = "copy" => x[2] # y[2]
        BY <1>7, <3>2, <3>5
      <4>3. CASE y[1] = "copy"
        <5>1. x[2] < y[2] \/ y[2] < x[2]
          BY <3>2, <4>2, <4>3
        <5> QED
          BY <1>6, <2>2, <3>5, <4>3, <5>1
      <4>4. CASE y[1] = "encode"
        <5>1. x[2] <= y[2] \/ y[2] <= x[2] - 2
          BY <3>2, <4>1
        <5> QED
          BY <1>6, <2>2, <3>5, <4>4, <5>1
      <4> QED
        BY <4>1, <4>3, <4>4
    <3> QED
      BY <3>1, <3>3, <3>4, <3>5
  <2> QED
    BY <1>1, <2>1, <2>2
<1>8. ASSUME NEW x \in Ops, NEW y \in Ops, NEW r, r \in o.reads[x], r \in o.writes[y],
             y[1] = "decode" \/ y[2] = x[2], y \in o.before[x],
             NEW z \in o.ops \ {y}, Touches(o, z, r[1])
      PROVE  z \in o.before[y] \/ x \in o.before[z]
  <2>1. CASE z = all
    BY <1>3, <2>1
  <2>2. CASE z \in Ops
    <3>1. PICK w \in o.writes[z] : w[1] = r[1]
      BY <1>8 DEF Touches
    <3>2. /\ \/ w[1] = Video /\ z[1] = "decode"
             \/ w[1] = Pixel(z[2]) /\ z[1] \in {"prepare", "free"}
             \/ w[1] = Host(z[2]) /\ z[1] = "copy"
          /\ \/ r[1] = Video /\ x[1] = "prepare"
             \/ r[1] = Pixel(x[2]) /\ x[1] = "copy"
             \/ r[1] = Host(x[2]) /\ x[1] = "encode"
          /\ \/ r[1] = Video /\ y[1] = "decode"
             \/ r[1] = Pixel(y[2]) /\ y[1] \in {"prepare", "free"}
             \/ r[1] = Host(y[2]) /\ y[1] = "copy"
      BY <1>5, <1>8, <2>2
    <3>3. /\ x[2] \in Nat /\ y[2] \in Nat /\ z[2] \in Nat /\ z # y
          /\ y = <<y[1], y[2]>> /\ z = <<z[1], z[2]>> /\ (y[1] = "decode" /\ z[1] = "decode" => y = z)
      BY <1>4, <1>8, <2>2
    <3>4. CASE r[1] = Video
      <4>1. y[1] = "decode" /\ z[1] = "decode"
        BY <3>1, <3>2, <3>3, <3>4, PixelBuffers
      <4> QED
        BY <3>3, <4>1
    <3>5. CASE r[1] = Pixel(x[2]) /\ x[1] = "copy"
      <4>1. z[2] = x[2] /\ y[2] = x[2] /\ z[1] \in {"prepare", "free"} /\ y[1] \in {"prepare", "free"}
        BY <1>8, <3>1, <3>2, <3>3, <3>5, PixelBuffers
      <4>2. y[1] # z[1]
        BY <3>3, <4>1
      <4> QED
        BY <1>6, <1>8, <2>2, <3>3, <3>5, <4>1, <4>2
    <3>6. CASE r[1] = Host(x[2]) /\ x[1] = "encode"
      <4>1. /\ z[1] = "copy" /\ y[1] = "copy" /\ y[2] = x[2]
            /\ z[2] = x[2] \/ z[2] <= x[2] - 2 \/ x[2] <= z[2] - 2
        BY <1>8, <3>1, <3>2, <3>3, <3>6, PixelBuffers
      <4>2. z[2] # y[2]
        BY <3>3, <4>1
      <4>3. z[2] < y[2] \/ x[2] <= z[2] - 2
        BY <3>3, <4>1, <4>2
      <4> QED
        BY <1>6, <1>8, <2>2, <3>6, <4>1, <4>3
    <3> QED
      BY <3>2, <3>4, <3>5, <3>6
  <2> QED
    BY <1>1, <2>1, <2>2
<1>9. ASSUME NEW x \in Ops, NEW r \in o.reads[x]
      PROVE  \E y \in Ops : /\ r \in o.writes[y] /\ y \in o.before[x] /\ (y[1] = "decode" \/ y[2] = x[2])
  <2> DEFINE k == x[2]
  <2>1. /\ \/ r = <<Video, 1>> /\ x[1] = "prepare"
           \/ r = <<Pixel(k), k>> /\ x[1] = "copy"
           \/ r = <<Host(k), k>> /\ x[1] = "encode"
        /\ k \in Nat /\ x = <<x[1], k>>
    BY <1>4, <1>5
  <2>2. CASE x[1] = "prepare"
    <3> DEFINE y == <<"decode", 0>>
    <3>1. y \in Ops /\ PixelWrites(n, y) = {<<Video, 1>>}
      BY DEF Ops, Chunked, Decode, PixelWrites
    <3>2. y[1] = "decode"
      OBVIOUS
    <3> HIDE DEF y
    <3>3. r \in o.writes[y] /\ y \in o.before[x]
      BY <1>2, <1>6, <2>1, <2>2, <3>1, <3>2
    <3> QED
      BY <3>1, <3>2, <3>3
  <2>3. CASE x[1] = "copy"
    <3> DEFINE y == <<"prepare", k>>
    <3>1. PixelWrites(n, y) = {<<Pixel(k), k>>} /\ y[1] = "prepare" /\ y[2] = k
      BY DEF PixelWrites
    <3>2. y \in Ops
      BY <2>1, <2>3 DEF Ops, Chunked, Decode, Upto
    <3> HIDE DEF y
    <3>3. r \in o.writes[y] /\ y \in o.before[x]
      BY <1>2, <1>6, <2>1, <2>3, <3>1, <3>2
    <3> QED
      BY <3>1, <3>2, <3>3
  <2>4. CASE x[1] = "encode"
    <3> DEFINE y == <<"copy", k>>
    <3>1. PixelWrites(n, y) = {<<Host(k), k>>} /\ y[1] = "copy" /\ y[2] = k
      BY DEF PixelWrites
    <3>2. y \in Ops
      BY <2>1, <2>4 DEF Ops, Chunked, Decode, Upto
    <3> HIDE DEF y
    <3>3. r \in o.writes[y] /\ y \in o.before[x]
      BY <1>2, <1>6, <2>1, <2>4, <3>1, <3>2
    <3> QED
      BY <3>1, <3>2, <3>3
  <2> QED
    BY <2>1, <2>2, <2>3, <2>4
<1>10. ASSUME NEW x \in o.ops, NEW r \in o.reads[x]
       PROVE  \E y \in o.before[x] :
                /\ r \in o.writes[y]
                /\ \A z \in o.ops \ {y} : Touches(o, z, r[1]) => z \in o.before[y] \/ x \in o.before[z]
  <2>1. x \in Ops
    BY <1>1, <1>3
  <2>2. PICK y \in Ops : /\ r \in o.writes[y] /\ y \in o.before[x] /\ (y[1] = "decode" \/ y[2] = x[2])
    BY <1>9, <2>1
  <2>3. ASSUME NEW z \in o.ops \ {y}, Touches(o, z, r[1]) PROVE z \in o.before[y] \/ x \in o.before[z]
    BY <1>8, <2>1, <2>2, <2>3
  <2> QED
    BY <2>2, <2>3
<1>11. \A x \in o.ops : \A v, w \in o.writes[x] : v[1] = w[1] => v = w
  BY <1>1, <1>3, <1>5
<1>12. IsRaceFree(o)
  BY <1>7, <1>10, <1>11 DEF IsRaceFree
<1> QED
  BY <1>12 DEF o

(* What is issued, known to be over, and waited for by the copy stream and *)
(* the host; the compute stream has waited for the video.                  *)
Point(I, K, C, H) ==
  [issued |-> I, known |-> K,
   cover |-> [s \in Cuda!StreamNames |-> IF s = "compute" THEN Decode
                                        ELSE IF s = "copy" THEN C
                                        ELSE IF s = "host" THEN H ELSE {}]]

LEMMA PointTypes ==
  ASSUME NEW n \in Nat, NEW m \in Nat, NEW t \in Nat,
         NEW I \in SUBSET PixelOps(m, t), NEW K \in SUBSET PixelOps(m, t),
         NEW C \in SUBSET PixelOps(m, t), NEW H \in SUBSET PixelOps(m, t)
  PROVE  Point(I, K, C, H) \in Assertions(PixelOrder(n, m, t))
<1>1. PixelOrder(n, m, t).ops = PixelOps(m, t) /\ Decode \subseteq PixelOps(m, t)
  BY DEF PixelOrder, PixelOps, Chunked
<1> QED
  BY <1>1 DEF Point, Assertions

LEMMA PixelRuns ==
  ASSUME NEW o, NEW x \in o.ops, NEW I, NEW K, NEW C, NEW H, NEW on \in {"compute", "copy", "host"}, x \notin I,
         o.before[x] \subseteq K \union (IF on = "compute" THEN Decode ELSE IF on = "copy" THEN C ELSE H),
         NEW reads, reads = o.reads[x], NEW writes, writes = o.writes[x],
         NEW J, J = I \union {x}, NEW K1, K1 \subseteq K,
         NEW C1, C1 \subseteq IF on = "copy" THEN Through(o, x) ELSE C,
         NEW H1, H1 \subseteq IF on = "host" THEN Through(o, x) ELSE H,
         on = "compute" => Decode \subseteq Through(o, x)
  PROVE  Leads(o, Point(I, K, C, H), Cuda!Run(on, {}, x, reads, writes), Point(J, K1, C1, H1))
<1> DEFINE i == Cuda!Run(on, {}, x, reads, writes)
           p == Point(I, K, C, H)
           q == Point(J, K1, C1, H1)
<1>1. i.do = "run" /\ i.on = on /\ i.after = {} /\ i.op = x /\ i.reads = reads /\ i.writes = writes
  BY DEF Cuda!Run
<1>2. /\ p.issued = I /\ p.known = K /\ q.issued = J /\ q.known = K1
      /\ \A s \in Cuda!StreamNames :
           /\ p.cover[s] = IF s = "compute" THEN Decode ELSE IF s = "copy" THEN C ELSE IF s = "host" THEN H ELSE {}
           /\ q.cover[s] = IF s = "compute" THEN Decode ELSE IF s = "copy" THEN C1 ELSE IF s = "host" THEN H1 ELSE {}
  BY DEF Point
<1>3. on \in Cuda!StreamNames
  BY DEF Cuda!StreamNames
<1> HIDE DEF i, p, q
<1>4. o.before[x] \subseteq p.known \union p.cover[on]
  BY <1>2, <1>3
<1>5. ASSUME NEW s \in Cuda!StreamNames
      PROVE  q.cover[s] \subseteq IF s = on THEN Through(o, x) ELSE p.cover[s]
  BY <1>2
<1>6. Leads(o, p, i, q)
  BY <1>1, <1>2, <1>3, <1>4, <1>5 DEF Leads, LeadsRun
<1> QED
  BY <1>6 DEF i, p, q

LEMMA PixelWaits ==
  ASSUME NEW o, NEW x \in o.ops, x # <<>>, NEW I, NEW K, NEW C, NEW H, NEW C1, C1 \subseteq C \union Through(o, x)
  PROVE  Leads(o, Point(I, K, C, H), Cuda!WaitFor("copy", x), Point(I, K, C1, H))
<1> DEFINE i == Cuda!WaitFor("copy", x)
           p == Point(I, K, C, H)
           q == Point(I, K, C1, H)
<1>1. i.do = "wait" /\ i.on = "copy" /\ i.after = {} /\ i.op = x
  BY DEF Cuda!WaitFor
<1>2. /\ p.issued = I /\ p.known = K /\ q.issued = I /\ q.known = K
      /\ \A s \in Cuda!StreamNames :
           /\ p.cover[s] = IF s = "compute" THEN Decode ELSE IF s = "copy" THEN C ELSE IF s = "host" THEN H ELSE {}
           /\ q.cover[s] = IF s = "compute" THEN Decode ELSE IF s = "copy" THEN C1 ELSE IF s = "host" THEN H ELSE {}
  BY DEF Point
<1>3. "copy" \in Cuda!StreamNames
  BY DEF Cuda!StreamNames
<1> HIDE DEF i, p, q
<1>4. Leads(o, p, i, q)
  BY <1>1, <1>2, <1>3 DEF Leads, LeadsWait
<1> QED
  BY <1>4 DEF i, p, q

LEMMA PixelSyncs ==
  ASSUME NEW o, NEW x \in o.ops, NEW I, NEW K, NEW C, NEW H, NEW K1, K1 \subseteq K \union Through(o, x),
         NEW H1, H1 \subseteq H
  PROVE  Leads(o, Point(I, K, C, H), Cuda!Sync(x), Point(I, K1, C, H1))
<1> DEFINE i == Cuda!Sync(x)
           p == Point(I, K, C, H)
           q == Point(I, K1, C, H1)
<1>1. i.do = "sync" /\ i.on = "host" /\ i.after = {} /\ i.op = x
  BY DEF Cuda!Sync
<1>2. /\ p.issued = I /\ p.known = K /\ q.issued = I /\ q.known = K1
      /\ \A s \in Cuda!StreamNames : q.cover[s] \subseteq p.cover[s]
  BY DEF Point
<1>3. "host" \in Cuda!StreamNames
  BY DEF Cuda!StreamNames
<1> HIDE DEF i, p, q
<1>4. Leads(o, p, i, q)
  BY <1>1, <1>2, <1>3 DEF Leads, LeadsSync
<1> QED
  BY <1>4 DEF i, p, q

LEMMA PixelOpIs ==
  ASSUME NEW n \in Nat, NEW m \in Nat, NEW t \in Nat, NEW x \in PixelOps(m, t)
  PROVE  LET o == PixelOrder(n, m, t)
         IN  /\ x \in o.ops /\ o.before[x] = BeforePixel(m, t, x)
             /\ o.reads[x] = PixelReads(x) /\ o.writes[x] = PixelWrites(n, x)
BY DEF PixelOrder

LEMMA UptoAdds ==
  ASSUME NEW k \in Nat \ {0}, NEW p \in Int, NEW c \in Int, NEW f \in Int, NEW e \in Int
  PROVE  /\ Upto(k, c, f, e) = Upto(k - 1, c, f, e) \union {<<"prepare", k>>}
         /\ Upto(p, k, f, e) = Upto(p, k - 1, f, e) \union {<<"copy", k>>}
         /\ Upto(p, c, k, e) = Upto(p, c, k - 1, e) \union {<<"free", k>>}
         /\ Upto(p, c, f, k) = Upto(p, c, f, k - 1) \union {<<"encode", k>>}
<1>1. 1 .. k = (1 .. k - 1) \union {k}
  OBVIOUS
<1>2. \A a : {a} \X (1 .. k) = ({a} \X (1 .. k - 1)) \union {<<a, k>>}
  BY <1>1
<1> QED
  BY <1>2 DEF Upto

(* After s chunks are submitted and k are received.                        *)
Between(s, k) == Point(Decode \union Upto(s, s, k, k), Upto(k, k, k, k), Upto(s, s, s - 2, s - 2), {})

(* submit(), receive(), and what comes before and after the loop.          *)
LEMMA SubmitOutline ==
  ASSUME NEW n \in Nat, NEW m \in Nat, NEW t \in Nat, t <= m, NEW k \in 1 .. m, NEW j \in 0 .. t, k - 2 <= j, j < k
  PROVE  Outlines(PixelOrder(n, m, t), Between(k - 1, j), Cuda!Submit(k, Cuda!Slot(k)), Between(k, j))
<1> DEFINE o == PixelOrder(n, m, t)
           K == Upto(j, j, j, j)
           C0 == Upto(k - 1, k - 1, k - 1 - 2, k - 1 - 2)
           C2 == C0 \union Decode \union {<<"prepare", k>>}
           C3 == Upto(k, k, k - 2, k - 2)
           I0 == Decode \union Upto(k - 1, k - 1, j, j)
           I1 == Decode \union Upto(k, k - 1, j, j)
           I3 == Decode \union Upto(k, k, j, j)
           prepare == Cuda!Run("compute", {}, <<"prepare", k>>, {<<<<"video", 0>>, 1>>}, {<<<<"pixels", k>>, k>>})
           wait == Cuda!WaitFor("copy", <<"prepare", k>>)
           copy == Cuda!Run("copy", {}, <<"copy", k>>, {<<<<"pixels", k>>, k>>}, {<<<<"host", Cuda!Slot(k)>>, k>>})
<1>1. /\ <<"prepare", k>> \in o.ops /\ <<"prepare", k>> # <<>> /\ o.before[<<"prepare", k>>] = Decode
      /\ o.reads[<<"prepare", k>>] = {<<<<"video", 0>>, 1>>}
      /\ o.writes[<<"prepare", k>>] = {<<<<"pixels", k>>, k>>}
  <2>1. /\ <<"prepare", k>> \in o.ops /\ <<"prepare", k>> # <<>>
        /\ o.before[<<"prepare", k>>] = BeforePixel(m, t, <<"prepare", k>>)
        /\ o.reads[<<"prepare", k>>] = PixelReads(<<"prepare", k>>)
        /\ o.writes[<<"prepare", k>>] = PixelWrites(n, <<"prepare", k>>)
    <3>1. <<"prepare", k>> \in PixelOps(m, t)
      BY DEF PixelOps, Chunked, Upto
    <3> QED
      BY <3>1, PixelOpIs
  <2> QED
    BY <2>1 DEF BeforePixel, PixelReads, PixelWrites, Video, Pixel
<1>2. /\ <<"copy", k>> \in o.ops
      /\ o.before[<<"copy", k>>] = Decode \union Upto(k, k - 1, k - 2, k - 2)
      /\ o.reads[<<"copy", k>>] = {<<<<"pixels", k>>, k>>}
      /\ o.writes[<<"copy", k>>] = {<<<<"host", Cuda!Slot(k)>>, k>>}
  <2>1. /\ <<"copy", k>> \in o.ops
        /\ o.before[<<"copy", k>>] = BeforePixel(m, t, <<"copy", k>>)
        /\ o.reads[<<"copy", k>>] = PixelReads(<<"copy", k>>)
        /\ o.writes[<<"copy", k>>] = PixelWrites(n, <<"copy", k>>)
    <3>1. <<"copy", k>> \in PixelOps(m, t)
      BY DEF PixelOps, Chunked, Upto
    <3> QED
      BY <3>1, PixelOpIs
  <2> QED
    BY <2>1 DEF BeforePixel, PixelReads, PixelWrites, Host, Pixel
<1>3. /\ <<"prepare", k>> \notin I0 /\ I1 = I0 \union {<<"prepare", k>>}
      /\ <<"copy", k>> \notin I1 /\ I3 = I1 \union {<<"copy", k>>}
  <2>1. /\ <<"prepare", k>> \notin I0 /\ <<"copy", k>> \notin I1
    BY DEF Decode, Upto
  <2> QED
    BY <2>1, UptoAdds, SMTT(30)
<1>4. Upto(k, k - 1, k - 2, k - 2) \subseteq K \union C2
  <2>1. Upto(k, k - 1, k - 2, k - 2) = Upto(k - 1, k - 1, k - 2, k - 2) \union {<<"prepare", k>>}
    BY DEF Upto
  <2>2. Upto(k - 1, k - 1, k - 2, k - 2) \subseteq Upto(j, j, j, j) \union Upto(k - 1, k - 1, k - 1 - 2, k - 1 - 2)
    BY DEF Upto
  <2> QED
    BY <2>1, <2>2
<1>5. C3 = Upto(k, k - 1, k - 2, k - 2) \union {<<"copy", k>>}
  BY DEF Upto
<1>6. /\ I0 \in SUBSET PixelOps(m, t) /\ I1 \in SUBSET PixelOps(m, t) /\ I3 \in SUBSET PixelOps(m, t)
      /\ K \in SUBSET PixelOps(m, t) /\ C0 \in SUBSET PixelOps(m, t) /\ C2 \in SUBSET PixelOps(m, t)
      /\ C3 \in SUBSET PixelOps(m, t)
  BY DEF PixelOps, Chunked, Decode, Upto
<1>7. /\ Point(I0, K, C0, {}) \in Assertions(o) /\ Point(I1, K, C0, {}) \in Assertions(o)
      /\ Point(I1, K, C2, {}) \in Assertions(o) /\ Point(I3, K, C3, {}) \in Assertions(o)
  BY <1>6, PointTypes
<1>8. Cuda!Submit(k, Cuda!Slot(k)) = <<prepare, wait, copy>>
  BY DEF Cuda!Submit
<1>9. Between(k - 1, j) = Point(I0, K, C0, {}) /\ Between(k, j) = Point(I3, K, C3, {})
  BY DEF Between
<1> HIDE DEF o, K, C0, C2, C3, I0, I1, I3
<1>10. Leads(o, Point(I0, K, C0, {}), prepare, Point(I1, K, C0, {}))
  BY <1>1, <1>3, PixelRuns DEF Through
<1>11. Leads(o, Point(I1, K, C0, {}), wait, Point(I1, K, C2, {}))
  BY <1>1, PixelWaits DEF Through, C2
<1>12. Leads(o, Point(I1, K, C2, {}), copy, Point(I3, K, C3, {}))
  <2>1. o.before[<<"copy", k>>] \subseteq K \union C2
    BY <1>2, <1>4 DEF C2
  <2>2. C3 \subseteq Through(o, <<"copy", k>>)
    BY <1>2, <1>5 DEF Through
  <2> QED
    BY <1>2, <1>3, <2>1, <2>2, PixelRuns
<1> HIDE DEF prepare, wait, copy
<1>13. Outlines(o, Point(I0, K, C0, {}), <<prepare, wait, copy>>, Point(I3, K, C3, {}))
  BY <1>7, <1>10, <1>11, <1>12, OutlineThree
<1> QED
  BY <1>8, <1>9, <1>13 DEF o
LEMMA ReceiveOutline ==
  ASSUME NEW n \in Nat, NEW m \in Nat, NEW t \in Nat, t <= m, NEW k \in 1 .. t, NEW s \in 0 .. m, k <= s, s - 2 <= t
  PROVE  Outlines(PixelOrder(n, m, t), Between(s, k - 1), Cuda!Receive(k, Cuda!Slot(k)), Between(s, k))
<1> DEFINE o == PixelOrder(n, m, t)
           K0 == Upto(k - 1, k - 1, k - 1, k - 1)
           K1 == Decode \union Upto(k, k, k - 1, k - 1)
           K4 == Upto(k, k, k, k)
           C == Upto(s, s, s - 2, s - 2)
           H == Decode \union Upto(k, k, k, k - 1)
           I0 == Decode \union Upto(s, s, k - 1, k - 1)
           I2 == Decode \union Upto(s, s, k, k - 1)
           I4 == Decode \union Upto(s, s, k, k)
           copied == Cuda!Sync(<<"copy", k>>)
           free == Cuda!Run("host", {}, <<"free", k>>, {}, {<<<<"pixels", k>>, 0>>})
           encode == Cuda!Run("host", {}, <<"encode", k>>, {<<<<"host", Cuda!Slot(k)>>, k>>}, {})
           encoded == Cuda!Sync(<<"encode", k>>)
<1>1. /\ <<"copy", k>> \in o.ops /\ o.before[<<"copy", k>>] = Decode \union Upto(k, k - 1, k - 2, k - 2)
  <2>1. <<"copy", k>> \in PixelOps(m, t)
    BY DEF PixelOps, Chunked, Upto
  <2>2. <<"copy", k>> \in o.ops /\ o.before[<<"copy", k>>] = BeforePixel(m, t, <<"copy", k>>)
    BY <2>1, PixelOpIs
  <2> QED
    BY <2>2 DEF BeforePixel
<1>2. /\ <<"free", k>> \in o.ops /\ o.before[<<"free", k>>] = Decode \union Upto(k, k, k - 1, k - 1)
      /\ o.reads[<<"free", k>>] = {} /\ o.writes[<<"free", k>>] = {<<<<"pixels", k>>, 0>>}
  <2>1. <<"free", k>> \in PixelOps(m, t)
    BY DEF PixelOps, Chunked, Upto
  <2>2. /\ <<"free", k>> \in o.ops /\ o.before[<<"free", k>>] = BeforePixel(m, t, <<"free", k>>)
        /\ o.reads[<<"free", k>>] = PixelReads(<<"free", k>>)
        /\ o.writes[<<"free", k>>] = PixelWrites(n, <<"free", k>>)
    BY <2>1, PixelOpIs
  <2> QED
    BY <2>2 DEF BeforePixel, PixelReads, PixelWrites, Pixel
<1>3. /\ <<"encode", k>> \in o.ops /\ o.before[<<"encode", k>>] = Decode \union Upto(k, k, k, k - 1)
      /\ o.reads[<<"encode", k>>] = {<<<<"host", Cuda!Slot(k)>>, k>>} /\ o.writes[<<"encode", k>>] = {}
  <2>1. <<"encode", k>> \in PixelOps(m, t)
    BY DEF PixelOps, Chunked, Upto
  <2>2. /\ <<"encode", k>> \in o.ops /\ o.before[<<"encode", k>>] = BeforePixel(m, t, <<"encode", k>>)
        /\ o.reads[<<"encode", k>>] = PixelReads(<<"encode", k>>)
        /\ o.writes[<<"encode", k>>] = PixelWrites(n, <<"encode", k>>)
    BY <2>1, PixelOpIs
  <2> QED
    BY <2>2 DEF BeforePixel, PixelReads, PixelWrites, Host
<1>4. /\ <<"free", k>> \notin I0 /\ I2 = I0 \union {<<"free", k>>}
      /\ <<"encode", k>> \notin I2 /\ I4 = I2 \union {<<"encode", k>>}
  <2>1. /\ <<"free", k>> \notin I0 /\ <<"encode", k>> \notin I2
    BY DEF Decode, Upto
  <2>2. /\ Upto(s, s, k, k - 1) = Upto(s, s, k - 1, k - 1) \union {<<"free", k>>}
        /\ Upto(s, s, k, k) = Upto(s, s, k, k - 1) \union {<<"encode", k>>}
    BY DEF Upto
  <2> QED
    BY <2>1, <2>2
<1>5. K1 \subseteq K0 \union {<<"copy", k>>} \union Decode \union Upto(k, k - 1, k - 2, k - 2)
  BY DEF Upto
<1>6. /\ Upto(k, k, k, k - 1) = Upto(k, k, k - 1, k - 1) \union {<<"free", k>>}
      /\ Upto(k, k, k, k) = Upto(k, k, k, k - 1) \union {<<"encode", k>>}
  BY DEF Upto
<1>7. /\ I0 \in SUBSET PixelOps(m, t) /\ I2 \in SUBSET PixelOps(m, t) /\ I4 \in SUBSET PixelOps(m, t)
      /\ K0 \in SUBSET PixelOps(m, t) /\ K1 \in SUBSET PixelOps(m, t) /\ K4 \in SUBSET PixelOps(m, t)
      /\ C \in SUBSET PixelOps(m, t) /\ H \in SUBSET PixelOps(m, t)
  BY DEF PixelOps, Chunked, Decode, Upto
<1>8. /\ Point(I0, K0, C, {}) \in Assertions(o) /\ Point(I0, K1, C, {}) \in Assertions(o)
      /\ Point(I2, K1, C, H) \in Assertions(o) /\ Point(I4, K1, C, {}) \in Assertions(o)
      /\ Point(I4, K4, C, {}) \in Assertions(o)
  BY <1>7, PointTypes
<1>9. Cuda!Receive(k, Cuda!Slot(k)) = <<copied, free, encode, encoded>>
  BY DEF Cuda!Receive
<1>10. Between(s, k - 1) = Point(I0, K0, C, {}) /\ Between(s, k) = Point(I4, K4, C, {})
  BY DEF Between
<1>11. K1 \subseteq K0 \union Through(o, <<"copy", k>>)
  BY <1>1, <1>5 DEF Through
<1>12. H \subseteq Through(o, <<"free", k>>)
  BY <1>2, <1>6 DEF Through
<1>13. K4 \subseteq K1 \union Through(o, <<"encode", k>>)
  BY <1>3, <1>6 DEF Through
<1> HIDE DEF o, K0, K1, K4, C, H, I0, I2, I4
<1>14. Leads(o, Point(I0, K0, C, {}), copied, Point(I0, K1, C, {}))
  BY <1>1, <1>11, PixelSyncs
<1>15. Leads(o, Point(I0, K1, C, {}), free, Point(I2, K1, C, H))
  <2>1. o.before[<<"free", k>>] \subseteq K1
    BY <1>2 DEF K1
  <2> QED
    BY <1>2, <1>4, <1>12, <2>1, PixelRuns
<1>16. Leads(o, Point(I2, K1, C, H), encode, Point(I4, K1, C, {}))
  <2>1. o.before[<<"encode", k>>] \subseteq K1 \union H
    BY <1>3 DEF H
  <2> QED
    BY <1>3, <1>4, <2>1, PixelRuns
<1>17. Leads(o, Point(I4, K1, C, {}), encoded, Point(I4, K4, C, {}))
  BY <1>3, <1>13, PixelSyncs
<1> HIDE DEF copied, free, encode, encoded
<1>18. Outlines(o, Point(I0, K0, C, {}), <<copied, free, encode, encoded>>, Point(I4, K4, C, {}))
  BY <1>8, <1>14, <1>15, <1>16, <1>17, OutlineFour
<1> QED
  BY <1>9, <1>10, <1>18 DEF o

(* The video is decoded, and the compute stream waits for it.              *)
LEMMA DecodeOutline ==
  ASSUME NEW n \in Nat, NEW m \in Nat, NEW t \in Nat
  PROVE  Outlines(PixelOrder(n, m, t), Nothing,
                  <<Cuda!Run("main", {}, <<"decode", 0>>, {}, {<<<<"video", 0>>, 1>>}), Cuda!Wait("compute", "main")>>,
                  Between(0, 0))
<1> DEFINE o == PixelOrder(n, m, t)
           x == <<"decode", 0>>
           decode == Cuda!Run("main", {}, x, {}, {<<<<"video", 0>>, 1>>})
           wait == Cuda!Wait("compute", "main")
           a == [issued |-> Decode, known |-> {}, cover |-> [s \in Cuda!StreamNames |-> IF s = "main" THEN Decode ELSE {}]]
<1>1. /\ x \in o.ops /\ o.before[x] = {} /\ o.reads[x] = {} /\ o.writes[x] = {<<<<"video", 0>>, 1>>}
  <2>1. x \in PixelOps(m, t)
    BY DEF PixelOps, Chunked, Decode
  <2>2. /\ x \in o.ops /\ o.before[x] = BeforePixel(m, t, x)
        /\ o.reads[x] = PixelReads(x) /\ o.writes[x] = PixelWrites(n, x)
    BY <2>1, PixelOpIs
  <2> QED
    BY <2>2 DEF BeforePixel, PixelReads, PixelWrites, Video
<1>2. Upto(0, 0, 0, 0) = {} /\ Upto(0, 0, 0 - 2, 0 - 2) = {}
  BY DEF Upto
<1>3. /\ decode.do = "run" /\ decode.on = "main" /\ decode.after = {} /\ decode.op = x
      /\ decode.reads = {} /\ decode.writes = {<<<<"video", 0>>, 1>>}
      /\ wait.do = "wait" /\ wait.on = "compute" /\ wait.after = {"main"} /\ wait.op = <<>>
  BY DEF Cuda!Run, Cuda!Wait
<1>4. /\ a.issued = Decode /\ a.known = {}
      /\ \A s \in Cuda!StreamNames : a.cover[s] = IF s = "main" THEN Decode ELSE {}
      /\ Nothing.issued = {} /\ Nothing.known = {} /\ \A s \in Cuda!StreamNames : Nothing.cover[s] = {}
      /\ Between(0, 0).issued = Decode /\ Between(0, 0).known = {}
      /\ \A s \in Cuda!StreamNames : Between(0, 0).cover[s] = IF s = "compute" THEN Decode ELSE {}
  BY <1>2 DEF Nothing, Between, Point
<1>5. {"main", "compute"} \subseteq Cuda!StreamNames
  BY DEF Cuda!StreamNames
<1>6. Decode = {x} /\ Decode \subseteq o.ops
  BY <1>1 DEF Decode
<1>7. Nothing \in Assertions(o) /\ a \in Assertions(o)
  BY <1>6 DEF Assertions, Nothing
<1>8. Between(0, 0) \in Assertions(o)
  <2>1. Decode \union Upto(0, 0, 0, 0) \in SUBSET PixelOps(m, t)
    BY <1>2 DEF PixelOps, Chunked
  <2> QED
    BY <1>2, <2>1, PointTypes DEF Between
<1> HIDE DEF o, x, decode, wait, a
<1>9. Leads(o, Nothing, decode, a)
  BY <1>1, <1>3, <1>4, <1>5, <1>6 DEF Leads, LeadsRun, Through
<1>10. Leads(o, a, wait, Between(0, 0))
  BY <1>3, <1>4, <1>5 DEF Leads, LeadsWait, CoverOf
<1>11. Outlines(o, Nothing, <<decode, wait>>, Between(0, 0))
  BY <1>7, <1>8, <1>9, <1>10, OutlineTwo
<1> QED
  BY <1>11 DEF o, decode, wait, x

(* Both streams are over, and everything is given up.                      *)
LEMMA FreeOutline ==
  ASSUME NEW n \in Nat, NEW m \in Nat \ {0}, NEW t \in Nat, t <= m, m <= t + 2
  PROVE  \E b : Outlines(PixelOrder(n, m, t), Between(m, t),
                 <<Cuda!Sync(<<"prepare", m>>), Cuda!Sync(<<"copy", m>>),
                   Cuda!Run("host", {}, <<"free_all", 0>>, {},
                     {<<<<"video", 0>>, 0>>} \union {<<<<"pixels", k>>, 0>> : k \in 1 .. n}
                     \union {<<<<"host", s>>, 0>> : s \in {0, 1}})>>, b)
<1> DEFINE o == PixelOrder(n, m, t)
           x == <<"free_all", 0>>
           K == Upto(t, t, t, t)
           All == Chunked(m, t)
           C == Upto(m, m, m - 2, m - 2)
           given == {<<<<"video", 0>>, 0>>} \union {<<<<"pixels", k>>, 0>> : k \in 1 .. n}
                    \union {<<<<"host", s>>, 0>> : s \in {0, 1}}
           prepared == Cuda!Sync(<<"prepare", m>>)
           copied == Cuda!Sync(<<"copy", m>>)
           free == Cuda!Run("host", {}, x, {}, given)
<1>1. /\ <<"prepare", m>> \in o.ops /\ <<"copy", m>> \in o.ops
      /\ o.before[<<"copy", m>>] = Decode \union Upto(m, m - 1, m - 2, m - 2)
  <2>1. <<"prepare", m>> \in PixelOps(m, t) /\ <<"copy", m>> \in PixelOps(m, t)
    BY DEF PixelOps, Chunked, Upto
  <2>2. /\ <<"prepare", m>> \in o.ops /\ <<"copy", m>> \in o.ops
        /\ o.before[<<"copy", m>>] = BeforePixel(m, t, <<"copy", m>>)
    BY <2>1, PixelOpIs
  <2> QED
    BY <2>2 DEF BeforePixel
<1>2. x \in o.ops /\ o.before[x] = All /\ o.reads[x] = {} /\ o.writes[x] = given
  <2>1. x \in PixelOps(m, t)
    BY DEF PixelOps
  <2>2. /\ x \in o.ops /\ o.before[x] = BeforePixel(m, t, x)
        /\ o.reads[x] = PixelReads(x) /\ o.writes[x] = PixelWrites(n, x)
    BY <2>1, PixelOpIs
  <2>3. PixelReads(x) = {} /\ BeforePixel(m, t, x) = All
    BY DEF PixelReads, BeforePixel
  <2>4. PixelWrites(n, x) = given
    BY DEF PixelWrites, Video, Pixel
  <2> HIDE DEF o, given, x, All
  <2> QED
    BY <2>2, <2>3, <2>4
<1>3. All \subseteq K \union Through(o, <<"copy", m>>)
  <2>1. Upto(m, m, t, t) \subseteq Upto(t, t, t, t) \union Upto(m, m - 1, m - 2, m - 2) \union {<<"copy", m>>}
               \union Upto(m, m, 0, 0)
    BY DEF Upto
  <2>2. Upto(m, m, 0, 0) \subseteq Upto(m, m - 1, m - 2, m - 2) \union {<<"copy", m>>}
    BY DEF Upto
  <2> HIDE DEF o
  <2> QED
    BY <1>1, <2>1, <2>2 DEF Through, Chunked
<1>4. /\ All \in SUBSET PixelOps(m, t) /\ K \in SUBSET PixelOps(m, t) /\ C \in SUBSET PixelOps(m, t)
      /\ PixelOps(m, t) = All \union {x} /\ x \notin All
  BY DEF PixelOps, Chunked, Decode, Upto
<1>5. /\ Point(All, K, C, {}) \in Assertions(o) /\ Point(All, All, C, {}) \in Assertions(o)
      /\ Point(PixelOps(m, t), All, C, {}) \in Assertions(o)
  <2>1. PixelOps(m, t) \in SUBSET PixelOps(m, t) /\ {} \in SUBSET PixelOps(m, t)
    OBVIOUS
  <2> HIDE DEF All, K, C, x
  <2> QED
    BY <1>4, <2>1, PointTypes
<1>6. Between(m, t) = Point(All, K, C, {})
  BY DEF Between, Chunked
<1> HIDE DEF o, x, K, All, C, given
<1>7. Leads(o, Point(All, K, C, {}), prepared, Point(All, K, C, {}))
  BY <1>1, PixelSyncs
<1>8. Leads(o, Point(All, K, C, {}), copied, Point(All, All, C, {}))
  BY <1>1, <1>3, PixelSyncs
<1>9. Leads(o, Point(All, All, C, {}), free, Point(PixelOps(m, t), All, C, {}))
  <2> DEFINE J == PixelOps(m, t)
  <2>1. x \in o.ops /\ x \notin All /\ o.before[x] \subseteq All /\ J = All \union {x}
    BY <1>2, <1>4
  <2> HIDE DEF J
  <2>2. Leads(o, Point(All, All, C, {}), free, Point(J, All, C, {}))
    BY <1>2, <2>1, PixelRuns, ZenonT(60)
  <2> QED
    BY <2>2 DEF J
<1> HIDE DEF prepared, copied, free
<1>10. Outlines(o, Point(All, K, C, {}), <<prepared, copied, free>>, Point(PixelOps(m, t), All, C, {}))
  BY <1>5, <1>7, <1>8, <1>9, OutlineThree
<1> QED
  BY <1>6, <1>10 DEF o, prepared, copied, free, given, x

Least(a, b) == IF a <= b THEN a ELSE b

(* Any number of chunks, of which the consumer takes any number.           *)
LEMMA PixelsProvable ==
  ASSUME NEW n \in Nat \ {0}, NEW t \in 0 .. n
  PROVE  Provable(Cuda!Pixels(n, t))
<1> DEFINE m == Least(n, IF t = n \/ t = 0 THEN t + 2 ELSE t + 1)
           o == PixelOrder(n, m, t)
           Ahead(k) == IF k <= n THEN Cuda!Submit(k, Cuda!Slot(k)) ELSE <<>>
           seqs == [k \in 1 .. t |-> Cuda!Receive(k, Cuda!Slot(k))
                                    \o (IF k < t \/ t = n THEN Ahead(k + 2) ELSE <<>>)]
           at == [k \in 0 .. t |-> Between(Least(m, k + 2), k)]
           first == <<Cuda!Run("main", {}, <<"decode", 0>>, {}, {<<<<"video", 0>>, 1>>}), Cuda!Wait("compute", "main")>>
           last == <<Cuda!Sync(<<"prepare", m>>), Cuda!Sync(<<"copy", m>>),
                     Cuda!Run("host", {}, <<"free_all", 0>>, {},
                       {<<<<"video", 0>>, 0>>} \union {<<<<"pixels", k>>, 0>> : k \in 1 .. n}
                       \union {<<<<"host", s>>, 0>> : s \in {0, 1}})>>
<1>1. /\ m \in Nat \ {0} /\ t \in Nat /\ t <= m /\ m <= t + 2 /\ m <= n
      /\ \A k \in 1 .. t : (k < t \/ t = n) /\ k + 2 <= n <=> k + 2 <= m
      /\ 2 <= n <=> 2 <= m
  BY DEF Least
<1>2. Cuda!Min({n, IF t = n \/ t = 0 THEN t + 2 ELSE t + 1}) = m
  BY DEF Cuda!Min, Least
<1>3. Cuda!Pixels(n, t) = first \o Ahead(1) \o Ahead(2) \o Cuda!FlattenSeq(seqs) \o last
  <2> HIDE DEF m
  <2> QED
    BY <1>2 DEF Cuda!Pixels
<1>4. IsOrder(o) /\ IsRaceFree(o)
  <2> HIDE DEF m
  <2> QED
    BY <1>1, PixelIsOrder, PixelIsRaceFree
<1>5. ASSUME NEW k \in 1 .. t PROVE seqs[k] = Cuda!Receive(k, Cuda!Slot(k)) \o (IF k + 2 <= m THEN Ahead(k + 2) ELSE <<>>)
  BY <1>1, <1>5
<1>16. seqs \in [1 .. t -> {Cuda!Receive(k, Cuda!Slot(k)) \o (IF k < t \/ t = n THEN Ahead(k + 2) ELSE <<>>) : k \in 1 .. t}]
  <2> HIDE DEF Ahead, m, o
  <2> QED
    OBVIOUS
<1> HIDE DEF m, o, seqs
<1>6. at[0] = Between(Least(m, 2), 0) /\ at[t] = Between(m, t)
  <2>1. Least(m, t + 2) = m /\ 0 + 2 = 2 /\ 0 \in 0 .. t /\ t \in 0 .. t
    BY <1>1 DEF Least
  <2> QED
    BY <2>1
<1>7. at \in [0 .. t -> Assertions(o)]
  <2>1. ASSUME NEW k \in 0 .. t, NEW s \in 0 .. m, s - 2 <= t PROVE Between(s, k) \in Assertions(o)
    <3>1. /\ Decode \union Upto(s, s, k, k) \in SUBSET PixelOps(m, t) /\ Upto(k, k, k, k) \in SUBSET PixelOps(m, t)
          /\ Upto(s, s, s - 2, s - 2) \in SUBSET PixelOps(m, t) /\ {} \in SUBSET PixelOps(m, t)
      BY <1>1, <2>1 DEF PixelOps, Chunked, Decode, Upto
    <3> QED
      BY <1>1, <3>1, PointTypes DEF Between, o
  <2>2. ASSUME NEW k \in 0 .. t PROVE Least(m, k + 2) \in 0 .. m /\ Least(m, k + 2) - 2 <= t
    BY <1>1 DEF Least
  <2> QED
    BY <2>1, <2>2
<1>8. Outlines(o, Nothing, first, Between(0, 0))
  BY <1>1, DecodeOutline DEF o
<1>9. Outlines(o, Between(0, 0), Ahead(1), Between(1, 0))
  <2>1. 1 <= n /\ 1 \in 1 .. m /\ 0 \in 0 .. t /\ 1 - 1 = 0 /\ 1 - 2 <= 0
    BY <1>1
  <2>2. Outlines(o, Between(1 - 1, 0), Cuda!Submit(1, Cuda!Slot(1)), Between(1, 0))
    BY <1>1, <2>1, SubmitOutline DEF o
  <2> QED
    BY <2>1, <2>2
<1>10. Outlines(o, Between(1, 0), Ahead(2), at[0])
  <2>1. CASE 2 <= n
    <3>1. 2 \in 1 .. m /\ 0 \in 0 .. t /\ 2 - 1 = 1 /\ 2 - 2 <= 0 /\ Least(m, 2) = 2
      BY <1>1, <2>1 DEF Least
    <3>2. Outlines(o, Between(2 - 1, 0), Cuda!Submit(2, Cuda!Slot(2)), Between(2, 0))
      BY <1>1, <3>1, SubmitOutline DEF o
    <3> HIDE DEF at
    <3> QED
      BY <1>6, <2>1, <3>1, <3>2
  <2>2. CASE ~ (2 <= n)
    <3>1. Least(m, 2) = 1 /\ Ahead(2) = <<>>
      BY <1>1, <2>2 DEF Least
    <3> HIDE DEF at, Ahead
    <3>2. at[0] = Between(1, 0) /\ at[0] \in Assertions(o)
      BY <1>6, <1>7, <3>1
    <3> QED
      BY <3>1, <3>2, OutlineEmpty
  <2> QED
    BY <2>1, <2>2
<1>11. ASSUME NEW k \in 1 .. t PROVE Outlines(o, at[k - 1], seqs[k], at[k])
  <2>1. /\ k - 1 + 2 = k + 1 /\ k - 1 \in 0 .. t /\ k \in 0 .. t
        /\ at[k - 1] = Between(Least(m, k + 1), k - 1) /\ at[k] = Between(Least(m, k + 2), k)
    OBVIOUS
  <2>2. /\ Least(m, k + 1) \in 0 .. m /\ k <= Least(m, k + 1) /\ Least(m, k + 1) - 2 <= t
    BY <1>1 DEF Least
  <2>3. Outlines(o, at[k - 1], Cuda!Receive(k, Cuda!Slot(k)), Between(Least(m, k + 1), k))
    <3> HIDE DEF at
    <3> QED
      BY <1>1, <2>1, <2>2, ReceiveOutline DEF o
  <2>4. Outlines(o, Between(Least(m, k + 1), k), IF k + 2 <= m THEN Ahead(k + 2) ELSE <<>>, at[k])
    <3>1. CASE k + 2 <= m
      <4> DEFINE j == k + 2
      <4>1. /\ j \in 1 .. m /\ j - 1 = k + 1 /\ j - 2 <= k /\ k < j /\ j <= n
            /\ Least(m, k + 1) = k + 1 /\ Least(m, k + 2) = j
        BY <1>1, <3>1 DEF Least
      <4>2. Ahead(k + 2) = Cuda!Submit(j, Cuda!Slot(j))
        BY <4>1
      <4> HIDE DEF j, at, Ahead
      <4>3. Outlines(o, Between(j - 1, k), Cuda!Submit(j, Cuda!Slot(j)), Between(j, k))
        BY <1>1, <2>1, <4>1, SubmitOutline DEF o
      <4> QED
        BY <2>1, <3>1, <4>1, <4>2, <4>3
    <3>2. CASE ~ (k + 2 <= m)
      <4>1. Least(m, k + 1) = Least(m, k + 2)
        BY <1>1, <3>2 DEF Least
      <4> HIDE DEF at, Ahead
      <4>2. at[k] \in Assertions(o)
        BY <1>7, <2>1
      <4> QED
        BY <2>1, <3>2, <4>1, <4>2, OutlineEmpty
    <3> QED
      BY <3>1, <3>2
  <2> HIDE DEF at, Ahead
  <2> QED
    BY <1>5, <2>3, <2>4, OutlineConcat
<1>12. PICK b : Outlines(o, Between(m, t), last, b)
  BY <1>1, FreeOutline DEF o
<1> HIDE DEF at, Ahead, first, last
<1>13. Outlines(o, at[0], Cuda!FlattenSeq(seqs), at[t])
  <2>1. t \in Nat /\ \E Any : seqs \in [1 .. t -> Any]
    BY <1>1, <1>16
  <2> QED
    BY <1>7, <1>11, <2>1, OutlineFlat
<1>14. Outlines(o, Nothing, Cuda!Pixels(n, t), b)
  BY <1>3, <1>6, <1>8, <1>9, <1>10, <1>12, <1>13, OutlineConcat
<1> QED
  BY <1>4, <1>14 DEF Provable

-----------------------------------------------------------------------------
(* All programs.                                                           *)
LEMMA ProgramsProvable ==
  ASSUME NEW prog \in Cuda!Programs
  PROVE  Provable(prog)
<1>1. Layers \in Nat /\ MaxChunks \in Nat
  BY StreamsAssumption
<1>2. \/ \E two \in BOOLEAN : prog = Cuda!DualRequest(two)
      \/ \E n \in 1 .. MaxChunks : \E t \in 0 .. n : prog = Cuda!Pixels(n, t)
  BY DEF Cuda!Programs
<1>3. ASSUME NEW two \in BOOLEAN, prog = Cuda!DualRequest(two) PROVE Provable(prog)
  <2>1. Provable(Cuda!DualRequest(two))
    BY <1>1, DualProvable
  <2> QED
    BY <1>3, <2>1
<1>4. ASSUME NEW n \in 1 .. MaxChunks, NEW t \in 0 .. n, prog = Cuda!Pixels(n, t) PROVE Provable(prog)
  <2>1. n \in Nat \ {0}
    BY <1>1
  <2>2. Provable(Cuda!Pixels(n, t))
    BY <2>1, PixelsProvable
  <2> QED
    BY <1>4, <2>2
<1> QED
  BY <1>2, <1>3, <1>4

LEMMA StreamsInitial == Init => StreamInv
<1> SUFFICES ASSUME Init, part = "streams" PROVE \E o, need : Outlined(o, need)
  BY DEF StreamInv
<1>1. Cuda!Init
  BY DEF Init
<1>2. Provable(program)
  BY <1>1, ProgramsProvable DEF Cuda!Init
<1> QED
  BY <1>1, <1>2, OutlinedAtFirst

LEMMA StreamsStep == StreamInv /\ [Next]_pvars => StreamInv'
<1> SUFFICES ASSUME StreamInv, [Next]_pvars, (part = "streams")'
             PROVE  \E o, need : Outlined(o, need)'
  BY DEF StreamInv
<1>5. part = "streams"
  BY DEF Next, pvars, CacheMoves, ScopeMoves, CudaMoves, VaeMoves, ScanMoves, LayoutMoves, ExactMoves
<1>1. PICK o, need : Outlined(o, need)
  BY <1>5 DEF StreamInv
<1>2. CASE CudaMoves
  <2>1. Cuda!Next
    BY <1>2 DEF CudaMoves
  <2>2. Outlined(o, need)'
    BY <1>1, <2>1, OutlinedStep
  <2> QED
    BY <2>2
<1>3. CASE UNCHANGED cudaVars
  <2>1. UNCHANGED <<program, issued, frontier, waiting, running, done, version_in>>
    BY <1>3 DEF cudaVars
  <2>2. StreamTypes(o, need)'
    BY <1>1, <2>1, Rigid DEF Outlined, StreamTypes
  <2>3. (Once(o, need) /\ InOrder(o) /\ Awaited(o, need) /\ Versions(o))'
    BY <1>1, <2>1 DEF Outlined, Once, InOrder, Awaited, Versions, IsOf, Closed, Last, Touches, Started
  <2>4. Outlined(o, need)'
    BY <2>2, <2>3 DEF Outlined
  <2> QED
    BY <2>4
<1>4. CudaMoves \/ UNCHANGED cudaVars
  BY DEF Next, pvars, CacheMoves, ScopeMoves, VaeMoves, ScanMoves, LayoutMoves, ExactMoves
<1> QED
  BY <1>2, <1>3, <1>4

(* Whatever the number of layers and of chunks, and however fast a stream  *)
(* is, what the attention branches and the pinned pixels read on CUDA      *)
(* streams has been written by what it should be, and is not overwritten   *)
(* while it is read.                                                       *)
THEOREM StreamsRaceFree == Spec => []RaceFree
<1>1. StreamInv => RaceFree
  <2> SUFFICES ASSUME StreamInv, part = "streams" PROVE Cuda!TypeOK /\ Cuda!RaceFree
    BY DEF RaceFree
  <2>1. PICK o, need : Outlined(o, need)
    BY DEF StreamInv
  <2> QED
    BY <2>1, NoRaces
<1> QED
  BY StreamsInitial, StreamsStep, <1>1, PTL DEF Spec

-----------------------------------------------------------------------------
(* What FlattenSeq() gives, when off[k] elements are in the first k        *)
(* sequences.                                                              *)
LaidOut(flat, n, seqs, off) ==
  /\ Len(flat) = off[n]
  /\ \A k \in 1 .. n : \A j \in 1 .. Len(seqs[k]) :
       off[k - 1] + j \in 1 .. off[n] /\ flat[off[k - 1] + j] = seqs[k][j]
  /\ \A p \in 1 .. off[n] : \E k \in 1 .. n : \E j \in 1 .. Len(seqs[k]) : p = off[k - 1] + j

IsOffset(off, n, seqs) ==
  /\ off \in [0 .. n -> Nat] /\ off[0] = 0
  /\ \A k \in 1 .. n : off[k] = off[k - 1] + Len(seqs[k])

(* So does FlattenSeq() lay them out.                                      *)
LEMMA FlatPlaces ==
  ASSUME NEW n \in Nat, NEW U, NEW seqs \in [1 .. n -> Seq(U)], NEW off, IsOffset(off, n, seqs)
  PROVE  Layout!FlattenSeq(seqs) \in Seq(U) /\ LaidOut(Layout!FlattenSeq(seqs), n, seqs, off)
<1>1. CASE n = 0
  <2>1. Len(seqs) = 0 /\ seqs \in Seq(U) /\ off[0] = 0 /\ 1 .. 0 = {}
    <3>1. 1 .. 0 = {} /\ seqs \in [1 .. 0 -> Seq(U)]
      BY <1>1
    <3>2. seqs = <<>>
      BY <3>1
    <3> QED
      BY <3>1, <3>2 DEF IsOffset
  <2>2. Layout!FlattenSeq(seqs) = seqs
    BY <2>1 DEF Layout!FlattenSeq
  <2> QED
    BY <1>1, <2>1, <2>2 DEF LaidOut
<1>2. CASE n # 0
  <2>0. n \in Nat \ {0}
    BY <1>2
  <2>1. Layout!FlattenSeq(seqs) = Cuda!FlattenSeq(seqs)
    BY DEF Layout!FlattenSeq, Cuda!FlattenSeq
  <2>2. PICK flat : Flattens(flat, n, seqs)
    BY <2>0, FlatIs
  <2> DEFINE Good(k) == flat[k] \in Seq(U) /\ LaidOut(flat[k], k, seqs, off)
             T == {m \in Nat : m + 1 <= n => Good(m + 1)}
  <2>3. 0 \in T
    <3>1. flat[1] = seqs[1] /\ seqs[1] \in Seq(U) /\ 1 \in 1 .. n /\ 0 \in 0 .. n
      BY <2>0, <2>2 DEF Flattens
    <3>2. off[0] = 0 /\ off[1] = Len(seqs[1]) /\ Len(seqs[1]) \in Nat
      <4>1. off[1] = off[1 - 1] + Len(seqs[1]) /\ off[0] = 0
        BY <3>1 DEF IsOffset
      <4>2. Len(seqs[1]) \in Nat
        BY <3>1, LenProperties
      <4> QED
        BY <4>1, <4>2
    <3>3. LaidOut(flat[1], 1, seqs, off)
      BY <3>1, <3>2 DEF LaidOut
    <3> QED
      BY <3>1, <3>3
  <2>4. ASSUME NEW m \in Nat, m \in T PROVE m + 1 \in T
    <3> SUFFICES ASSUME m + 1 + 1 <= n PROVE Good(m + 1 + 1)
      OBVIOUS
    <3> DEFINE k == m + 1
    <3>1. k \in 1 .. n /\ k + 1 \in 2 .. n /\ k + 1 \in 1 .. n /\ k \in 0 .. n /\ k + 1 \in 0 .. n /\ k \in Nat
      OBVIOUS
    <3>2. flat[k] \in Seq(U) /\ LaidOut(flat[k], k, seqs, off)
      BY <2>4
    <3> HIDE DEF k, T
    <3>3. flat[k + 1] = flat[k] \o seqs[k + 1] /\ seqs[k + 1] \in Seq(U)
      <4>1. \A i \in 2 .. n : flat[i] = flat[i - 1] \o seqs[i]
        BY <2>2 DEF Flattens
      <4> DEFINE l == k + 1
      <4>2. l \in 2 .. n /\ l \in 1 .. n /\ l - 1 = k
        BY <3>1
      <4> HIDE DEF l
      <4>3. flat[l] = flat[k] \o seqs[l] /\ seqs[l] \in Seq(U)
        <5>1. flat[l] = flat[l - 1] \o seqs[l]
          BY <4>1, <4>2
        <5> QED
          BY <4>2, <5>1
      <4> QED
        BY <4>3 DEF l
    <3>4. off[k + 1] = off[k] + Len(seqs[k + 1]) /\ off[k] \in Nat /\ Len(seqs[k + 1]) \in Nat
      <4>1. off[k + 1] = off[k + 1 - 1] + Len(seqs[k + 1])
        BY <3>1 DEF IsOffset
      <4>2. off[k] \in Nat
        BY <3>1 DEF IsOffset
      <4> QED
        BY <3>1, <3>3, <4>1, <4>2, LenProperties
    <3> DEFINE a == flat[k]
               b == seqs[k + 1]
               c == flat[k + 1]
    <3>5. /\ c \in Seq(U) /\ Len(c) = off[k + 1] /\ Len(a) = off[k]
          /\ \A p \in 1 .. off[k] + Len(b) : c[p] = IF p <= off[k] THEN a[p] ELSE b[p - off[k]]
      <4>1. Len(a) = off[k] /\ a \in Seq(U) /\ b \in Seq(U)
        BY <3>2, <3>3 DEF LaidOut
      <4>2. c = a \o b
        BY <3>3
      <4> HIDE DEF a, b, c
      <4>3. /\ c \in Seq(U) /\ Len(c) = Len(a) + Len(b)
            /\ \A p \in 1 .. Len(a) + Len(b) : c[p] = IF p <= Len(a) THEN a[p] ELSE b[p - Len(a)]
        BY <4>1, <4>2, ConcatProperties
      <4> QED
        BY <3>4, <4>1, <4>3 DEF b
    <3>6. ASSUME NEW i \in 1 .. k + 1, NEW j \in 1 .. Len(seqs[i])
          PROVE  off[i - 1] + j \in 1 .. off[k + 1] /\ c[off[i - 1] + j] = seqs[i][j]
      <4>1. CASE i = k + 1
        <5>1. j \in 1 .. Len(b) /\ off[i - 1] = off[k]
          BY <3>1, <4>1
        <5> HIDE DEF b, c
        <5> DEFINE q == off[k] + j
        <5>2. q \in 1 .. off[k] + Len(b) /\ ~(q <= off[k]) /\ q - off[k] = j
          BY <3>4, <5>1 DEF b
        <5>3. c[q] = b[j]
          <6> HIDE DEF q
          <6> QED
            BY <3>5, <5>2
        <5> QED
          BY <3>4, <4>1, <5>1, <5>2, <5>3 DEF b
      <4>2. CASE i # k + 1
        <5>1. i \in 1 .. k
          BY <3>1, <4>2
        <5>2. off[i - 1] + j \in 1 .. off[k] /\ a[off[i - 1] + j] = seqs[i][j]
          BY <3>2, <5>1 DEF LaidOut
        <5> HIDE DEF a, b, c
        <5>3. off[i - 1] + j \in 1 .. off[k] + Len(b)
          BY <3>4, <5>2 DEF b
        <5>4. c[off[i - 1] + j] = a[off[i - 1] + j]
          BY <3>4, <3>5, <5>2, <5>3, SMTT(30)
        <5> QED
          BY <3>4, <5>2, <5>3, <5>4 DEF b
      <4> QED
        BY <4>1, <4>2
    <3>7. ASSUME NEW p \in 1 .. off[k + 1]
          PROVE  \E i \in 1 .. k + 1 : \E j \in 1 .. Len(seqs[i]) : p = off[i - 1] + j
      <4>1. CASE p <= off[k]
        <5>1. PICK i \in 1 .. k : \E j \in 1 .. Len(seqs[i]) : p = off[i - 1] + j
          BY <3>2, <3>4, <4>1 DEF LaidOut
        <5>2. i \in 1 .. k + 1
          BY <3>1
        <5> QED
          BY <5>1, <5>2
      <4>2. CASE ~(p <= off[k])
        <5>1. p - off[k] \in 1 .. Len(seqs[k + 1]) /\ p = off[k] + (p - off[k])
          BY <3>4, <4>2
        <5>2. k + 1 \in 1 .. k + 1 /\ k + 1 - 1 = k
          BY <3>1
        <5> DEFINE l == k + 1
        <5>3. l \in 1 .. k + 1 /\ l - 1 = k
          BY <3>1
        <5>5. p - off[k] \in 1 .. Len(seqs[l])
          BY <5>1
        <5> HIDE DEF l
        <5>4. \E j \in 1 .. Len(seqs[l]) : p = off[l - 1] + j
          BY <5>1, <5>3, <5>5
        <5> QED
          BY <5>3, <5>4
      <4> QED
        BY <4>1, <4>2
    <3>8. LaidOut(c, k + 1, seqs, off)
      <4> HIDE DEF c
      <4> QED
        BY <3>5, <3>6, <3>7 DEF LaidOut
    <3> QED
      BY <3>5, <3>8 DEF k
  <2>5. n - 1 \in T
    <3> HIDE DEF T
    <3>1. \A m \in Nat : m \in T
      BY <2>3, <2>4, ZeroAndNext
    <3> QED
      BY <2>0, <3>1
  <2>6. Good(n)
    <3>1. n - 1 + 1 = n
      BY <2>0
    <3> HIDE DEF Good
    <3> QED
      BY <2>5, <3>1
  <2> QED
    BY <2>1, <2>2, <2>6 DEF Flattens
<1> QED
  BY <1>1, <1>2

(* In sequences of one length.                                             *)
LEMMA EvenPlaces ==
  ASSUME NEW n \in Nat, NEW w \in Nat, NEW U, NEW seqs \in [1 .. n -> Seq(U)],
         \A k \in 1 .. n : Len(seqs[k]) = w
  PROVE  LET flat == Layout!FlattenSeq(seqs) IN
         /\ flat \in Seq(U) /\ Len(flat) = n * w
         /\ \A k \in 1 .. n : \A j \in 1 .. w :
              (k - 1) * w + j \in 1 .. n * w /\ flat[(k - 1) * w + j] = seqs[k][j]
         /\ \A p \in 1 .. n * w : \E k \in 1 .. n : \E j \in 1 .. w : p = (k - 1) * w + j
<1> DEFINE off == [k \in 0 .. n |-> k * w]
<1>1. off \in [0 .. n -> Nat]
  <2>1. \A k \in 0 .. n : k * w \in Nat
    BY Times
  <2> QED
    BY <2>1
<1>2. off[0] = 0
  <2>1. 0 * w = 0 /\ 0 \in 0 .. n
    OBVIOUS
  <2> QED
    BY <2>1
<1>3. ASSUME NEW k \in 1 .. n PROVE off[k] = off[k - 1] + Len(seqs[k])
  <2>1. k - 1 \in Nat /\ k - 1 \in 0 .. n /\ k \in 0 .. n /\ k - 1 + 1 = k
    OBVIOUS
  <2>2. (k - 1 + 1) * w = (k - 1) * w + w
    BY <2>1, Times
  <2> QED
    BY <2>1, <2>2
<1> HIDE DEF off
<1>4. IsOffset(off, n, seqs)
  BY <1>1, <1>2, <1>3 DEF IsOffset
<1> DEFINE flat == Layout!FlattenSeq(seqs)
<1>5. flat \in Seq(U) /\ LaidOut(flat, n, seqs, off)
  BY <1>4, FlatPlaces
<1>6. n \in 0 .. n /\ \A k \in 1 .. n : k - 1 \in 0 .. n
  OBVIOUS
<1>7. off[n] = n * w /\ \A k \in 1 .. n : off[k - 1] = (k - 1) * w
  BY <1>6 DEF off
<1> HIDE DEF flat
<1>8. ASSUME NEW k \in 1 .. n, NEW j \in 1 .. w
      PROVE  (k - 1) * w + j \in 1 .. n * w /\ flat[(k - 1) * w + j] = seqs[k][j]
  <2>1. j \in 1 .. Len(seqs[k])
    OBVIOUS
  <2>2. off[k - 1] + j \in 1 .. off[n] /\ flat[off[k - 1] + j] = seqs[k][j]
    BY <1>5, <2>1 DEF LaidOut
  <2> QED
    BY <1>7, <2>2
<1>9. ASSUME NEW p \in 1 .. n * w
      PROVE  \E k \in 1 .. n : \E j \in 1 .. w : p = (k - 1) * w + j
  <2>1. p \in 1 .. off[n]
    BY <1>7
  <2>2. PICK k \in 1 .. n : \E j \in 1 .. Len(seqs[k]) : p = off[k - 1] + j
    BY <1>5, <2>1 DEF LaidOut
  <2>3. Len(seqs[k]) = w /\ off[k - 1] = (k - 1) * w
    BY <1>7
  <2> QED
    BY <2>2, <2>3
<1>10. Len(flat) = n * w
  BY <1>5, <1>7 DEF LaidOut
<1> QED
  BY <1>5, <1>8, <1>9, <1>10 DEF flat

-----------------------------------------------------------------------------
(* Sums.                                                                   *)
LEMMA TotalIs ==
  ASSUME NEW n \in Nat, NEW s, Len(s) = n, NEW off, off[0] = 0,
         \A k \in 1 .. n : off[k] = off[k - 1] + s[k]
  PROVE  Layout!Total(s) = off[n]
<1> DEFINE Body(g) == [k \in 0 .. n |-> IF k = 0 THEN 0 ELSE g[k - 1] + s[k]]
           sum == CHOOSE g : g = Body(g)
           f == [k \in 0 .. n |-> off[k]]
<1>1. Layout!Total(s) = sum[n]
  BY DEF Layout!Total
<1>2. f = Body(f)
  <2>1. ASSUME NEW k \in 0 .. n PROVE f[k] = IF k = 0 THEN 0 ELSE f[k - 1] + s[k]
    <3>1. CASE k = 0
      BY <3>1
    <3>2. CASE k # 0
      <4>1. k \in 1 .. n /\ k - 1 \in 0 .. n
        BY <3>2
      <4>2. f[k - 1] = off[k - 1] /\ f[k] = off[k]
        BY <4>1
      <4> HIDE DEF f
      <4> QED
        BY <3>2, <4>1, <4>2
    <3> QED
      BY <3>1, <3>2
  <2>2. f = [k \in 0 .. n |-> f[k]]
    OBVIOUS
  <2> HIDE DEF f
  <2> QED
    BY <2>1, <2>2
<1>3. sum = Body(sum)
  <2> HIDE DEF Body, f
  <2> QED
    BY <1>2
<1> HIDE DEF sum
<1>4. \A k \in 0 .. n : sum[k] = IF k = 0 THEN 0 ELSE sum[k - 1] + s[k]
  BY <1>3
<1> DEFINE T == {k \in Nat : k <= n => sum[k] = off[k]}
<1>5. 0 \in T
  <2>1. 0 \in 0 .. n
    OBVIOUS
  <2> QED
    BY <1>4, <2>1
<1>6. ASSUME NEW k \in Nat, k \in T PROVE k + 1 \in T
  <2> SUFFICES ASSUME k + 1 <= n PROVE sum[k + 1] = off[k + 1]
    OBVIOUS
  <2>1. sum[k] = off[k]
    BY <1>6
  <2> DEFINE l == k + 1
  <2>2. l \in 0 .. n /\ l \in 1 .. n /\ l # 0 /\ l - 1 = k
    OBVIOUS
  <2> HIDE DEF l, T
  <2>3. sum[l] = sum[k] + s[l] /\ off[l] = off[k] + s[l]
    BY <1>4, <2>2
  <2> QED
    BY <2>1, <2>3 DEF l
<1>7. n \in T
  <2> HIDE DEF T
  <2> QED
    BY <1>5, <1>6, ZeroAndNext
<1> QED
  BY <1>1, <1>7

(* The sum of all elements.                                                *)
LEMMA WholeSum ==
  ASSUME NEW S, NEW s \in Seq(S), NEW off, off[0] = 0,
         \A k \in 1 .. Len(s) : off[k] = off[k - 1] + s[k]
  PROVE  Layout!Total(s) = off[Len(s)]
<1> DEFINE n == Len(s)
<1>1. n \in Nat
  BY LenProperties
<1>2. Len(s) = n
  OBVIOUS
<1>3. \A k \in 1 .. n : off[k] = off[k - 1] + s[k]
  OBVIOUS
<1> HIDE DEF n
<1> QED
  BY <1>1, <1>2, <1>3, TotalIs

(* The sum of the first k elements.                                        *)
LEMMA PartSums ==
  ASSUME NEW S, NEW s \in Seq(S), NEW off, off[0] = 0,
         \A k \in 1 .. Len(s) : off[k] = off[k - 1] + s[k],
         NEW k \in 0 .. Len(s)
  PROVE  Layout!Total(SubSeq(s, 1, k)) = off[k]
<1> DEFINE t == SubSeq(s, 1, k)
<1>1. Len(s) \in Nat /\ k \in Nat /\ \A i \in 1 .. k : s[i] \in S
  BY LenProperties
<1>2. Len(t) = k /\ \A i \in 1 .. k : t[i] = s[i]
  <2>1. /\ Len(t) = IF 1 <= k THEN k - 1 + 1 ELSE 0
        /\ \A i \in 1 .. k - 1 + 1 : t[i] = s[1 + i - 1]
    BY <1>1, SubSeqProperties
  <2>2. k - 1 + 1 = k /\ \A i \in 1 .. k : 1 + i - 1 = i
    BY <1>1
  <2> HIDE DEF t
  <2> QED
    BY <1>1, <2>1, <2>2
<1> HIDE DEF t
<1>3. \A i \in 1 .. k : off[i] = off[i - 1] + t[i]
  BY <1>1, <1>2
<1>4. Layout!Total(t) = off[k]
  BY <1>1, <1>2, <1>3, TotalIs
<1> QED
  BY <1>4 DEF t

-----------------------------------------------------------------------------
(* Quotient and remainder.                                                 *)
LEMMA Division ==
  ASSUME NEW a \in Nat, NEW b \in Nat \ {0}
  PROVE  a \div b \in Nat /\ a % b \in 0 .. b - 1 /\ a = b * (a \div b) + (a % b)
OBVIOUS

(* Head groups: the first head of a group comes after those of the groups  *)
(* before it.                                                              *)
LEMMA HeadsAre ==
  ASSUME NEW s, s.heads \in Nat, NEW parts \in Nat \ {0}
  PROVE  /\ Layout!FirstHead(s, parts, 0) = 0
         /\ Layout!FirstHead(s, parts, parts) = s.heads
         /\ \A t \in Nat :
              /\ Layout!LocalHeads(s, parts, t) \in Nat /\ Layout!FirstHead(s, parts, t) \in Nat
              /\ Layout!FirstHead(s, parts, t + 1)
                   = Layout!FirstHead(s, parts, t) + Layout!LocalHeads(s, parts, t)
<1> DEFINE base == s.heads \div parts
           extra == s.heads % parts
<1>1. base \in Nat /\ extra \in 0 .. parts - 1 /\ s.heads = parts * base + extra
  BY Division
<1> HIDE DEF base, extra
<1>2. /\ \A t : Layout!FirstHead(s, parts, t) = t * base + Layout!Least(t, extra)
      /\ \A t : Layout!LocalHeads(s, parts, t) = base + Layout!Flag(t < extra)
  BY DEF Layout!FirstHead, Layout!LocalHeads, base, extra
<1>3. ASSUME NEW t \in Nat
      PROVE  /\ t * base \in Nat /\ (t + 1) * base = t * base + base
             /\ Layout!Least(t, extra) \in Nat /\ Layout!Flag(t < extra) \in Nat
             /\ Layout!Least(t + 1, extra) = Layout!Least(t, extra) + Layout!Flag(t < extra)
  <2>1. t * base \in Nat /\ (t + 1) * base = t * base + base
    BY <1>1, Times
  <2> QED
    BY <1>1, <2>1 DEF Layout!Least, Layout!Flag
<1>4. 0 * base = 0 /\ Layout!Least(0, extra) = 0 /\ Layout!Least(parts, extra) = extra
  BY <1>1 DEF Layout!Least
<1>5. /\ Layout!FirstHead(s, parts, 0) = 0
      /\ Layout!FirstHead(s, parts, parts) = s.heads
  BY <1>1, <1>2, <1>4
<1>6. ASSUME NEW t \in Nat
      PROVE  /\ Layout!LocalHeads(s, parts, t) \in Nat /\ Layout!FirstHead(s, parts, t) \in Nat
             /\ Layout!FirstHead(s, parts, t + 1)
                  = Layout!FirstHead(s, parts, t) + Layout!LocalHeads(s, parts, t)
  <2>1. /\ Layout!FirstHead(s, parts, t) = t * base + Layout!Least(t, extra)
        /\ Layout!FirstHead(s, parts, t + 1) = (t + 1) * base + Layout!Least(t + 1, extra)
        /\ Layout!LocalHeads(s, parts, t) = base + Layout!Flag(t < extra)
    BY <1>2
  <2> DEFINE x == t * base
             y == (t + 1) * base
  <2>2. x \in Nat /\ y = x + base
    BY <1>3
  <2>3. /\ Layout!FirstHead(s, parts, t) = x + Layout!Least(t, extra)
        /\ Layout!FirstHead(s, parts, t + 1) = y + Layout!Least(t + 1, extra)
    BY <2>1
  <2>4. /\ Layout!Least(t, extra) \in Nat /\ Layout!Flag(t < extra) \in Nat /\ base \in Nat
        /\ Layout!Least(t + 1, extra) = Layout!Least(t, extra) + Layout!Flag(t < extra)
        /\ Layout!LocalHeads(s, parts, t) = base + Layout!Flag(t < extra)
    BY <1>1, <1>3, <2>1
  <2> HIDE DEF x, y
  <2> QED
    BY <2>2, <2>3, <2>4
<1> QED
  BY <1>5, <1>6

(* The sizes of the groups before one add up to its first head.            *)
LEMMA HeadsBeforeAre ==
  ASSUME NEW s, s.heads \in Nat, NEW parts \in Nat \ {0}, NEW t \in 1 .. parts + 1
  PROVE  Layout!HeadsBefore(s, parts, t) = Layout!FirstHead(s, parts, t - 1)
<1> DEFINE sizes == Layout!GroupSizes(s, parts)
           off == [k \in 0 .. parts |-> Layout!FirstHead(s, parts, k)]
<1>1. sizes \in Seq(Nat) /\ Len(sizes) = parts
      /\ \A k \in 1 .. parts : sizes[k] = Layout!LocalHeads(s, parts, k - 1)
  <2>1. \A k \in 1 .. parts : k - 1 \in Nat
    OBVIOUS
  <2>2. \A k \in 1 .. parts : Layout!LocalHeads(s, parts, k - 1) \in Nat
    BY <2>1, HeadsAre
  <2> QED
    BY <2>2 DEF Layout!GroupSizes
<1>2. off[0] = 0
  <2>1. 0 \in 0 .. parts
    OBVIOUS
  <2> QED
    BY <2>1, HeadsAre
<1>3. ASSUME NEW k \in 1 .. parts PROVE off[k] = off[k - 1] + sizes[k]
  <2>1. k - 1 \in Nat /\ k - 1 \in 0 .. parts /\ k \in 0 .. parts /\ k - 1 + 1 = k
    OBVIOUS
  <2>2. Layout!FirstHead(s, parts, k - 1 + 1)
          = Layout!FirstHead(s, parts, k - 1) + Layout!LocalHeads(s, parts, k - 1)
    BY <2>1, HeadsAre
  <2> HIDE DEF sizes
  <2> QED
    BY <1>1, <2>1, <2>2
<1>4. t - 1 \in 0 .. parts
  OBVIOUS
<1> HIDE DEF sizes, off
<1>5. Layout!Total(SubSeq(sizes, 1, t - 1)) = off[t - 1]
  BY <1>1, <1>2, <1>3, <1>4, PartSums
<1> QED
  BY <1>4, <1>5 DEF Layout!HeadsBefore, sizes, off

-----------------------------------------------------------------------------
(* Packing.  What is at a place of a head, and of a row for a target.      *)
Cells == {"q", "k", "v", "gate", "shared"} \X Nat

Packs(s) == {s.rows, s.heads, s.dim, s.shared} \subseteq Nat /\ s.parts \in Nat \ {0}

FieldOf(s, head, f) ==
  IF f < s.dim THEN <<"q", head * s.dim + f>>
  ELSE IF f < 2 * s.dim THEN <<"k", head * s.dim + f - s.dim>>
  ELSE IF f < 3 * s.dim THEN <<"v", head * s.dim + f - 2 * s.dim>>
  ELSE <<"gate", head>>

First(s, t) == Layout!FirstHead(s, s.parts, t)
Payload(s, t) == Layout!LocalHeads(s, s.parts, t) * Layout!Unit(s)
Width(s, t) == Payload(s, t) + s.shared

CellOf(s, t, row, col) ==
  IF col >= Payload(s, t) THEN <<"shared", row * s.shared + col - Payload(s, t)>>
  ELSE FieldOf(s, row * s.heads + First(s, t) + col \div Layout!Unit(s), col % Layout!Unit(s))

(* The fields of a head, or of a row, under one name.                      *)
LEMMA FieldsAre ==
  ASSUME NEW name \in {"q", "k", "v", "gate", "shared"}, NEW from \in Nat, NEW n \in Nat
  PROVE  LET seq == Layout!Fields(name, from, n) IN
         /\ seq \in Seq(Cells) /\ Len(seq) = n
         /\ \A k \in 1 .. n : seq[k] = <<name, from + k - 1>>
<1>1. \A k \in 1 .. n : from + k - 1 \in Nat /\ <<name, from + k - 1>> \in Cells
  BY DEF Cells
<1> QED
  BY <1>1 DEF Layout!Fields

OneHead(s, head) ==
  Layout!Fields("q", head * s.dim, s.dim) \o Layout!Fields("k", head * s.dim, s.dim)
  \o Layout!Fields("v", head * s.dim, s.dim) \o Layout!Fields("gate", head, 1)

(* A head has its query, key, value and gate, one after the other.         *)
LEMMA HeadIs ==
  ASSUME NEW s, Packs(s), NEW head \in Nat
  PROVE  /\ OneHead(s, head) \in Seq(Cells) /\ Len(OneHead(s, head)) = Layout!Unit(s)
         /\ \A f \in 0 .. Layout!Unit(s) - 1 : OneHead(s, head)[f + 1] = FieldOf(s, head, f)
<1> DEFINE from == head * s.dim
           d == s.dim
           q == Layout!Fields("q", from, d)
           k == Layout!Fields("k", from, d)
           v == Layout!Fields("v", from, d)
           g == Layout!Fields("gate", head, 1)
           qk == q \o k
           qkv == qk \o v
           all == qkv \o g
<1>1. d \in Nat /\ from \in Nat
  BY Times DEF Packs
<1>2. OneHead(s, head) = all /\ Layout!Unit(s) = 3 * d + 1
  BY DEF OneHead, Layout!Unit
<1>3. ASSUME NEW f \in 0 .. 3 * d
      PROVE  FieldOf(s, head, f) = IF f < d THEN <<"q", from + f>>
                                   ELSE IF f < 2 * d THEN <<"k", from + f - d>>
                                   ELSE IF f < 3 * d THEN <<"v", from + f - 2 * d>>
                                   ELSE <<"gate", head>>
  BY DEF FieldOf
<1> HIDE DEF from, d
<1>4. /\ q \in Seq(Cells) /\ Len(q) = d /\ \A i \in 1 .. d : q[i] = <<"q", from + i - 1>>
      /\ k \in Seq(Cells) /\ Len(k) = d /\ \A i \in 1 .. d : k[i] = <<"k", from + i - 1>>
      /\ v \in Seq(Cells) /\ Len(v) = d /\ \A i \in 1 .. d : v[i] = <<"v", from + i - 1>>
  BY <1>1, FieldsAre
<1>5. g \in Seq(Cells) /\ Len(g) = 1 /\ g[1] = <<"gate", head>>
  <2>1. g \in Seq(Cells) /\ Len(g) = 1 /\ \A i \in 1 .. 1 : g[i] = <<"gate", head + i - 1>>
    <3>1. 1 \in Nat /\ "gate" \in {"q", "k", "v", "gate", "shared"}
      OBVIOUS
    <3> QED
      BY <3>1, FieldsAre
  <2>2. 1 \in 1 .. 1 /\ head + 1 - 1 = head
    OBVIOUS
  <2> HIDE DEF g
  <2> QED
    BY <2>1, <2>2
<1> HIDE DEF q, k, v, g
<1>6. /\ qk \in Seq(Cells) /\ Len(qk) = d + d
      /\ \A i \in 1 .. d + d : qk[i] = IF i <= d THEN q[i] ELSE k[i - d]
  <2>1. q \in Seq(Cells) /\ k \in Seq(Cells) /\ qk = q \o k
    BY <1>4, <1>5
  <2> HIDE DEF qk
  <2>2. /\ qk \in Seq(Cells) /\ Len(qk) = Len(q) + Len(k)
        /\ \A i \in 1 .. Len(q) + Len(k) : qk[i] = IF i <= Len(q) THEN q[i] ELSE k[i - Len(q)]
    BY <2>1, ConcatProperties
  <2> QED
    BY <1>1, <1>4, <1>5, <2>2
<1> HIDE DEF qk
<1>7. /\ qkv \in Seq(Cells) /\ Len(qkv) = d + d + d
      /\ \A i \in 1 .. d + d + d : qkv[i] = IF i <= d + d THEN qk[i] ELSE v[i - (d + d)]
  <2>1. qk \in Seq(Cells) /\ v \in Seq(Cells) /\ qkv = qk \o v
    BY <1>4, <1>5, <1>6
  <2> HIDE DEF qkv
  <2>2. /\ qkv \in Seq(Cells) /\ Len(qkv) = Len(qk) + Len(v)
        /\ \A i \in 1 .. Len(qk) + Len(v) : qkv[i] = IF i <= Len(qk) THEN qk[i] ELSE v[i - Len(qk)]
    BY <2>1, ConcatProperties
  <2> QED
    BY <1>1, <1>4, <1>5, <2>2, <1>6
<1> HIDE DEF qkv
<1>8. /\ all \in Seq(Cells) /\ Len(all) = d + d + d + 1
      /\ \A i \in 1 .. d + d + d + 1 : all[i] = IF i <= d + d + d THEN qkv[i] ELSE g[i - (d + d + d)]
  <2>1. qkv \in Seq(Cells) /\ g \in Seq(Cells) /\ all = qkv \o g
    BY <1>4, <1>5, <1>7
  <2> HIDE DEF all
  <2>2. /\ all \in Seq(Cells) /\ Len(all) = Len(qkv) + Len(g)
        /\ \A i \in 1 .. Len(qkv) + Len(g) : all[i] = IF i <= Len(qkv) THEN qkv[i] ELSE g[i - Len(qkv)]
    BY <2>1, ConcatProperties
  <2> QED
    BY <1>1, <1>4, <1>5, <2>2, <1>7
<1> HIDE DEF all
<1>9. ASSUME NEW f \in 0 .. 3 * d PROVE all[f + 1] = FieldOf(s, head, f)
  <2> DEFINE i == f + 1
  <2>1. i \in 1 .. d + d + d + 1 /\ i - 1 = f /\ f \in Nat
    BY <1>1
  <2> HIDE DEF i
  <2>2. CASE f < d
    <3>1. all[i] = q[i] /\ i \in 1 .. d
      BY <1>1, <1>6, <1>7, <1>8, <2>1, <2>2
    <3>2. q[i] = <<"q", from + f>>
      BY <1>1, <1>4, <2>1, <3>1
    <3> QED
      BY <1>3, <2>2, <3>1, <3>2 DEF i
  <2>3. CASE ~(f < d) /\ f < 2 * d
    <3> DEFINE j == i - d
    <3>1. all[i] = k[j] /\ j \in 1 .. d /\ from + j - 1 = from + f - d
      BY <1>1, <1>6, <1>7, <1>8, <2>1, <2>3
    <3> HIDE DEF j
    <3>2. k[j] = <<"k", from + f - d>>
      BY <1>1, <1>4, <2>1, <3>1
    <3> QED
      BY <1>3, <2>3, <3>1, <3>2 DEF i
  <2>4. CASE ~(f < 2 * d) /\ f < 3 * d
    <3> DEFINE j == i - (d + d)
    <3>1. all[i] = v[j] /\ j \in 1 .. d /\ from + j - 1 = from + f - 2 * d /\ ~(f < d)
      BY <1>1, <1>6, <1>7, <1>8, <2>1, <2>4
    <3> HIDE DEF j
    <3>2. v[j] = <<"v", from + f - 2 * d>>
      BY <1>1, <1>4, <2>1, <3>1
    <3> QED
      BY <1>3, <2>4, <3>1, <3>2 DEF i
  <2>5. CASE ~(f < 3 * d)
    <3>1. i - (d + d + d) = 1 /\ ~(i <= d + d + d) /\ ~(f < d) /\ ~(f < 2 * d)
      BY <1>1, <2>1, <2>5
    <3>2. all[i] = g[1]
      BY <1>8, <2>1, <3>1
    <3> QED
      BY <1>3, <1>5, <2>5, <3>1, <3>2 DEF i
  <2> QED
    BY <2>2, <2>3, <2>4, <2>5
<1>10. 3 * d + 1 = d + d + d + 1 /\ 3 * d + 1 - 1 = 3 * d
  BY <1>1
<1>11. Len(all) = 3 * d + 1 /\ all \in Seq(Cells)
  <2>1. Len(all) = d + d + d + 1 /\ all \in Seq(Cells)
    BY <1>8
  <2> HIDE DEF all
  <2> QED
    BY <1>10, <2>1
<1>12. Layout!Unit(s) - 1 = 3 * d
  BY <1>1, <1>2
<1> QED
  BY <1>2, <1>9, <1>11, <1>12

(* There is one quotient and one remainder.                                *)
LEMMA DivisionIs ==
  ASSUME NEW b \in Nat \ {0}, NEW q \in Nat, NEW r \in 0 .. b - 1
  PROVE  (b * q + r) \div b = q /\ (b * q + r) % b = r
<1> DEFINE a == b * q + r
           p == a \div b
           m == a % b
<1>1. b * q \in Nat
  BY Times
<1>2. a \in Nat
  BY <1>1
<1> HIDE DEF a
<1>3. p \in Nat /\ m \in 0 .. b - 1 /\ a = b * p + m
  BY <1>2, Division
<1> HIDE DEF p, m
<1>4. p = q
  <2>1. CASE p >= q + 1
    <3>1. b * (q + 1) <= b * p
      BY <1>3, <2>1, Grows
    <3>2. b * (q + 1) = b * q + b
      OBVIOUS
    <3> QED
      BY <1>1, <1>3, <3>1, <3>2 DEF a
  <2>2. CASE q >= p + 1
    <3>1. b * (p + 1) <= b * q
      BY <1>3, <2>2, Grows
    <3>2. b * (p + 1) = b * p + b /\ b * p \in Int
      BY <1>3
    <3> QED
      BY <1>1, <1>3, <3>1, <3>2 DEF a
  <2> QED
    BY <1>3, <2>1, <2>2
<1>5. m = r
  BY <1>1, <1>3, <1>4 DEF a
<1> QED
  BY <1>4, <1>5 DEF a, p, m

NativeRow(s, t, r) ==
  Layout!FlattenSeq([h \in 1 .. Layout!GroupSizes(s, s.parts)[t] |->
    OneHead(s, (r - 1) * s.heads + Layout!HeadsBefore(s, s.parts, t) + h - 1)])
  \o Layout!Fields("shared", (r - 1) * s.shared, s.shared)

(* Sizes of what a rank gets of a row.                                     *)
LEMMA WidthIs ==
  ASSUME NEW s, Packs(s), NEW t \in 0 .. s.parts
  PROVE  /\ Layout!Unit(s) \in Nat \ {0} /\ First(s, t) \in Nat
         /\ Layout!LocalHeads(s, s.parts, t) \in Nat
         /\ Payload(s, t) \in Nat /\ Width(s, t) \in Nat
<1>1. s.dim \in Nat /\ s.shared \in Nat /\ s.heads \in Nat /\ s.parts \in Nat \ {0} /\ t \in Nat
  BY DEF Packs
<1>2. Layout!Unit(s) \in Nat \ {0}
  BY <1>1 DEF Layout!Unit
<1>3. Layout!LocalHeads(s, s.parts, t) \in Nat /\ First(s, t) \in Nat
  BY <1>1, HeadsAre DEF First
<1>4. Payload(s, t) \in Nat
  BY <1>2, <1>3, Times DEF Payload
<1> QED
  BY <1>1, <1>2, <1>3, <1>4 DEF Width

(* A row for a target: its heads, and then what all targets get.           *)
LEMMA RowIs ==
  ASSUME NEW s, Packs(s), NEW t \in 1 .. s.parts, NEW r \in 1 .. s.rows
  PROVE  /\ NativeRow(s, t, r) \in Seq(Cells) /\ Len(NativeRow(s, t, r)) = Width(s, t - 1)
         /\ \A col \in 0 .. Width(s, t - 1) - 1 :
              NativeRow(s, t, r)[col + 1] = CellOf(s, t - 1, r - 1, col)
<1> DEFINE L == Layout!LocalHeads(s, s.parts, t - 1)
           U == Layout!Unit(s)
           P == Payload(s, t - 1)
           W == Width(s, t - 1)
           at == (r - 1) * s.heads + First(s, t - 1)
           from == (r - 1) * s.shared
           heads == [h \in 1 .. L |-> OneHead(s, at + h - 1)]
           all == Layout!FlattenSeq(heads)
           rest == Layout!Fields("shared", from, s.shared)
<1>1. /\ s.parts \in Nat \ {0} /\ s.heads \in Nat /\ s.shared \in Nat /\ s.rows \in Nat
      /\ t - 1 \in 0 .. s.parts /\ t - 1 \in Nat /\ r - 1 \in Nat /\ t \in 1 .. s.parts + 1
  BY DEF Packs
<1>2. /\ L \in Nat /\ U \in Nat \ {0} /\ P \in Nat /\ W = P + s.shared /\ P = L * U
      /\ First(s, t - 1) \in Nat
  BY <1>1, WidthIs DEF Width, Payload
<1>3. at \in Nat /\ from \in Nat
  <2>1. (r - 1) * s.heads \in Nat /\ from \in Nat
    BY <1>1, Times
  <2> QED
    BY <1>2, <2>1
<1>4. NativeRow(s, t, r) = all \o rest
  <2>1. Layout!HeadsBefore(s, s.parts, t) = First(s, t - 1)
    BY <1>1, HeadsBeforeAre DEF First
  <2>2. Layout!GroupSizes(s, s.parts)[t] = L
    BY DEF Layout!GroupSizes
  <2> QED
    BY <2>1, <2>2 DEF NativeRow
<1> HIDE DEF L, U, P, W, at, from
<1>5. /\ heads \in [1 .. L -> Seq(Cells)]
      /\ \A h \in 1 .. L : heads[h] = OneHead(s, at + h - 1) /\ Len(heads[h]) = U
  <2>1. ASSUME NEW h \in 1 .. L
        PROVE  OneHead(s, at + h - 1) \in Seq(Cells) /\ Len(OneHead(s, at + h - 1)) = U
    <3>1. at + h - 1 \in Nat
      BY <1>2, <1>3
    <3> QED
      BY <3>1, HeadIs DEF U
  <2> QED
    BY <2>1
<1> HIDE DEF heads
<1>6. /\ all \in Seq(Cells) /\ Len(all) = P
      /\ \A h \in 1 .. L : \A j \in 1 .. U : all[(h - 1) * U + j] = heads[h][j]
      /\ \A p \in 1 .. P : \E h \in 1 .. L : \E j \in 1 .. U : p = (h - 1) * U + j
  <2>1. U \in Nat /\ L \in Nat /\ P = L * U /\ \A h \in 1 .. L : Len(heads[h]) = U
    BY <1>2, <1>5
  <2>2. /\ all \in Seq(Cells) /\ Len(all) = L * U
        /\ \A h \in 1 .. L : \A j \in 1 .. U :
             (h - 1) * U + j \in 1 .. L * U /\ all[(h - 1) * U + j] = heads[h][j]
        /\ \A p \in 1 .. L * U : \E h \in 1 .. L : \E j \in 1 .. U : p = (h - 1) * U + j
    BY <1>5, <2>1, EvenPlaces, ZenonT(60)
  <2> HIDE DEF all
  <2> QED
    BY <2>1, <2>2
<1> HIDE DEF all
<1>7. /\ rest \in Seq(Cells) /\ Len(rest) = s.shared
      /\ \A k \in 1 .. s.shared : rest[k] = <<"shared", from + k - 1>>
  BY <1>1, <1>3, FieldsAre
<1> HIDE DEF rest
<1>8. /\ NativeRow(s, t, r) \in Seq(Cells) /\ Len(NativeRow(s, t, r)) = W
      /\ \A p \in 1 .. W : NativeRow(s, t, r)[p] = IF p <= P THEN all[p] ELSE rest[p - P]
  <2>1. /\ all \o rest \in Seq(Cells) /\ Len(all \o rest) = Len(all) + Len(rest)
        /\ \A p \in 1 .. Len(all) + Len(rest) :
             (all \o rest)[p] = IF p <= Len(all) THEN all[p] ELSE rest[p - Len(all)]
    BY <1>6, <1>7, ConcatProperties
  <2>2. Len(all) + Len(rest) = W /\ Len(all) = P
    BY <1>2, <1>6, <1>7
  <2> QED
    BY <1>4, <2>1, <2>2
<1>9. ASSUME NEW col \in 0 .. W - 1
      PROVE  NativeRow(s, t, r)[col + 1] = CellOf(s, t - 1, r - 1, col)
  <2>1. col \in Nat /\ col + 1 \in 1 .. W
    BY <1>1, <1>2
  <2>2. CASE col >= P
    <3> DEFINE k == col + 1 - P
    <3>1. ~(col + 1 <= P) /\ k \in 1 .. s.shared /\ from + k - 1 = from + col - P
      BY <1>1, <1>2, <1>3, <2>1, <2>2
    <3> DEFINE p == col + 1
    <3>4. p \in 1 .. W /\ ~(p <= P) /\ p - P = k
      BY <1>1, <1>2, <2>1, <2>2
    <3> HIDE DEF k, p
    <3>5. NativeRow(s, t, r)[p] = rest[k]
      BY <1>8, <3>4
    <3>2. NativeRow(s, t, r)[col + 1] = rest[k]
      BY <3>5 DEF p
    <3>3. rest[k] = <<"shared", from + col - P>>
      BY <1>7, <3>1
    <3> QED
      BY <2>2, <3>2, <3>3 DEF CellOf, P, from
  <2>3. CASE ~(col >= P)
    <3>1. col + 1 \in 1 .. P /\ col + 1 <= P
      BY <1>2, <2>1, <2>3
    <3>2. PICK h \in 1 .. L, j \in 1 .. U : col + 1 = (h - 1) * U + j
      BY <1>6, <3>1
    <3>3. NativeRow(s, t, r)[col + 1] = heads[h][j]
      BY <1>6, <1>8, <2>1, <3>1, <3>2
    <3>4. h - 1 \in Nat /\ j - 1 \in 0 .. U - 1 /\ (h - 1) * U = U * (h - 1)
      BY <1>2
    <3>5. col = U * (h - 1) + (j - 1)
      <4> DEFINE m == (h - 1) * U
      <4>1. m \in Nat
        BY <1>2, <3>4, Times
      <4>2. col + 1 = m + j /\ U * (h - 1) = m
        BY <3>2, <3>4
      <4> HIDE DEF m
      <4>3. col = m + (j - 1)
        BY <1>2, <2>1, <4>1, <4>2
      <4> QED
        BY <4>2, <4>3
    <3>6. col \div U = h - 1 /\ col % U = j - 1
      BY <1>2, <3>4, <3>5, DivisionIs
    <3>7. heads[h][j] = FieldOf(s, at + h - 1, j - 1)
      <4>1. heads[h] = OneHead(s, at + h - 1) /\ at + h - 1 \in Nat
        BY <1>2, <1>3, <1>5
      <4>2. OneHead(s, at + h - 1)[j - 1 + 1] = FieldOf(s, at + h - 1, j - 1)
        BY <3>4, <4>1, HeadIs DEF U
      <4>3. j - 1 + 1 = j
        BY <1>2
      <4> QED
        BY <4>1, <4>2, <4>3
    <3>8. CellOf(s, t - 1, r - 1, col) = FieldOf(s, at + (h - 1), j - 1)
      BY <2>3, <3>6 DEF CellOf, P, U, at
    <3>9. at + (h - 1) = at + h - 1
      BY <1>2, <1>3
    <3> QED
      BY <3>3, <3>7, <3>8, <3>9
  <2> QED
    BY <2>2, <2>3
<1> QED
  BY <1>8, <1>9 DEF W

Group(s, t) == Layout!FlattenSeq([r \in 1 .. s.rows |-> NativeRow(s, t, r)])

(* The rows for a target, one after the other.                             *)
LEMMA GroupIs ==
  ASSUME NEW s, Packs(s), NEW t \in 1 .. s.parts
  PROVE  LET W == Width(s, t - 1) IN
         /\ Group(s, t) \in Seq(Cells) /\ Len(Group(s, t)) = s.rows * W
         /\ \A r \in 1 .. s.rows : \A col \in 0 .. W - 1 :
              /\ (r - 1) * W + col + 1 \in 1 .. s.rows * W
              /\ Group(s, t)[(r - 1) * W + col + 1] = CellOf(s, t - 1, r - 1, col)
         /\ \A p \in 1 .. s.rows * W : \E r \in 1 .. s.rows : \E col \in 0 .. W - 1 :
              p = (r - 1) * W + col + 1
<1> DEFINE W == Width(s, t - 1)
           lines == [r \in 1 .. s.rows |-> NativeRow(s, t, r)]
           flat == Layout!FlattenSeq(lines)
<1>1. s.rows \in Nat /\ W \in Nat
  <2>1. t - 1 \in 0 .. s.parts
    BY DEF Packs
  <2> QED
    BY <2>1, WidthIs DEF Packs
<1>2. /\ lines \in [1 .. s.rows -> Seq(Cells)]
      /\ \A r \in 1 .. s.rows : Len(lines[r]) = W /\ lines[r] = NativeRow(s, t, r)
  BY RowIs
<1>3. \A r \in 1 .. s.rows : \A col \in 0 .. W - 1 :
        NativeRow(s, t, r)[col + 1] = CellOf(s, t - 1, r - 1, col)
  BY RowIs
<1> HIDE DEF W, lines
<1>4. /\ flat \in Seq(Cells) /\ Len(flat) = s.rows * W
      /\ \A r \in 1 .. s.rows : \A j \in 1 .. W :
           (r - 1) * W + j \in 1 .. s.rows * W /\ flat[(r - 1) * W + j] = lines[r][j]
      /\ \A p \in 1 .. s.rows * W : \E r \in 1 .. s.rows : \E j \in 1 .. W : p = (r - 1) * W + j
  <2>1. \A r \in 1 .. s.rows : Len(lines[r]) = W
    BY <1>2
  <2>2. lines \in [1 .. s.rows -> Seq(Cells)]
    BY <1>2
  <2> QED
    BY <1>1, <2>1, <2>2, EvenPlaces, ZenonT(60)
<1>5. Group(s, t) = flat
  BY DEF Group, lines
<1> HIDE DEF flat
<1>6. ASSUME NEW r \in 1 .. s.rows
      PROVE  (r - 1) * W \in Nat
  BY <1>1, Times
<1>7. ASSUME NEW r \in 1 .. s.rows, NEW col \in 0 .. W - 1
      PROVE  /\ (r - 1) * W + col + 1 \in 1 .. s.rows * W
             /\ flat[(r - 1) * W + col + 1] = CellOf(s, t - 1, r - 1, col)
  <2> DEFINE j == col + 1
             m == (r - 1) * W
  <2>1. j \in 1 .. W /\ m \in Nat
    BY <1>1, <1>6
  <2>2. m + j \in 1 .. s.rows * W /\ flat[m + j] = lines[r][j]
    BY <1>4, <2>1
  <2>3. lines[r][j] = CellOf(s, t - 1, r - 1, col)
    BY <1>2, <1>3
  <2>4. m + j = m + col + 1
    <3> HIDE DEF m
    <3> QED
      BY <1>1, <2>1
  <2> HIDE DEF m, j
  <2>5. m + col + 1 \in 1 .. s.rows * W /\ flat[m + col + 1] = CellOf(s, t - 1, r - 1, col)
    BY <2>2, <2>3, <2>4
  <2> QED
    BY <2>5 DEF m
<1>8. ASSUME NEW p \in 1 .. s.rows * W
      PROVE  \E r \in 1 .. s.rows : \E col \in 0 .. W - 1 : p = (r - 1) * W + col + 1
  <2>1. PICK r \in 1 .. s.rows, j \in 1 .. W : p = (r - 1) * W + j
    BY <1>4
  <2>2. j - 1 \in 0 .. W - 1 /\ (r - 1) * W + j = (r - 1) * W + (j - 1) + 1
    BY <1>1, <1>6
  <2> QED
    BY <2>1, <2>2
<1> QED
  BY <1>4, <1>5, <1>7, <1>8 DEF W

AddressOf(s, t, row, col) ==
  s.rows * (First(s, t) * Layout!Unit(s) + t * s.shared) + row * Width(s, t) + col

(* What the native packer puts at each address, and no other place.        *)
LEMMA PackIs ==
  ASSUME NEW s, Packs(s)
  PROVE  LET pack == Layout!NativePack(s) IN
         /\ pack \in Seq(Cells)
         /\ \A t \in 0 .. s.parts - 1 : \A row \in 0 .. s.rows - 1 : \A col \in 0 .. Width(s, t) - 1 :
              /\ AddressOf(s, t, row, col) + 1 \in DOMAIN pack
              /\ pack[AddressOf(s, t, row, col) + 1] = CellOf(s, t, row, col)
         /\ \A k \in DOMAIN pack :
              \E t \in 0 .. s.parts - 1 : \E row \in 0 .. s.rows - 1 : \E col \in 0 .. Width(s, t) - 1 :
                k = AddressOf(s, t, row, col) + 1
<1> DEFINE n == s.parts
           U == Layout!Unit(s)
           a(t) == First(s, t) * U + t * s.shared
           off == [t \in 0 .. n |-> s.rows * a(t)]
           groups == [t \in 1 .. n |-> Group(s, t)]
           pack == Layout!FlattenSeq(groups)
<1>1. n \in Nat \ {0} /\ s.rows \in Nat /\ s.shared \in Nat /\ s.heads \in Nat /\ U \in Nat
  <2>1. 0 \in 0 .. s.parts
    BY DEF Packs
  <2>2. U \in Nat
    BY <2>1, WidthIs
  <2> QED
    BY <2>2 DEF Packs
<1>2. \A t \in 0 .. n : /\ t \in Nat /\ First(s, t) \in Nat /\ Width(s, t) \in Nat
                        /\ Layout!LocalHeads(s, n, t) \in Nat
  BY <1>1, WidthIs
<1>3. \A t \in 0 .. n : a(t) \in Nat /\ s.rows * a(t) \in Nat
  <2>1. ASSUME NEW t \in 0 .. n PROVE a(t) \in Nat /\ s.rows * a(t) \in Nat
    <3>1. First(s, t) * U \in Nat /\ t * s.shared \in Nat
      BY <1>1, <1>2, Times
    <3>2. a(t) \in Nat
      BY <3>1
    <3> HIDE DEF a
    <3> QED
      BY <1>1, <3>2, Times
  <2> QED
    BY <2>1
<1>4. ASSUME NEW t \in 1 .. n
      PROVE  s.rows * a(t) = s.rows * a(t - 1) + s.rows * Width(s, t - 1)
  <2>1. t - 1 \in 0 .. n /\ t \in 0 .. n /\ t - 1 \in Nat /\ t - 1 + 1 = t
    BY <1>1
  <2> DEFINE f == First(s, t - 1)
             l == Layout!LocalHeads(s, n, t - 1)
             w == Width(s, t - 1)
  <2>2. First(s, t - 1 + 1) = f + l
    BY <1>1, <2>1, HeadsAre DEF First
  <2>3. First(s, t) = f + l /\ f \in Nat /\ l \in Nat /\ w \in Nat /\ w = l * U + s.shared
    BY <1>1, <1>2, <2>1, <2>2 DEF Width, Payload
  <2>4. a(t) = (f + l) * U + t * s.shared /\ a(t - 1) = f * U + (t - 1) * s.shared
    BY <2>3
  <2> HIDE DEF f, l, w, U, a
  <2>5. (f + l) * U = f * U + l * U /\ (t - 1 + 1) * s.shared = (t - 1) * s.shared + s.shared
    <3>1. (t - 1 + 1) * s.shared = (t - 1) * s.shared + s.shared
      BY <1>1, <2>1, Times
    <3>2. (f + l) * U = f * U + l * U
      BY <1>1, <2>3
    <3> QED
      BY <3>1, <3>2
  <2>6. a(t) = a(t - 1) + w
    <3>1. f * U \in Nat /\ l * U \in Nat /\ (t - 1) * s.shared \in Nat
      BY <1>1, <2>1, <2>3, Times
    <3>2. t * s.shared = (t - 1) * s.shared + s.shared
      BY <2>1, <2>5
    <3> DEFINE x == f * U
               y == l * U
               z == (t - 1) * s.shared
    <3>3. x \in Nat /\ y \in Nat /\ z \in Nat
      BY <3>1
    <3>4. a(t) = x + y + (z + s.shared) /\ a(t - 1) = x + z /\ w = y + s.shared
      BY <2>3, <2>4, <2>5, <3>2
    <3> HIDE DEF x, y, z
    <3> QED
      BY <1>1, <3>3, <3>4
  <2>7. a(t - 1) \in Nat
    BY <1>3, <2>1
  <2> DEFINE b == a(t - 1)
  <2>8. b \in Nat /\ a(t) = b + w
    BY <2>6, <2>7
  <2> HIDE DEF b
  <2>9. s.rows * (b + w) = s.rows * b + s.rows * w
    BY <1>1, <2>3, <2>8
  <2> QED
    BY <2>8, <2>9 DEF b, w
<1>5. /\ groups \in [1 .. n -> Seq(Cells)]
      /\ \A t \in 1 .. n : groups[t] = Group(s, t) /\ Len(groups[t]) = s.rows * Width(s, t - 1)
  BY GroupIs
<1>6. IsOffset(off, n, groups)
  <2>1. off \in [0 .. n -> Nat]
    BY <1>3
  <2>2. off[0] = 0
    <3>1. 0 \in 0 .. n /\ 0 * U = 0 /\ 0 * s.shared = 0 /\ s.rows * 0 = 0
      BY <1>1
    <3>2. First(s, 0) = 0
      BY <1>1, HeadsAre DEF First
    <3>3. a(0) = 0
      BY <3>1, <3>2
    <3> HIDE DEF a
    <3> QED
      BY <3>1, <3>3
  <2>3. ASSUME NEW t \in 1 .. n PROVE off[t] = off[t - 1] + Len(groups[t])
    <3>1. t \in 0 .. n /\ t - 1 \in 0 .. n
      BY <1>1
    <3> HIDE DEF a, groups
    <3> QED
      BY <1>4, <1>5, <3>1
  <2> QED
    BY <2>1, <2>2, <2>3 DEF IsOffset
<1> HIDE DEF groups, off
<1>7. pack \in Seq(Cells) /\ LaidOut(pack, n, groups, off)
  <2>1. n \in Nat
    BY <1>1
  <2> QED
    BY <1>5, <1>6, <2>1, FlatPlaces
<1>8. Layout!NativePack(s) = pack
  BY DEF Layout!NativePack, groups, Group, NativeRow, OneHead
<1> HIDE DEF pack
<1>9. DOMAIN pack = 1 .. off[n]
  BY <1>7, LenProperties DEF LaidOut
<1>10. \A t \in 0 .. n : off[t] = s.rows * a(t)
  BY DEF off
<1>11. \A t, row, col : AddressOf(s, t, row, col) = s.rows * a(t) + row * Width(s, t) + col
  BY DEF AddressOf
<1> HIDE DEF a
<1>12. ASSUME NEW t \in 0 .. n - 1, NEW row \in 0 .. s.rows - 1, NEW col \in 0 .. Width(s, t) - 1
       PROVE  /\ AddressOf(s, t, row, col) + 1 \in DOMAIN pack
              /\ pack[AddressOf(s, t, row, col) + 1] = CellOf(s, t, row, col)
  <2> DEFINE t1 == t + 1
             r1 == row + 1
             W == Width(s, t)
             m == row * W
  <2>1. t1 \in 1 .. n /\ t1 - 1 = t /\ r1 \in 1 .. s.rows /\ r1 - 1 = row /\ t \in 0 .. n
    BY <1>1
  <2>2. W \in Nat /\ m \in Nat /\ col \in Nat
    BY <1>1, <1>2, <2>1, Times
  <2> HIDE DEF t1, r1
  <2>3. /\ (r1 - 1) * W + col + 1 \in 1 .. s.rows * W
        /\ Group(s, t1)[(r1 - 1) * W + col + 1] = CellOf(s, t1 - 1, r1 - 1, col)
        /\ groups[t1] = Group(s, t1) /\ Len(groups[t1]) = s.rows * W
    <3>1. Width(s, t1 - 1) = W /\ col \in 0 .. Width(s, t1 - 1) - 1
      BY <2>1
    <3>2. /\ (r1 - 1) * Width(s, t1 - 1) + col + 1 \in 1 .. s.rows * Width(s, t1 - 1)
          /\ Group(s, t1)[(r1 - 1) * Width(s, t1 - 1) + col + 1] = CellOf(s, t1 - 1, r1 - 1, col)
      <4>1. \A r \in 1 .. s.rows : \A c \in 0 .. Width(s, t1 - 1) - 1 :
              /\ (r - 1) * Width(s, t1 - 1) + c + 1 \in 1 .. s.rows * Width(s, t1 - 1)
              /\ Group(s, t1)[(r - 1) * Width(s, t1 - 1) + c + 1] = CellOf(s, t1 - 1, r - 1, c)
        BY <2>1, GroupIs
      <4> QED
        BY <2>1, <3>1, <4>1
    <3> QED
      BY <1>5, <2>1, <3>1, <3>2
  <2> DEFINE j == m + col + 1
  <2>4. j \in 1 .. Len(groups[t1]) /\ groups[t1][j] = CellOf(s, t, row, col)
    BY <2>1, <2>3
  <2>5. off[t1 - 1] + j \in 1 .. off[n] /\ pack[off[t1 - 1] + j] = groups[t1][j]
    BY <1>7, <2>1, <2>4 DEF LaidOut
  <2>6. off[t1 - 1] + j = AddressOf(s, t, row, col) + 1
    <3> DEFINE x == off[t]
    <3>1. x \in Nat /\ AddressOf(s, t, row, col) = x + m + col
      BY <1>3, <1>10, <1>11, <2>1
    <3>2. off[t1 - 1] + j = x + (m + col + 1)
      BY <2>1
    <3> HIDE DEF x, m
    <3>3. x + (m + col + 1) = x + m + col + 1
      BY <2>2, <3>1
    <3> QED
      BY <3>1, <3>2, <3>3
  <2> QED
    BY <1>9, <2>4, <2>5, <2>6
<1>13. ASSUME NEW k \in DOMAIN pack
       PROVE  \E t \in 0 .. n - 1 : \E row \in 0 .. s.rows - 1 : \E col \in 0 .. Width(s, t) - 1 :
                k = AddressOf(s, t, row, col) + 1
  <2>1. PICK t1 \in 1 .. n : \E j \in 1 .. Len(groups[t1]) : k = off[t1 - 1] + j
    BY <1>7, <1>9 DEF LaidOut
  <2>2. PICK j \in 1 .. Len(groups[t1]) : k = off[t1 - 1] + j
    BY <2>1
  <2> DEFINE t == t1 - 1
             W == Width(s, t)
  <2>3. j \in 1 .. s.rows * W
    BY <1>5
  <2>4. PICK r1 \in 1 .. s.rows, col \in 0 .. W - 1 : j = (r1 - 1) * W + col + 1
    BY <2>3, GroupIs
  <2>5. t \in 0 .. n - 1 /\ r1 - 1 \in 0 .. s.rows - 1 /\ t \in 0 .. n /\ r1 - 1 \in Nat
    BY <1>1, SMTT(30)
  <2> HIDE DEF t
  <2>6. W \in Nat /\ (r1 - 1) * W \in Nat /\ off[t] = s.rows * a(t) /\ off[t] \in Nat
    BY <1>1, <1>2, <1>3, <1>10, <2>5, Times
  <2> DEFINE m == (r1 - 1) * W
             x == off[t]
  <2>7. AddressOf(s, t, r1 - 1, col) = x + m + col
    BY <1>11, <2>6
  <2>8. k = x + (m + col + 1)
    BY <2>2, <2>4 DEF t
  <2>9. x + (m + col + 1) = x + m + col + 1
    <3>1. m \in Nat /\ x \in Nat /\ col \in Nat
      BY <2>6
    <3> HIDE DEF x, m
    <3> QED
      BY <3>1
  <2>10. k = AddressOf(s, t, r1 - 1, col) + 1
    BY <2>7, <2>8, <2>9
  <2> QED
    BY <2>5, <2>10
<1> QED
  BY <1>7, <1>8, <1>12, <1>13

(* The value of pack_groups()'s programs for a column.                     *)
Value(s, t, row, col) ==
  LET field == col % Layout!Unit(s)
      head == Layout!FirstHead(s, s.parts, t) + col \div Layout!Unit(s)
      vector == row * s.heads * s.dim + head * s.dim
  IN  IF col >= Payload(s, t) THEN <<"shared", row * s.shared + col - Payload(s, t)>>
      ELSE CASE field < s.dim                          -> <<"q", vector + field>>
             [] field \in s.dim .. 2 * s.dim - 1      -> <<"k", vector + field - s.dim>>
             [] field \in 2 * s.dim .. 3 * s.dim - 1  -> <<"v", vector + field - 2 * s.dim>>
             [] field = 3 * s.dim                     -> <<"gate", row * s.heads + head>>

(* It is what pack_groups() finds for the column.                          *)
LEMMA ValueIs ==
  ASSUME NEW s, Packs(s), NEW t \in 0 .. s.parts - 1, NEW row \in 0 .. s.rows - 1,
         NEW col \in 0 .. Width(s, t) - 1
  PROVE  Value(s, t, row, col) = CellOf(s, t, row, col)
<1> DEFINE U == Layout!Unit(s)
           d == s.dim
           f == col % U
           h == First(s, t) + col \div U
           v == row * s.heads * d + h * d
           at == row * s.heads + h
<1>1. /\ t \in 0 .. s.parts /\ row \in Nat /\ s.heads \in Nat /\ d \in Nat
  BY DEF Packs
<1>2. First(s, t) \in Nat /\ U \in Nat \ {0} /\ U = 3 * d + 1 /\ Width(s, t) \in Nat
  BY <1>1, WidthIs DEF Layout!Unit
<1>3. f \in 0 .. 3 * d /\ col \div U \in Nat
  <2>1. col \in Nat
    BY <1>2
  <2>2. f \in 0 .. U - 1 /\ col \div U \in Nat
    BY <1>2, <2>1, Division
  <2> HIDE DEF f
  <2> QED
    BY <1>1, <1>2, <2>2
<1>4. h \in Nat /\ row * s.heads \in Nat
  BY <1>1, <1>2, <1>3, Times
<1>5. v = at * d
  <2> DEFINE x == row * s.heads
  <2> HIDE DEF x, h, d
  <2>1. (x + h) * d = x * d + h * d
    BY <1>1, <1>4 DEF x
  <2> QED
    BY <2>1 DEF x
<1>6. Value(s, t, row, col) =
        IF col >= Payload(s, t) THEN <<"shared", row * s.shared + col - Payload(s, t)>>
        ELSE CASE f < d                      -> <<"q", v + f>>
               [] f \in d .. 2 * d - 1      -> <<"k", v + f - d>>
               [] f \in 2 * d .. 3 * d - 1  -> <<"v", v + f - 2 * d>>
               [] f = 3 * d                 -> <<"gate", at>>
  <2>1. row * s.heads + (First(s, t) + col \div U) = at
    OBVIOUS
  <2> QED
    BY <2>1 DEF Value, First
<1>7. CellOf(s, t, row, col) =
        IF col >= Payload(s, t) THEN <<"shared", row * s.shared + col - Payload(s, t)>>
        ELSE FieldOf(s, row * s.heads + First(s, t) + col \div U, f)
  BY DEF CellOf
<1>8. row * s.heads + First(s, t) + col \div U = at
  <2> DEFINE x == row * s.heads
             y == First(s, t)
             z == col \div U
  <2>1. x \in Nat /\ y \in Nat /\ z \in Nat
    BY <1>2, <1>3, <1>4
  <2> HIDE DEF x, y, z
  <2>2. x + y + z = x + (y + z)
    BY <2>1
  <2> QED
    BY <2>2 DEF x, y, z
<1>9. FieldOf(s, at, f) = IF f < d THEN <<"q", at * d + f>>
                          ELSE IF f < 2 * d THEN <<"k", at * d + f - d>>
                          ELSE IF f < 3 * d THEN <<"v", at * d + f - 2 * d>>
                          ELSE <<"gate", at>>
  BY DEF FieldOf
<1> HIDE DEF f, h, v, at, d, U
<1>10. (CASE f < d                      -> <<"q", v + f>>
          [] f \in d .. 2 * d - 1      -> <<"k", v + f - d>>
          [] f \in 2 * d .. 3 * d - 1  -> <<"v", v + f - 2 * d>>
          [] f = 3 * d                 -> <<"gate", at>>) = FieldOf(s, at, f)
  <2>1. CASE f < d
    BY <1>1, <1>3, <1>5, <1>9, <2>1
  <2>2. CASE f \in d .. 2 * d - 1
    BY <1>1, <1>3, <1>5, <1>9, <2>2
  <2>3. CASE f \in 2 * d .. 3 * d - 1
    BY <1>1, <1>3, <1>5, <1>9, <2>3
  <2>4. CASE f = 3 * d
    BY <1>1, <1>3, <1>5, <1>9, <2>4
  <2> QED
    BY <1>1, <1>3, <2>1, <2>2, <2>3, <2>4
<1> QED
  BY <1>6, <1>7, <1>8, <1>10

(* So both fill the send buffer alike.                                     *)
LEMMA PackedInPlace ==
  ASSUME NEW s, Packs(s)
  PROVE  Layout!PackedAsNative(s, Layout!PackGroups(s))
<1> DEFINE pack == Layout!NativePack(s)
           groups == Layout!PackGroups(s)
           cells == {<<k - 1, pack[k]>> : k \in DOMAIN pack}
<1>1. \A x : x \in groups <=>
        \E t \in 0 .. s.parts - 1 : \E row \in 0 .. s.rows - 1, col \in 0 .. Width(s, t) - 1 :
          x = <<AddressOf(s, t, row, col), Value(s, t, row, col)>>
  <2>1. groups = UNION {{<<AddressOf(s, t, row, col), Value(s, t, row, col)>> :
                           row \in 0 .. s.rows - 1, col \in 0 .. Width(s, t) - 1}
                          : t \in 0 .. s.parts - 1}
    BY DEF Layout!PackGroups, AddressOf, Value, First, Width, Payload
  <2> HIDE DEF groups
  <2> QED
    BY <2>1
<1> HIDE DEF groups
<1>2. \A t \in 0 .. s.parts - 1, row \in 0 .. s.rows - 1 : \A col \in 0 .. Width(s, t) - 1 :
        /\ Value(s, t, row, col) = CellOf(s, t, row, col)
        /\ AddressOf(s, t, row, col) + 1 \in DOMAIN pack
        /\ pack[AddressOf(s, t, row, col) + 1] = CellOf(s, t, row, col)
        /\ AddressOf(s, t, row, col) \in Int
  <2> SUFFICES ASSUME NEW t \in 0 .. s.parts - 1, NEW row \in 0 .. s.rows - 1,
                      NEW col \in 0 .. Width(s, t) - 1
               PROVE  /\ Value(s, t, row, col) = CellOf(s, t, row, col)
                      /\ AddressOf(s, t, row, col) + 1 \in DOMAIN pack
                      /\ pack[AddressOf(s, t, row, col) + 1] = CellOf(s, t, row, col)
                      /\ AddressOf(s, t, row, col) \in Int
    OBVIOUS
  <2>1. Value(s, t, row, col) = CellOf(s, t, row, col)
    BY ValueIs
  <2>2. /\ AddressOf(s, t, row, col) + 1 \in DOMAIN pack
        /\ pack[AddressOf(s, t, row, col) + 1] = CellOf(s, t, row, col)
    BY PackIs
  <2>3. AddressOf(s, t, row, col) \in Int
    <3>1. t \in 0 .. s.parts /\ t \in Nat /\ row \in Nat /\ col \in Int /\ s.rows \in Nat /\ s.shared \in Nat
      BY DEF Packs
    <3>2. First(s, t) \in Nat /\ Layout!Unit(s) \in Nat /\ Width(s, t) \in Nat
      BY <3>1, WidthIs
    <3> DEFINE x == First(s, t) * Layout!Unit(s)
               y == t * s.shared
               z == row * Width(s, t)
               a == s.rows * (x + y)
    <3>3. x \in Nat /\ y \in Nat /\ z \in Nat
      BY <3>1, <3>2, Times
    <3>4. AddressOf(s, t, row, col) = a + z + col
      BY DEF AddressOf
    <3> HIDE DEF x, y, z
    <3>5. x + y \in Nat
      BY <3>3
    <3>6. a \in Nat
      BY <3>1, <3>5, Times
    <3> HIDE DEF a
    <3> QED
      BY <3>1, <3>3, <3>4, <3>6
  <2> QED
    BY <2>1, <2>2, <2>3
<1>3. \A k \in DOMAIN pack :
        \E t \in 0 .. s.parts - 1 : \E row \in 0 .. s.rows - 1 : \E col \in 0 .. Width(s, t) - 1 :
          k = AddressOf(s, t, row, col) + 1
  BY PackIs
<1> HIDE DEF pack
<1>4. ASSUME NEW x \in groups PROVE x \in cells
  <2>1. PICK t \in 0 .. s.parts - 1, row \in 0 .. s.rows - 1 : \E col \in 0 .. Width(s, t) - 1 :
          x = <<AddressOf(s, t, row, col), Value(s, t, row, col)>>
    BY <1>1
  <2>2. PICK col \in 0 .. Width(s, t) - 1 : x = <<AddressOf(s, t, row, col), Value(s, t, row, col)>>
    BY <2>1
  <2> DEFINE k == AddressOf(s, t, row, col) + 1
  <2> DEFINE a == AddressOf(s, t, row, col)
  <2>5. /\ Value(s, t, row, col) = CellOf(s, t, row, col) /\ a \in Int
        /\ a + 1 \in DOMAIN pack /\ pack[a + 1] = CellOf(s, t, row, col)
    BY <1>2
  <2> HIDE DEF a
  <2>6. k = a + 1
    BY DEF a
  <2>3. /\ Value(s, t, row, col) = CellOf(s, t, row, col)
        /\ k \in DOMAIN pack /\ pack[k] = CellOf(s, t, row, col) /\ k - 1 = AddressOf(s, t, row, col)
    <3> HIDE DEF k
    <3>1. k - 1 = a
      BY <2>5, <2>6
    <3> QED
      BY <2>5, <2>6, <3>1 DEF a
  <2>4. k \in DOMAIN pack /\ x = <<k - 1, pack[k]>>
    BY <2>2, <2>3
  <2> HIDE DEF k
  <2> QED
    BY <2>4
<1>5. ASSUME NEW k \in DOMAIN pack PROVE <<k - 1, pack[k]>> \in groups
  <2>1. PICK t \in 0 .. s.parts - 1, row \in 0 .. s.rows - 1 : \E col \in 0 .. Width(s, t) - 1 :
          k = AddressOf(s, t, row, col) + 1
    BY <1>3
  <2>2. PICK col \in 0 .. Width(s, t) - 1 : k = AddressOf(s, t, row, col) + 1
    BY <2>1
  <2> DEFINE a == AddressOf(s, t, row, col)
             v == Value(s, t, row, col)
  <2>4. k = a + 1 /\ v = CellOf(s, t, row, col) /\ pack[a + 1] = CellOf(s, t, row, col) /\ a \in Int
    BY <1>2, <2>2
  <2> HIDE DEF a, v
  <2>5. <<k - 1, pack[k]>> = <<a, v>>
    BY <2>4
  <2>3. <<k - 1, pack[k]>> = <<AddressOf(s, t, row, col), Value(s, t, row, col)>>
    BY <2>5 DEF a, v
  <2> QED
    BY <1>1, <2>3
<1>6. groups = cells
  BY <1>4, <1>5
<1> QED
  BY <1>6 DEF Layout!PackedAsNative, groups, pack

-----------------------------------------------------------------------------
(* Unpacking.  The group a head is in, as unpack_groups() computes it.     *)
TargetOf(s, parts, head) ==
  LET base == s.heads \div parts
      extra == s.heads % parts
      large == (base + 1) * extra
  IN  IF head < large THEN head \div (base + 1) ELSE extra + (head - large) \div base

(* The first head of a group is not before that of an earlier one.         *)
LEMMA GroupsGrow ==
  ASSUME NEW s, s.heads \in Nat, NEW parts \in Nat \ {0}, NEW a \in Nat, NEW b \in Nat, a <= b
  PROVE  Layout!FirstHead(s, parts, a) <= Layout!FirstHead(s, parts, b)
<1> DEFINE base == s.heads \div parts
           extra == s.heads % parts
<1>1. base \in Nat /\ extra \in 0 .. parts - 1
  BY Division
<1>2. \A t : Layout!FirstHead(s, parts, t) = t * base + Layout!Least(t, extra)
  BY DEF Layout!FirstHead
<1> HIDE DEF base, extra
<1>3. a * base <= b * base /\ a * base \in Nat /\ b * base \in Nat
  BY <1>1, Grows, Times
<1>4. /\ Layout!Least(a, extra) <= Layout!Least(b, extra)
      /\ Layout!Least(a, extra) \in Nat /\ Layout!Least(b, extra) \in Nat
  BY <1>1 DEF Layout!Least
<1>5. /\ Layout!FirstHead(s, parts, a) = a * base + Layout!Least(a, extra)
      /\ Layout!FirstHead(s, parts, b) = b * base + Layout!Least(b, extra)
  BY <1>2
<1> DEFINE x == a * base
           y == b * base
<1> HIDE DEF x, y
<1>6. x <= y /\ x \in Nat /\ y \in Nat
  BY <1>3 DEF x, y
<1> QED
  BY <1>4, <1>5, <1>6 DEF x, y

(* It is the group whose heads are before and after it.                    *)
LEMMA TargetIs ==
  ASSUME NEW s, s.heads \in Nat, NEW parts \in Nat \ {0}, NEW head \in 0 .. s.heads - 1
  PROVE  LET t == TargetOf(s, parts, head) IN
         /\ t \in 0 .. parts - 1
         /\ Layout!FirstHead(s, parts, t) <= head /\ head < Layout!FirstHead(s, parts, t + 1)
<1> DEFINE base == s.heads \div parts
           extra == s.heads % parts
           large == (base + 1) * extra
           t == TargetOf(s, parts, head)
<1>1. base \in Nat /\ extra \in 0 .. parts - 1 /\ s.heads = parts * base + extra
  BY Division
<1>2. \A k : Layout!FirstHead(s, parts, k) = k * base + Layout!Least(k, extra)
  BY DEF Layout!FirstHead
<1>3. t = IF head < large THEN head \div (base + 1) ELSE extra + (head - large) \div base
  BY DEF TargetOf
<1> HIDE DEF base, extra, t
<1>4. head \in Nat /\ large \in Nat /\ large = base * extra + extra
  <2>1. base + 1 \in Nat /\ extra \in Nat
    BY <1>1
  <2>2. (base + 1) * extra \in Nat
    BY <2>1, Times
  <2>3. (base + 1) * extra = base * extra + extra
    BY <1>1, Times
  <2> QED
    BY <2>2, <2>3
<1>5. CASE head < large
  <2> DEFINE b == base + 1
  <2>1. b \in Nat \ {0} /\ t = head \div b
    BY <1>1, <1>3, <1>5
  <2>2. t \in Nat /\ b * t <= head /\ head < b * t + b
    BY <1>4, <2>1, Quotient
  <2>3. t < extra
    <3>1. CASE extra <= t
      <4>1. b * extra <= b * t
        BY <1>1, <2>1, <2>2, <3>1, Grows
      <4> HIDE DEF b
      <4>2. large = b * extra
        BY DEF b
      <4> HIDE DEF large
      <4>3. b * extra \in Nat /\ b * t \in Nat
        BY <1>1, <2>1, <2>2, Times
      <4> QED
        BY <1>4, <1>5, <2>2, <4>1, <4>2, <4>3
    <3> QED
      BY <1>1, <2>2, <3>1
  <2>4. b * t = t * base + t /\ t * base \in Nat /\ (t + 1) * base = t * base + base
    <3>1. t * base \in Nat /\ (t + 1) * base = t * base + base
      BY <1>1, <2>2, Times
    <3>2. (base + 1) * t = base * t + t /\ base * t = t * base
      BY <1>1, <2>2
    <3> QED
      BY <3>1, <3>2
  <2>5. Layout!Least(t, extra) = t /\ Layout!Least(t + 1, extra) = t + 1
    BY <1>1, <2>2, <2>3 DEF Layout!Least
  <2>6. /\ Layout!FirstHead(s, parts, t) = t * base + t
        /\ Layout!FirstHead(s, parts, t + 1) = t * base + base + (t + 1)
    BY <1>2, <2>4, <2>5
  <2> DEFINE x == t * base
             y == b * t
  <2>7. x \in Nat /\ y = x + t /\ b = base + 1 /\ y <= head /\ head < y + b
    BY <2>2, <2>4
  <2> HIDE DEF b, x, y
  <2>8. x + t <= head /\ head < x + base + (t + 1)
    BY <1>1, <1>4, <2>2, <2>7
  <2>9. t \in 0 .. parts - 1
    BY <1>1, <2>2, <2>3
  <2> QED
    BY <2>6, <2>8, <2>9 DEF x, t
<1>6. CASE ~(head < large)
  <2> DEFINE m == head - large
             q == m \div base
  <2>1. m \in Nat
    BY <1>4, <1>6
  <2>2. base \in Nat \ {0}
    <3>1. CASE base = 0
      <4>1. parts * base = 0 /\ base * extra = 0
        BY <1>1, <3>1
      <4>2. large = extra /\ s.heads = extra
        BY <1>1, <1>4, <4>1
      <4> QED
        BY <1>4, <1>6, <4>2
    <3> QED
      BY <1>1, <3>1
  <2>3. q \in Nat /\ base * q <= m /\ m < base * q + base
    <3> HIDE DEF m
    <3> QED
      BY <2>1, <2>2, Quotient
  <2>4. t = extra + q
    BY <1>3, <1>6
  <2> HIDE DEF q
  <2>5. q < parts - extra
    <3>1. CASE q >= parts - extra
      <4> DEFINE d == parts - extra
      <4>1. d \in Nat
        BY <1>1
      <4>2. base * d <= base * q
        BY <2>2, <2>3, <3>1, <4>1, Grows
      <4>3. base * d = parts * base - base * extra
        BY <1>1
      <4> DEFINE x == base * d
                 y == base * q
                 z == parts * base
                 w == base * extra
      <4>4. x \in Nat /\ y \in Nat /\ z \in Nat /\ w \in Nat
        BY <1>1, <2>2, <2>3, <4>1, Times
      <4>5. x <= y /\ x = z - w /\ y <= m /\ s.heads = z + extra /\ large = w + extra
        BY <1>1, <1>4, <2>3, <4>2, <4>3
      <4> HIDE DEF x, y, z, w, d, large
      <4> QED
        BY <1>1, <1>4, <4>4, <4>5
    <3> QED
      BY <1>1, <2>3, <3>1
  <2>6. Layout!Least(t, extra) = extra /\ Layout!Least(t + 1, extra) = extra
    BY <1>1, <2>3, <2>4 DEF Layout!Least
  <2>7. t * base = base * extra + base * q /\ (t + 1) * base = t * base + base /\ t \in 0 .. parts - 1
    <3>1. t \in 0 .. parts - 1 /\ t \in Nat
      BY <1>1, <2>3, <2>4, <2>5
    <3>2. (t + 1) * base = t * base + base
      BY <1>1, <3>1, Times
    <3>3. (extra + q) * base = base * extra + base * q
      BY <1>1, <2>3
    <3> QED
      BY <2>4, <3>1, <3>2, <3>3
  <2>8. /\ Layout!FirstHead(s, parts, t) = base * extra + base * q + extra
        /\ Layout!FirstHead(s, parts, t + 1) = base * extra + base * q + base + extra
    BY <1>2, <2>6, <2>7
  <2> DEFINE y == base * q
             w == base * extra
  <2>9. y \in Nat /\ w \in Nat /\ large = w + extra /\ y <= head - large /\ head - large < y + base
    BY <1>1, <1>4, <2>2, <2>3, Times
  <2> HIDE DEF y, w, large
  <2>10. w + y + extra <= head /\ head < w + y + base + extra
    BY <1>1, <1>4, <2>9
  <2> QED
    BY <2>7, <2>8, <2>10 DEF y, w, t
<1> QED
  BY <1>5, <1>6

(* So each head of both branches is found where the chunks have it.        *)
LEMMA UnpackedInPlace ==
  ASSUME NEW s, {s.rows, s.heads, s.dim} \subseteq Nat, {s.parts, s.linear_parts} \subseteq Nat \ {0}
  PROVE  Layout!UnpackedAsNative(s, Layout!UnpackGroups(s))
<1> DEFINE out == Layout!UnpackGroups(s)
           E == (0 .. 1) \X (0 .. s.rows - 1) \X (0 .. s.heads - 1) \X (0 .. s.dim - 1)
           Parts1(e) == IF e[1] = 0 THEN s.parts ELSE s.linear_parts
           T(e) == TargetOf(s, Parts1(e), e[3])
           F(e) == Layout!FirstHead(s, Parts1(e), T(e))
           L(e) == Layout!LocalHeads(s, Parts1(e), T(e))
<1>1. DOMAIN out = E
  BY DEF Layout!UnpackGroups
<1>2. ASSUME NEW e \in E
      PROVE  out[e] = s.rows * (e[1] * s.heads + F(e)) * s.dim + (e[2] * L(e) + e[3] - F(e)) * s.dim + e[4]
  BY DEF Layout!UnpackGroups, TargetOf
<1> HIDE DEF out
<1>3. ASSUME NEW e \in E PROVE out[e] = Layout!NativeUnpack(s, e)
  <2> DEFINE parts == Parts1(e)
             t == T(e)
             f == F(e)
             Within(n) == /\ Layout!HeadsBefore(s, parts, n) <= e[3]
                         /\ e[3] < Layout!HeadsBefore(s, parts, n + 1)
             n == CHOOSE n \in 1 .. parts : Within(n)
  <2>1. parts \in Nat \ {0} /\ s.heads \in Nat /\ s.rows \in Nat /\ s.dim \in Nat
    OBVIOUS
  <2>2. e[1] \in {0, 1} /\ e[2] \in Nat /\ e[3] \in 0 .. s.heads - 1 /\ e[3] \in Nat
    BY <2>1
  <2> HIDE DEF parts
  <2>3. t \in 0 .. parts - 1 /\ f <= e[3] /\ e[3] < Layout!FirstHead(s, parts, t + 1)
    BY <2>1, <2>2, TargetIs DEF parts
  <2>4. \A k \in 1 .. parts : /\ Layout!HeadsBefore(s, parts, k) = Layout!FirstHead(s, parts, k - 1)
                              /\ Layout!HeadsBefore(s, parts, k + 1) = Layout!FirstHead(s, parts, k)
    <3> SUFFICES ASSUME NEW k \in 1 .. parts
                 PROVE  /\ Layout!HeadsBefore(s, parts, k) = Layout!FirstHead(s, parts, k - 1)
                        /\ Layout!HeadsBefore(s, parts, k + 1) = Layout!FirstHead(s, parts, k)
      OBVIOUS
    <3> DEFINE l == k + 1
    <3>1. k \in 1 .. parts + 1 /\ l \in 1 .. parts + 1 /\ l - 1 = k
      BY <2>1
    <3> HIDE DEF l
    <3>2. /\ Layout!HeadsBefore(s, parts, k) = Layout!FirstHead(s, parts, k - 1)
          /\ Layout!HeadsBefore(s, parts, l) = Layout!FirstHead(s, parts, l - 1)
      BY <2>1, <3>1, HeadsBeforeAre
    <3> QED
      BY <3>1, <3>2 DEF l
  <2>5. f = Layout!FirstHead(s, parts, t)
    BY DEF parts
  <2> HIDE DEF f, t
  <2>6. \A k \in Nat : Layout!FirstHead(s, parts, k) \in Nat /\ Layout!LocalHeads(s, parts, k) \in Nat
    BY <2>1, HeadsAre
  <2>7. ASSUME NEW k \in 1 .. parts, Within(k) PROVE k = t + 1
    <3>1. k \in Nat /\ k - 1 \in Nat /\ t \in Nat /\ t + 1 \in Nat
      BY <2>1, <2>3
    <3>2. Layout!FirstHead(s, parts, k - 1) <= e[3] /\ e[3] < Layout!FirstHead(s, parts, k)
      BY <2>4, <2>7
    <3>3. CASE k <= t
      <4>1. Layout!FirstHead(s, parts, k) <= Layout!FirstHead(s, parts, t)
        BY <2>1, <3>1, <3>3, GroupsGrow
      <4> QED
        BY <2>2, <2>3, <2>5, <2>6, <3>1, <3>2, <4>1
    <3>4. CASE t + 1 <= k - 1
      <4>1. Layout!FirstHead(s, parts, t + 1) <= Layout!FirstHead(s, parts, k - 1)
        BY <2>1, <3>1, <3>4, GroupsGrow
      <4> QED
        BY <2>2, <2>3, <2>6, <3>1, <3>2, <4>1
    <3> QED
      BY <3>1, <3>3, <3>4
  <2>8. t + 1 \in 1 .. parts /\ Within(t + 1)
    <3> DEFINE k == t + 1
    <3>1. k \in 1 .. parts /\ k - 1 = t
      BY <2>1, <2>3
    <3> HIDE DEF k
    <3>2. Within(k) <=> f <= e[3] /\ e[3] < Layout!FirstHead(s, parts, k)
      BY <2>4, <2>5, <3>1
    <3> QED
      BY <2>3, <3>1, <3>2 DEF k
  <2>9. n = t + 1
    <3> HIDE DEF Within
    <3> QED
      BY <2>7, <2>8
  <2>10. /\ Layout!HeadsBefore(s, parts, n) = f
         /\ Layout!GroupSizes(s, parts)[n] = Layout!LocalHeads(s, parts, t)
    <3> HIDE DEF n
    <3>1. n \in 1 .. parts /\ n - 1 = t
      BY <2>1, <2>3, <2>9
    <3> QED
      BY <2>4, <2>5, <3>1 DEF Layout!GroupSizes
  <2>11. Layout!NativeUnpack(s, e) =
           e[1] * s.rows * s.heads * s.dim + s.rows * Layout!HeadsBefore(s, parts, n) * s.dim
           + (e[2] * Layout!GroupSizes(s, parts)[n] + e[3] - Layout!HeadsBefore(s, parts, n)) * s.dim + e[4]
    BY DEF Layout!NativeUnpack, parts
  <2> DEFINE l == Layout!LocalHeads(s, parts, t)
             r == (e[2] * l + e[3] - f) * s.dim
  <2> HIDE DEF n
  <2>12. Layout!NativeUnpack(s, e) =
           e[1] * s.rows * s.heads * s.dim + s.rows * f * s.dim + r + e[4]
    BY <2>10, <2>11
  <2>13. out[e] = s.rows * (e[1] * s.heads + f) * s.dim + r + e[4]
    BY <1>2 DEF f, t, parts
  <2> HIDE DEF r
  <2>14. f \in Nat
    BY <2>3, <2>5, <2>6
  <2>15. s.rows * (e[1] * s.heads + f) * s.dim = e[1] * s.rows * s.heads * s.dim + s.rows * f * s.dim
    <3> DEFINE h == s.heads
               d == s.dim
               w == s.rows
    <3> HIDE DEF h, d, w
    <3>1. h \in Nat /\ d \in Nat /\ w \in Nat
      BY <2>1 DEF h, d, w
    <3>2. CASE e[1] = 0
      <4>1. w * (0 * h + f) * d = 0 * w * h * d + w * f * d
        BY <2>14, <3>1
      <4> QED
        BY <3>2, <4>1 DEF h, d, w
    <3>3. CASE e[1] = 1
      <4>1. w * (1 * h + f) * d = 1 * w * h * d + w * f * d
        BY <2>14, <3>1
      <4> QED
        BY <3>3, <4>1 DEF h, d, w
    <3> QED
      BY <2>2, <3>2, <3>3
  <2> QED
    BY <2>12, <2>13, <2>15
<1> QED
  BY <1>1, <1>3 DEF Layout!UnpackedAsNative, out

-----------------------------------------------------------------------------
(* Tiles.  Partial sums.                                                   *)
LEMMA SumsExist ==
  ASSUME NEW s \in Seq(Nat)
  PROVE  \E off \in [0 .. Len(s) -> Nat] :
           off[0] = 0 /\ \A k \in 1 .. Len(s) : off[k] = off[k - 1] + s[k]
<1> DEFINE n == Len(s)
           Next1 == [k \in 1 .. n |-> [m \in Nat |-> m + s[k]]]
<1>1. n \in Nat /\ \A k \in 1 .. n : s[k] \in Nat
  BY LenProperties
<1> HIDE DEF n
<1>2. Next1 \in [1 .. n -> [Nat -> Nat]] /\ \A k \in 1 .. n, m \in Nat : Next1[k][m] = m + s[k]
  BY <1>1
<1> HIDE DEF Next1
<1>3. PICK f : Follows(f, Nat, 0, Next1, n)
  <2>1. 0 \in Nat
    OBVIOUS
  <2> QED
    BY <1>1, <1>2, <2>1, RecursionExists
<1>4. f \in [0 .. n -> Nat] /\ f[0] = 0 /\ \A k \in 1 .. n : f[k] = Next1[k][f[k - 1]]
  BY <1>3 DEF Follows
<1>5. \A k \in 1 .. n : f[k] = f[k - 1] + s[k]
  <2>1. \A k \in 1 .. n : k - 1 \in 0 .. n
    BY <1>1
  <2> QED
    BY <1>2, <1>4, <2>1
<1> QED
  BY <1>4, <1>5 DEF n

Pixels == SUBSET (Int \X Int \X Int \X Int)

Tiled(s) ==
  /\ s.lengths \in Seq(Nat) /\ s.overlaps \in Seq(Nat)
  /\ Len(s.lengths) = Len(s.overlaps) + 1
  /\ \A j \in 1 .. Len(s.overlaps) :
       s.overlaps[j] <= s.lengths[j] /\ s.overlaps[j] <= s.lengths[j + 1]

(* Tile j, its seam with the one before it blended.                        *)
Tile(s, j) ==
  IF j = 1 THEN Layout!RawTile(s, 1)
  ELSE Layout!Blend(Layout!RawTile(s, j - 1), Layout!RawTile(s, j),
                    Layout!Least(Layout!Least(s.lengths[j - 1], s.lengths[j]), s.overlaps[j - 1]))

Seam(s, j, i) ==
  LET extent == s.overlaps[j - 1] IN
  {<<j - 1, s.lengths[j - 1] - extent + i, extent - i + 1, extent>>, <<j, i, i - 1, extent>>}

(* Its pixels are its own, or shares of both tiles of the seam.            *)
LEMMA TileIs ==
  ASSUME NEW s, Tiled(s), NEW j \in 1 .. Len(s.lengths)
  PROVE  /\ Tile(s, j) \in Seq(Pixels) /\ Len(Tile(s, j)) = s.lengths[j]
         /\ \A i \in 1 .. s.lengths[j] :
              \/ Tile(s, j)[i] = {<<j, i, 1, 1>>}
              \/ j > 1 /\ i <= s.overlaps[j - 1] /\ Tile(s, j)[i] = Seam(s, j, i)
<1>1. \A k \in 1 .. Len(s.lengths) : s.lengths[k] \in Nat
  BY LenProperties DEF Tiled
<1>2. ASSUME NEW k \in 1 .. Len(s.lengths)
      PROVE  /\ DOMAIN Layout!RawTile(s, k) = 1 .. s.lengths[k]
             /\ \A i \in 1 .. s.lengths[k] : Layout!RawTile(s, k)[i] = {<<k, i, 1, 1>>}
             /\ Layout!RawTile(s, k) \in Seq(Pixels) /\ Len(Layout!RawTile(s, k)) = s.lengths[k]
  <2>1. \A i \in 1 .. s.lengths[k] : {<<k, i, 1, 1>>} \in Pixels
    <3>1. k \in Int /\ \A i \in 1 .. s.lengths[k] : i \in Int
      BY <1>1
    <3> QED
      BY <3>1 DEF Pixels
  <2> DEFINE raw == Layout!RawTile(s, k)
  <2>2. raw = [i \in 1 .. s.lengths[k] |-> {<<k, i, 1, 1>>}]
    BY DEF Layout!RawTile
  <2> DEFINE l == s.lengths[k]
  <2>3. l \in Nat /\ raw = [i \in 1 .. l |-> {<<k, i, 1, 1>>}] /\ \A i \in 1 .. l : {<<k, i, 1, 1>>} \in Pixels
    BY <1>1, <2>1, <2>2
  <2> HIDE DEF raw, l
  <2>4. raw \in [1 .. l -> Pixels]
    BY <2>3
  <2>5. DOMAIN raw = 1 .. l /\ \A i \in 1 .. l : raw[i] = {<<k, i, 1, 1>>}
    BY <2>3
  <2>6. raw \in Seq(Pixels) /\ Len(raw) = l
    BY <2>3, <2>4
  <2> QED
    BY <2>5, <2>6 DEF raw, l
<1>3. CASE j = 1
  <2>1. Tile(s, j) = Layout!RawTile(s, j)
    BY <1>3 DEF Tile
  <2> QED
    BY <1>2, <2>1
<1>4. CASE j # 1
  <2> DEFINE h == j - 1
             a == Layout!RawTile(s, h)
             b == Layout!RawTile(s, j)
             extent == s.overlaps[h]
             la == s.lengths[h]
             lb == s.lengths[j]
             mixed == Layout!Blend(a, b, extent)
  <2>1. /\ h \in 1 .. Len(s.overlaps) /\ h \in 1 .. Len(s.lengths) /\ h + 1 = j /\ j > 1 /\ h \in Int /\ j \in Int
        /\ Len(s.overlaps) \in Nat
    <3>1. Len(s.overlaps) \in Nat /\ Len(s.lengths) = Len(s.overlaps) + 1
      BY LenProperties DEF Tiled
    <3> QED
      BY <1>4, <3>1
  <2> HIDE DEF h
  <2>2. extent \in Nat /\ la \in Nat /\ lb \in Nat /\ extent <= la /\ extent <= lb
    <3>1. extent <= la /\ extent <= lb
      BY <2>1 DEF Tiled
    <3>2. extent \in Nat
      BY <2>1, LenProperties DEF Tiled
    <3> QED
      BY <1>1, <2>1, <3>1, <3>2
  <2>3. Tile(s, j) = mixed
    <3>1. Layout!Least(Layout!Least(la, lb), extent) = extent
      <4> HIDE DEF la, lb, extent
      <4> QED
        BY <2>2 DEF Layout!Least
    <3>2. Tile(s, j) = Layout!Blend(a, b, Layout!Least(Layout!Least(la, lb), extent))
      BY <1>4 DEF Tile, h
    <3> QED
      BY <3>1, <3>2
  <2>4. /\ DOMAIN b = 1 .. lb /\ Len(a) = la
        /\ \A i \in 1 .. lb : b[i] = {<<j, i, 1, 1>>}
        /\ \A i \in 1 .. la : a[i] = {<<h, i, 1, 1>>}
    BY <1>2, <2>1
  <2> HIDE DEF a, b, la, lb, extent
  <2>5. /\ DOMAIN mixed = 1 .. lb
        /\ \A i \in 1 .. lb : mixed[i] =
             IF i > extent THEN b[i]
             ELSE {<<x[1], x[2], extent - i + 1, extent>> : x \in a[la - extent + i]}
                  \union {<<x[1], x[2], i - 1, extent>> : x \in b[i]}
    BY <2>4 DEF Layout!Blend
  <2>6. mixed = [i \in 1 .. lb |-> mixed[i]]
    <3>1. mixed = [i \in DOMAIN mixed |-> mixed[i]]
      BY DEF Layout!Blend
    <3> QED
      BY <2>5, <3>1
  <2> HIDE DEF mixed
  <2> DEFINE Joint(i) == {<<h, la - extent + i, extent - i + 1, extent>>, <<j, i, i - 1, extent>>}
  <2>7. ASSUME NEW i \in 1 .. lb
        PROVE  /\ i > extent => mixed[i] = {<<j, i, 1, 1>>}
               /\ ~(i > extent) => i <= extent /\ mixed[i] = Joint(i)
    <3>1. CASE i > extent
      BY <2>4, <2>5, <3>1
    <3>2. CASE ~(i > extent)
      <4> DEFINE c == la - extent + i
      <4>1. c \in 1 .. la /\ i <= extent
        BY <2>2, <3>2
      <4> HIDE DEF c
      <4>2. a[c] = {<<h, c, 1, 1>>} /\ b[i] = {<<j, i, 1, 1>>}
        BY <2>4, <4>1
      <4>3. mixed[i] = {<<x[1], x[2], extent - i + 1, extent>> : x \in a[c]}
                       \union {<<x[1], x[2], i - 1, extent>> : x \in b[i]}
        BY <2>5, <3>2 DEF c
      <4> DEFINE v == extent - i + 1
                 w == i - 1
      <4> HIDE DEF v, w
      <4>4. {<<x[1], x[2], v, extent>> : x \in {<<h, c, 1, 1>>}} = {<<h, c, v, extent>>}
        OBVIOUS
      <4>5. {<<x[1], x[2], w, extent>> : x \in {<<j, i, 1, 1>>}} = {<<j, i, w, extent>>}
        OBVIOUS
      <4>6. mixed[i] = {<<h, c, v, extent>>} \union {<<j, i, w, extent>>}
        BY <4>2, <4>3, <4>4, <4>5 DEF v, w
      <4>7. mixed[i] = {<<h, c, v, extent>>, <<j, i, w, extent>>}
        BY <4>6
      <4> QED
        BY <3>2, <4>1, <4>7 DEF c, v, w
    <3> QED
      BY <3>1, <3>2
  <2>8. \A i \in 1 .. lb : mixed[i] \in Pixels
    <3> SUFFICES ASSUME NEW i \in 1 .. lb PROVE mixed[i] \in Pixels
      OBVIOUS
    <3>1. /\ i \in Int /\ la - extent + i \in Int /\ extent - i + 1 \in Int /\ extent \in Int
          /\ i - 1 \in Int /\ h \in Int /\ j \in Int /\ 1 \in Int
      BY <2>1, <2>2
    <3>2. {<<j, i, 1, 1>>} \in Pixels
      BY <3>1 DEF Pixels
    <3>3. Joint(i) \in Pixels
      <4> DEFINE p == la - extent + i
                 q == extent - i + 1
                 r == i - 1
      <4>1. p \in Int /\ q \in Int /\ r \in Int
        BY <3>1
      <4> HIDE DEF p, q, r
      <4>2. {<<h, p, q, extent>>, <<j, i, r, extent>>} \in Pixels
        BY <3>1, <4>1 DEF Pixels
      <4> QED
        BY <4>2 DEF p, q, r
    <3> HIDE DEF Joint
    <3> QED
      BY <2>7, <3>2, <3>3
  <2>9. mixed \in Seq(Pixels) /\ Len(mixed) = lb
    BY <2>2, <2>6, <2>8
  <2>10. \A i : Seam(s, j, i) = Joint(i)
    BY DEF Seam, h, la, extent
  <2> HIDE DEF Joint
  <2>11. extent = s.overlaps[j - 1] /\ lb = s.lengths[j]
    BY DEF extent, lb, h
  <2> QED
    BY <2>1, <2>3, <2>7, <2>9, <2>10, <2>11
<1> QED
  BY <1>3, <1>4

(* Tiles laid out one after the other, cropped where the next begins.      *)
LEMMA SeamsAreInPlace ==
  ASSUME NEW s, Tiled(s)
  PROVE  Layout!SeamsInPlace(s, Layout!StitchTiles(s))
<1> DEFINE n == Len(s.lengths)
           m == Len(s.overlaps)
           crop(j) == IF j < n THEN s.overlaps[j] ELSE 0
           pieces == [j \in 1 .. n |-> SubSeq(Tile(s, j), 1, Len(Tile(s, j)) - crop(j))]
           out == Layout!FlattenSeq(pieces)
           Origin(j) == Layout!Total(SubSeq(s.lengths, 1, j - 1)) - Layout!Total(SubSeq(s.overlaps, 1, j - 1))
<1>1. /\ n \in Nat /\ m \in Nat /\ n = m + 1
      /\ s.lengths \in Seq(Nat) /\ s.overlaps \in Seq(Nat)
      /\ \A j \in 1 .. n : s.lengths[j] \in Nat
      /\ \A j \in 1 .. m : s.overlaps[j] \in Nat
      /\ \A j \in 1 .. m : s.overlaps[j] <= s.lengths[j] /\ s.overlaps[j] <= s.lengths[j + 1]
  BY LenProperties DEF Tiled
<1>2. Layout!StitchTiles(s) = out
  <2>1. DOMAIN s.lengths = 1 .. n
    BY LenProperties DEF Tiled
  <2> QED
    BY <2>1 DEF Layout!StitchTiles, Tile
<1>3. PICK A \in [0 .. n -> Nat] : A[0] = 0 /\ \A k \in 1 .. n : A[k] = A[k - 1] + s.lengths[k]
  BY <1>1, SumsExist
<1>4. PICK B \in [0 .. m -> Nat] : B[0] = 0 /\ \A k \in 1 .. m : B[k] = B[k - 1] + s.overlaps[k]
  BY <1>1, SumsExist
<1>5. Layout!Total(s.lengths) = A[n] /\ Layout!Total(s.overlaps) = B[m]
  <2>1. Layout!Total(s.lengths) = A[n]
    BY <1>1, <1>3, WholeSum
  <2>2. Layout!Total(s.overlaps) = B[m]
    BY <1>1, <1>4, WholeSum
  <2> QED
    BY <2>1, <2>2
<1>6. ASSUME NEW j \in 1 .. n PROVE Origin(j) = A[j - 1] - B[j - 1]
  <2>1. j - 1 \in 0 .. n /\ j - 1 \in 0 .. m
    BY <1>1
  <2>2. Layout!Total(SubSeq(s.lengths, 1, j - 1)) = A[j - 1]
    BY <1>1, <1>3, <2>1, PartSums, ZenonT(60)
  <2>3. Layout!Total(SubSeq(s.overlaps, 1, j - 1)) = B[j - 1]
    BY <1>1, <1>4, <2>1, PartSums
  <2> QED
    BY <2>2, <2>3
<1> HIDE DEF Origin
<1>7. \A j \in 1 .. m : Origin(j + 1) = Origin(j) + s.lengths[j] - s.overlaps[j] /\ Origin(j) \in Int
  <2> SUFFICES ASSUME NEW j \in 1 .. m
               PROVE  Origin(j + 1) = Origin(j) + s.lengths[j] - s.overlaps[j] /\ Origin(j) \in Int
    OBVIOUS
  <2> DEFINE k == j + 1
  <2>1. j \in 1 .. n /\ k \in 1 .. n /\ k - 1 = j /\ j - 1 \in 0 .. n /\ j - 1 \in 0 .. m
    BY <1>1
  <2> HIDE DEF k
  <2>2. Origin(k) = A[j] - B[j] /\ Origin(j) = A[j - 1] - B[j - 1]
    BY <1>6, <2>1
  <2>3. A[j] = A[j - 1] + s.lengths[j] /\ B[j] = B[j - 1] + s.overlaps[j]
    BY <1>3, <1>4, <2>1
  <2>4. A[j - 1] \in Nat /\ B[j - 1] \in Nat /\ s.lengths[j] \in Nat /\ s.overlaps[j] \in Nat
    BY <1>1, <1>3, <1>4, <2>1
  <2>5. Origin(k) = Origin(j) + s.lengths[j] - s.overlaps[j] /\ Origin(j) \in Int
    <3> DEFINE a == A[j - 1]
               b == B[j - 1]
               x == s.lengths[j]
               y == s.overlaps[j]
    <3>1. /\ a \in Nat /\ b \in Nat /\ x \in Nat /\ y \in Nat
          /\ Origin(k) = a + x - (b + y) /\ Origin(j) = a - b
      BY <2>2, <2>3, <2>4, SMTT(30)
    <3> HIDE DEF a, b, x, y
    <3>2. Origin(k) = Origin(j) + x - y /\ Origin(j) \in Int
      BY <3>1
    <3> QED
      BY <3>2 DEF x, y
  <2> QED
    BY <2>5 DEF k
<1> DEFINE off == [k \in 0 .. n |-> IF k < n THEN A[k] - B[k] ELSE A[n] - B[m]]
<1>8. ASSUME NEW j \in 1 .. n
      PROVE  /\ pieces[j] \in Seq(Pixels) /\ Len(pieces[j]) = s.lengths[j] - crop(j)
             /\ Len(pieces[j]) \in Nat /\ crop(j) \in Nat
             /\ \A i \in 1 .. Len(pieces[j]) : i \in 1 .. s.lengths[j] /\ pieces[j][i] = Tile(s, j)[i]
  <2> DEFINE tile == Tile(s, j)
             l == s.lengths[j]
             c == crop(j)
  <2>1. c \in Nat /\ c <= l /\ l \in Nat
    <3>1. CASE j < n
      <4>1. j \in 1 .. m
        BY <1>1, <3>1
      <4> QED
        BY <1>1, <3>1, <4>1
    <3>2. CASE ~(j < n)
      BY <1>1, <3>2
    <3> QED
      BY <3>1, <3>2
  <2>2. tile \in Seq(Pixels) /\ Len(tile) = l
    BY TileIs
  <2>3. pieces[j] = SubSeq(tile, 1, Len(tile) - c)
    OBVIOUS
  <2> HIDE DEF tile, c, pieces, l
  <2> DEFINE e == l - c
  <2>4. e \in 0 .. Len(tile) /\ e \in Nat /\ pieces[j] = SubSeq(tile, 1, e)
    BY <2>1, <2>2, <2>3
  <2>5. \A i \in 1 .. e : i \in 1 .. l /\ tile[i] \in Pixels
    BY <2>1, <2>2, <2>4, LenProperties
  <2> HIDE DEF e
  <2>6. /\ SubSeq(tile, 1, e) \in Seq(Pixels)
        /\ Len(SubSeq(tile, 1, e)) = IF 1 <= e THEN e - 1 + 1 ELSE 0
        /\ \A i \in 1 .. e - 1 + 1 : SubSeq(tile, 1, e)[i] = tile[1 + i - 1]
    <3>1. 1 \in Nat \ {0} /\ e \in Nat
      BY <2>4
    <3> QED
      BY <2>2, <2>4, <2>5, <3>1, SubSeqProperties
  <2>7. (IF 1 <= e THEN e - 1 + 1 ELSE 0) = e /\ e - 1 + 1 = e /\ \A i \in 1 .. e : 1 + i - 1 = i
    BY <2>4
  <2>8. pieces[j] \in Seq(Pixels) /\ Len(pieces[j]) = e /\ \A i \in 1 .. e : pieces[j][i] = tile[i]
    BY <2>4, <2>6, <2>7
  <2> QED
    BY <2>1, <2>4, <2>5, <2>8 DEF tile, c, l, e
<1>9. pieces \in [1 .. n -> Seq(Pixels)]
  <2>1. pieces = [j \in 1 .. n |-> pieces[j]]
    OBVIOUS
  <2> HIDE DEF pieces
  <2> QED
    BY <1>8, <2>1
<1> HIDE DEF pieces
<1>10. \A j \in 1 .. n : off[j] = off[j - 1] + s.lengths[j] - crop(j) /\ off[j - 1] = Origin(j) /\ off[j - 1] \in Int
  <2> SUFFICES ASSUME NEW j \in 1 .. n
               PROVE  off[j] = off[j - 1] + s.lengths[j] - crop(j) /\ off[j - 1] = Origin(j) /\ off[j - 1] \in Int
    OBVIOUS
  <2> DEFINE h == j - 1
  <2>1. h \in 0 .. n /\ h < n /\ h \in 0 .. m /\ j \in 0 .. n /\ n \in Nat
    BY <1>1
  <2>2. A[h] \in Nat /\ B[h] \in Nat /\ B[m] \in Nat /\ s.lengths[j] \in Nat
    <3>1. m \in 0 .. m
      BY <1>1
    <3> HIDE DEF h
    <3> QED
      BY <1>1, <1>3, <1>4, <2>1, <3>1
  <2>3. A[j] = A[h] + s.lengths[j] /\ off[h] = A[h] - B[h] /\ Origin(j) = A[h] - B[h]
    BY <1>3, <1>6, <2>1
  <2>4. CASE j < n
    <3>1. j \in 1 .. m
      BY <1>1, <2>4
    <3>2. B[j] = B[h] + s.overlaps[j] /\ s.overlaps[j] \in Nat /\ off[j] = A[j] - B[j]
      BY <1>1, <1>4, <2>1, <2>4, <3>1
    <3> HIDE DEF off, h
    <3>3. off[j] = off[h] + s.lengths[j] - s.overlaps[j] /\ off[h] \in Int
      BY <2>2, <2>3, <3>2, SMTT(30)
    <3> QED
      BY <2>3, <2>4, <3>3 DEF h
  <2>5. CASE ~(j < n)
    <3>1. j = n /\ h = m
      BY <1>1, <2>5
    <3>2. off[j] = A[j] - B[h]
      BY <2>1, <2>5, <3>1
    <3> HIDE DEF off, h
    <3>3. off[j] = off[h] + s.lengths[j] - 0 /\ off[h] \in Int
      BY <2>2, <2>3, <3>2
    <3> QED
      BY <2>3, <2>5, <3>3 DEF h
  <2> QED
    BY <2>4, <2>5
<1>11. off[0] = 0 /\ off[n] = A[n] - B[m]
  <2>1. 0 \in 0 .. n /\ n \in 0 .. n /\ 0 < n /\ ~(n < n)
    BY <1>1
  <2> QED
    BY <1>3, <1>4, <2>1
<1>12. DOMAIN off = 0 .. n /\ off = [k \in 0 .. n |-> off[k]]
  OBVIOUS
<1> HIDE DEF off, crop
<1>13. off \in [0 .. n -> Nat]
  <2> DEFINE T == {k \in Nat : k <= n => off[k] \in Nat}
  <2>1. 0 \in T
    BY <1>11
  <2>2. ASSUME NEW k \in Nat, k \in T PROVE k + 1 \in T
    <3> SUFFICES ASSUME k + 1 <= n PROVE off[k + 1] \in Nat
      OBVIOUS
    <3> DEFINE j == k + 1
    <3>1. j \in 1 .. n /\ j - 1 = k /\ off[k] \in Nat
      BY <1>1, <2>2
    <3> HIDE DEF j
    <3>2. off[j] = off[k] + s.lengths[j] - crop(j)
      BY <1>10, <3>1
    <3>3. s.lengths[j] - crop(j) \in Nat /\ s.lengths[j] \in Nat /\ crop(j) \in Nat
      BY <1>1, <1>8, <3>1
    <3> QED
      BY <3>1, <3>2, <3>3 DEF j
  <2>3. \A k \in Nat : k \in T
    <3> HIDE DEF T
    <3> QED
      BY <2>1, <2>2, ZeroAndNext
  <2>4. \A k \in 0 .. n : off[k] \in Nat
    BY <1>1, <2>3
  <2> QED
    BY <1>12, <2>4
<1>14. IsOffset(off, n, pieces)
  <2>1. \A j \in 1 .. n : off[j] = off[j - 1] + Len(pieces[j])
    <3> SUFFICES ASSUME NEW j \in 1 .. n PROVE off[j] = off[j - 1] + Len(pieces[j])
      OBVIOUS
    <3>1. off[j] = off[j - 1] + s.lengths[j] - crop(j) /\ off[j - 1] \in Int
      BY <1>10
    <3>2. Len(pieces[j]) = s.lengths[j] - crop(j) /\ crop(j) \in Nat /\ s.lengths[j] \in Nat
      BY <1>1, <1>8
    <3> QED
      BY <3>1, <3>2
  <2> QED
    BY <1>11, <1>13, <2>1 DEF IsOffset
<1>15. out \in Seq(Pixels) /\ LaidOut(out, n, pieces, off)
  BY <1>1, <1>9, <1>14, FlatPlaces
<1> HIDE DEF out
<1>16. Len(out) = Layout!Total(s.lengths) - Layout!Total(s.overlaps)
  BY <1>5, <1>11, <1>15 DEF LaidOut
<1>17. ASSUME NEW p \in DOMAIN out
       PROVE  /\ \A x \in out[p] : Origin(x[1]) + x[2] = p
              /\ \E x, y \in out[p] : /\ out[p] = {x, y} /\ x[4] = y[4]
                                     /\ x[4] = IF x = y THEN x[3] ELSE x[3] + y[3]
  <2>1. p \in 1 .. off[n]
    BY <1>15, LenProperties DEF LaidOut
  <2>2. PICK j \in 1 .. n : \E i \in 1 .. Len(pieces[j]) : p = off[j - 1] + i
    BY <1>15, <2>1 DEF LaidOut
  <2>3. PICK i \in 1 .. Len(pieces[j]) : p = off[j - 1] + i
    BY <2>2
  <2>4. out[p] = pieces[j][i]
    BY <1>15, <2>3 DEF LaidOut
  <2>5. out[p] = Tile(s, j)[i] /\ i \in 1 .. s.lengths[j] /\ p = Origin(j) + i /\ Origin(j) \in Int
    BY <1>8, <1>10, <2>3, <2>4
  <2>6. CASE out[p] = {<<j, i, 1, 1>>}
    <3> DEFINE x == <<j, i, 1, 1>>
    <3>1. x \in out[p] /\ out[p] = {x, x} /\ x[1] = j /\ x[2] = i /\ x[3] = 1 /\ x[4] = 1
      BY <2>6
    <3> HIDE DEF x
    <3> QED
      BY <2>5, <3>1
  <2>7. CASE j > 1 /\ i <= s.overlaps[j - 1] /\ out[p] = Seam(s, j, i)
    <3> DEFINE h == j - 1
               e == s.overlaps[h]
               l == s.lengths[h]
               x == <<h, l - e + i, e - i + 1, e>>
               y == <<j, i, i - 1, e>>
    <3>1. h \in 1 .. m /\ h \in 1 .. n /\ h + 1 = j /\ h # j
      BY <1>1, <2>7
    <3>2. out[p] = {x, y}
      BY <2>7 DEF Seam
    <3> HIDE DEF h
    <3>3. e \in Nat /\ l \in Nat /\ i \in Nat
      BY <1>1, <2>5, <3>1
    <3>4. Origin(j) = Origin(h) + l - e /\ Origin(h) \in Int
      BY <1>7, <3>1
    <3>5. /\ x[1] = h /\ x[2] = l - e + i /\ x[3] = e - i + 1 /\ x[4] = e
          /\ y[1] = j /\ y[2] = i /\ y[3] = i - 1 /\ y[4] = e
      OBVIOUS
    <3> HIDE DEF x, y, e, l
    <3>6. x # y
      BY <3>1, <3>5
    <3>7. Origin(x[1]) + x[2] = p /\ Origin(y[1]) + y[2] = p
      BY <2>5, <3>3, <3>4, <3>5
    <3>8. x[4] = y[4] /\ x[4] = x[3] + y[3]
      BY <3>3, <3>5
    <3> QED
      BY <3>2, <3>6, <3>7, <3>8
  <2> QED
    BY <2>5, <2>6, <2>7, TileIs
<1> QED
  BY <1>2, <1>16, <1>17 DEF Layout!SeamsInPlace, Origin

(* For all sizes: heads are packed and unpacked as the plain code packs    *)
(* and unpacks them, each in the group of the rank that has it, and a      *)
(* stitched row has each pixel once, from its own place in the tiles, with *)
(* weights that add up to one.                                             *)
THEOREM CopiesAgree == Spec => []CopiesAsReference
<1>1. LayoutInv => CopiesAsReference
  <2> SUFFICES ASSUME LayoutInv, part = "layout", output # <<>> PROVE
                 /\ input.kind = "pack"   => Layout!PackedAsNative(input, output[1])
                 /\ input.kind = "unpack" => Layout!UnpackedAsNative(input, output[1])
                 /\ input.kind = "tiles"  => Layout!SeamsInPlace(input, output[1])
    BY DEF CopiesAsReference, Layout!CopiesAsReference
  <2>1. input \in Inputs /\ output[1] = Layout!Computed(input)
    BY DEF LayoutInv
  <2>2. CASE input.kind = "pack"
    <3>1. output[1] = Layout!PackGroups(input)
      BY <2>1, <2>2 DEF Layout!Computed
    <3>2. Packs(input)
      BY <2>1, <2>2, LayoutAssumption DEF Packs
    <3> QED
      BY <2>2, <3>1, <3>2, PackedInPlace
  <2>3. CASE input.kind = "unpack"
    <3>1. output[1] = Layout!UnpackGroups(input)
      BY <2>1, <2>3 DEF Layout!Computed
    <3>2. {input.rows, input.heads, input.dim} \subseteq Nat /\ {input.parts, input.linear_parts} \subseteq Nat \ {0}
      BY <2>1, <2>3, LayoutAssumption
    <3> QED
      BY <2>3, <3>1, <3>2, UnpackedInPlace
  <2>4. CASE input.kind = "tiles"
    <3>1. output[1] = Layout!StitchTiles(input)
      BY <2>1, <2>4 DEF Layout!Computed
    <3>2. Tiled(input)
      <4>1. input.overlaps \in Seq(Nat \ {0}) /\ Len(input.lengths) = Len(input.overlaps) + 1
            /\ input.lengths \in Seq(Nat)
            /\ \A j \in 1 .. Len(input.overlaps) :
                 input.overlaps[j] <= input.lengths[j] /\ input.overlaps[j] <= input.lengths[j + 1]
        BY <2>1, <2>4, LayoutAssumption
      <4>2. input.overlaps \in Seq(Nat)
        BY <4>1
      <4> QED
        BY <4>1, <4>2 DEF Tiled
    <3> QED
      BY <2>4, <3>1, <3>2, SeamsAreInPlace
  <2> QED
    BY <2>2, <2>3, <2>4
<1> QED
  BY LayoutInitial, LayoutStep, <1>1, PTL DEF Spec
=============================================================================
