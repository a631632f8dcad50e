--------------------------- MODULE SchedulingProofs ---------------------------
(***************************************************************************)
(* For any specification, of any length and over any axes: what Descript    *)
(* accepts are the segments and the tiles that were written, the scheduler   *)
(* gives the nest back as it was, and MLIR strip-mines its loops with their  *)
(* inner tiles.                                                              *)
(***************************************************************************)
EXTENDS Scheduling, TLAPS, SequenceTheorems, FiniteSetTheorems

Positions == Nat \cup {None}

LoopTypes == [kind : {"axis", "tile", "split"}, axis : Dims, n : Nat]

NodeTypes ==
  [parent : Nat, segment : Nat,
   origin : [axis : Dims \cup {NoAxis}, start : Nat, end : Positions],
   tiles : [Dims -> Seq(Nat)], splits : [Dims -> Seq(Nat)], interchange : Seq(LoopTypes),
   asked : [Dims -> Seq(Positions)], bounded : [Dims -> Seq(BOOLEAN)]]

FrameTypes == [node : Nat, cut : [Dims -> Positions], sizes : [Dims -> Seq(Nat)]]

Verdicts == {"unused dimension", "unmaterialized axis", "larger inner loop", "accepted"}

Types ==
  /\ stage \in {"interpret", "check", "refused"} \cup Verdicts
  /\ dimSize \in DimSizes /\ items \in Nat
  /\ nest \in Seq(NodeTypes) /\ frames \in Seq(FrameTypes)

\* The calls are of nodes of the nest, an inner one of a later node.
Stack ==
  /\ stage = "interpret" <=> frames # << >>
  /\ \A i \in DOMAIN frames : frames[i].node \in DOMAIN nest
  /\ \A i, j \in DOMAIN frames : i < j => frames[j].node < frames[i].node

\* The segments of an axis: each begins where the one before it ends, up to the cut.
Chained(n, a, cut) ==
  LET s == n.splits[a]  e == n.asked[a] IN
  /\ Len(e) = Len(s) /\ Len(n.bounded[a]) = Len(s)
  /\ s = << >> => cut = 0
  /\ s # << >> => s[1] = 0 /\ cut = e[Len(s)]
  /\ \A k \in 1 .. Len(s) - 1 : s[k + 1] = e[k]
  /\ \A k \in 1 .. Len(s) : e[k] # None => s[k] <= e[k]
  /\ \A k \in 1 .. Len(s) : n.bounded[a][k] => e[k] # None

\* The segments of a node whose call is not over are cut at its cut, those of the
\* others nowhere within the axis.
Segments ==
  /\ \A i \in DOMAIN frames : \A a \in Dims : Chained(nest[frames[i].node], a, frames[i].cut[a])
  /\ \A m \in DOMAIN nest : \A a \in Dims :
       \/ \E i \in DOMAIN frames : frames[i].node = m
       \/ \E cut \in {None, 0, dimSize} : Chained(nest[m], a, cut)

\* The tiles of an axis are loops of their node, in order; so are its segments.
LoopsOf(n) ==
  /\ \A a \in Dims : \A k \in 1 .. Len(n.tiles[a]) :
       \E p \in DOMAIN n.interchange : n.interchange[p] = TileLoop(a, k)
  /\ \A p \in DOMAIN n.interchange :
       LET l == n.interchange[p] IN
       /\ l.kind = "tile"  => l.n \in 1 .. Len(n.tiles[l.axis])
       /\ l.kind = "split" => l.n \in 1 .. Len(n.splits[l.axis])
  /\ \A p, q \in DOMAIN n.interchange :
       LET l == n.interchange[p]  r == n.interchange[q] IN
       (l.kind = "tile" /\ r.kind = "tile" /\ l.axis = r.axis /\ p < q) => l.n < r.n

\* A node is the content of a segment of an earlier one.
Content(m) ==
  LET n == nest[m]  above == nest[n.parent]  a == n.origin.axis IN
  a # NoAxis =>
    /\ n.parent \in 1 .. m - 1
    /\ n.segment \in 1 .. Len(above.splits[a])
    /\ n.origin.start = above.splits[a][n.segment]
    /\ above.bounded[a][n.segment] => n.origin.end = above.asked[a][n.segment]

Tree == \A m \in DOMAIN nest : LoopsOf(nest[m]) /\ Content(m)

IInv == Types /\ Stack /\ Segments /\ Tree

-----------------------------------------------------------------------------
(* Sequences. *)

\* An element is added at the end.
LEMMA Appended ==
  ASSUME NEW S, NEW s \in Seq(S), NEW x \in S, NEW sx, sx = Append(s, x)
  PROVE  /\ sx \in Seq(S) /\ Len(sx) = Len(s) + 1 /\ Len(s) \in Nat
         /\ DOMAIN s = 1 .. Len(s) /\ DOMAIN sx = 1 .. Len(s) + 1
         /\ \A i \in 1 .. Len(s) : sx[i] = s[i]
         /\ sx[Len(s) + 1] = x
  BY AppendProperties, LenProperties

\* A stack whose top is replaced by one call, or by two.
LEMMA OneOnTop ==
  ASSUME NEW S, NEW s \in Seq(S), s # << >>, NEW x \in S, NEW t, t = <<x>> \o Tail(s)
  PROVE  /\ t \in Seq(S) /\ Len(t) = Len(s) /\ t[1] = x
         /\ \A i \in 2 .. Len(s) : t[i] = s[i]
<1>1. Tail(s) \in Seq(S) /\ Len(Tail(s)) = Len(s) - 1 /\ Len(s) \in Nat
      /\ \A i \in 1 .. Len(s) - 1 : Tail(s)[i] = s[i + 1]
  BY HeadTailProperties, LenProperties
<1>2. <<x>> \in Seq(S) /\ Len(<<x>>) = 1 /\ <<x>>[1] = x
  OBVIOUS
<1> QED
  BY <1>1, <1>2, ConcatProperties

\* The top of a stack is replaced by two elements.
LEMMA TwoOnTop ==
  ASSUME NEW S, NEW s \in Seq(S), s # << >>, NEW x \in S, NEW y \in S, NEW t,
         t = <<x, y>> \o Tail(s)
  PROVE  /\ t \in Seq(S) /\ Len(t) = Len(s) + 1 /\ t[1] = x /\ t[2] = y
         /\ \A i \in 3 .. Len(s) + 1 : t[i] = s[i - 1]
<1>1. Tail(s) \in Seq(S) /\ Len(Tail(s)) = Len(s) - 1 /\ Len(s) \in Nat
      /\ \A i \in 1 .. Len(s) - 1 : Tail(s)[i] = s[i + 1]
  BY HeadTailProperties, LenProperties
<1>2. <<x, y>> \in Seq(S) /\ Len(<<x, y>>) = 2 /\ <<x, y>>[1] = x /\ <<x, y>>[2] = y
  OBVIOUS
<1> QED
  BY <1>1, <1>2, ConcatProperties

\* What is left of a stack when its top is taken away.
LEMMA WithoutTop ==
  ASSUME NEW S, NEW s \in Seq(S), s # << >>
  PROVE  /\ Tail(s) \in Seq(S) /\ Len(Tail(s)) = Len(s) - 1 /\ Len(s) \in Nat \ {0}
         /\ \A i \in 1 .. Len(s) - 1 : Tail(s)[i] = s[i + 1]
  BY HeadTailProperties, LenProperties, EmptySeq

-----------------------------------------------------------------------------
(* The state. *)

\* Nodes and calls are numbered from 1.
LEMMA NestShape ==
  ASSUME Types
  PROVE  /\ Len(nest) \in Nat /\ DOMAIN nest = 1 .. Len(nest)
         /\ \A m \in 1 .. Len(nest) : nest[m] \in NodeTypes
         /\ Len(frames) \in Nat /\ DOMAIN frames = 1 .. Len(frames)
         /\ \A i \in 1 .. Len(frames) : frames[i] \in FrameTypes
  BY LenProperties, ElementOfSeq DEF Types

\* While a specification is read there is an innermost call, of a node of the nest.
LEMMA TopShape ==
  ASSUME Types, Stack, stage = "interpret"
  PROVE  /\ frames # << >> /\ Len(frames) \in Nat \ {0} /\ top = frames[1]
         /\ top \in FrameTypes /\ top.node \in 1 .. Len(nest) /\ node \in NodeTypes
<1>1. frames # << >> /\ frames \in Seq(FrameTypes) /\ Len(frames) \in Nat \ {0}
  BY EmptySeq DEF Stack, Types
<1>2. top = frames[1]
  BY <1>1 DEF top
<1> QED
  BY <1>1, <1>2, NestShape DEF Stack, node

\* The sequences of a node, and their numbers.
LEMMA NodeShape ==
  ASSUME NEW n \in NodeTypes, NEW a \in Dims
  PROVE  /\ n.splits[a] \in Seq(Nat) /\ n.asked[a] \in Seq(Positions)
         /\ n.bounded[a] \in Seq(BOOLEAN) /\ n.tiles[a] \in Seq(Nat)
         /\ Len(n.splits[a]) \in Nat /\ Len(n.tiles[a]) \in Nat /\ Len(n.interchange) \in Nat
         /\ n.interchange \in Seq(LoopTypes) /\ DOMAIN n.interchange = 1 .. Len(n.interchange)
         /\ \A p \in DOMAIN n.interchange : n.interchange[p] \in LoopTypes
         /\ \A k \in 1 .. Len(n.splits[a]) : n.splits[a][k] \in Nat
         /\ \A k \in 1 .. Len(n.asked[a]) : n.asked[a][k] \in Positions
         /\ n.splits[a] = << >> <=> Len(n.splits[a]) = 0
<1>1. /\ n.splits[a] \in Seq(Nat) /\ n.asked[a] \in Seq(Positions)
      /\ n.bounded[a] \in Seq(BOOLEAN) /\ n.tiles[a] \in Seq(Nat) /\ n.interchange \in Seq(LoopTypes)
  BY DEF NodeTypes
<1> QED
  BY <1>1, LenProperties, ElementOfSeq, EmptySeq

-----------------------------------------------------------------------------
(* What the declarations change. *)

\* A segment: its node is added, with a call of its own.
SegmentAdded(a, start, cut, nodeEnd, isBounded) ==
  LET N   == Len(nest)
      k   == Len(node.splits[a]) + 1
      new == nest'[top.node]
  IN /\ nest' \in Seq(NodeTypes) /\ Len(nest') = N + 1 /\ new \in NodeTypes
     /\ \A m \in 1 .. N : m # top.node => nest'[m] = nest[m]
     /\ new.parent = node.parent /\ new.segment = node.segment /\ new.origin = node.origin
     /\ new.tiles = node.tiles
     /\ new.splits  = [node.splits EXCEPT ![a] = Append(@, start)]
     /\ new.asked   = [node.asked EXCEPT ![a] = Append(@, cut)]
     /\ new.bounded = [node.bounded EXCEPT ![a] = Append(@, isBounded)]
     /\ new.interchange = Append(node.interchange, SplitLoop(a, k))
     /\ nest'[N + 1] = Node(top.node, k, [axis |-> a, start |-> start, end |-> nodeEnd],
                            <<AxisLoop(a)>>)
     /\ frames' \in Seq(FrameTypes) /\ Len(frames') = Len(frames) + 1
     /\ frames'[1] = Frame(N + 1, top.sizes)
     /\ frames'[2] = [top EXCEPT !.cut[a] = cut]
     /\ \A i \in 3 .. Len(frames) + 1 : frames'[i] = frames[i - 1]

\* AddSegment, node by node and call by call.
LEMMA SegmentEffect ==
  ASSUME Types, Stack, stage = "interpret",
         NEW a \in Dims, NEW start \in Nat, NEW cut \in Positions, NEW nodeEnd \in Positions,
         NEW isBounded \in BOOLEAN, AddSegment(a, start, cut, nodeEnd, isBounded)
  PROVE  SegmentAdded(a, start, cut, nodeEnd, isBounded)
<1> DEFINE k == Len(node.splits[a]) + 1
<1> DEFINE new == [node EXCEPT !.splits[a] = Append(@, start), !.asked[a] = Append(@, cut),
                               !.bounded[a] = Append(@, isBounded),
                               !.interchange = Append(@, SplitLoop(a, k))]
<1> DEFINE child == Node(top.node, k, [axis |-> a, start |-> start, end |-> nodeEnd], <<AxisLoop(a)>>)
<1> DEFINE grown == [nest EXCEPT ![top.node] = new]
<1>1. nest \in Seq(NodeTypes) /\ top.node \in 1 .. Len(nest) /\ node \in NodeTypes /\ top \in FrameTypes
  BY TopShape DEF Types
<1>2. k \in Nat /\ SplitLoop(a, k) \in LoopTypes /\ AxisLoop(a) \in LoopTypes
  BY <1>1, NodeShape DEF SplitLoop, AxisLoop, LoopTypes
<1>3. new \in NodeTypes
  <2>1. /\ Append(node.splits[a], start) \in Seq(Nat)
        /\ Append(node.asked[a], cut) \in Seq(Positions)
        /\ Append(node.bounded[a], isBounded) \in Seq(BOOLEAN)
        /\ Append(node.interchange, SplitLoop(a, k)) \in Seq(LoopTypes)
    BY <1>1, <1>2, NodeShape, AppendProperties
  <2> QED
    BY <1>1, <2>1 DEF NodeTypes
<1>4. child \in NodeTypes
  <2>1. << >> \in Seq(Nat) /\ << >> \in Seq(Positions) /\ << >> \in Seq(BOOLEAN)
    BY EmptySeq
  <2>2. <<AxisLoop(a)>> \in Seq(LoopTypes)
    BY <1>2
  <2>3. top.node \in Nat
    BY <1>1 DEF FrameTypes
  <2> QED
    BY <1>2, <2>1, <2>2, <2>3 DEF NodeTypes, Node
<1> HIDE DEF child
<1>5. /\ grown \in Seq(NodeTypes) /\ Len(grown) = Len(nest)
      /\ \A m \in 1 .. Len(nest) : grown[m] = IF m = top.node THEN new ELSE nest[m]
  <2> HIDE DEF new
  <2> QED
    BY <1>1, <1>3, ExceptSeq
<1>6. nest' = Append(grown, child)
  BY DEF AddSegment, child
<1>7. /\ nest' \in Seq(NodeTypes) /\ Len(nest') = Len(nest) + 1
      /\ \A m \in 1 .. Len(nest) : nest'[m] = grown[m]
      /\ nest'[Len(nest) + 1] = child
  <2> HIDE DEF grown
  <2> QED
    BY <1>4, <1>5, <1>6, Appended
<1>8. nest'[top.node] = new
  BY <1>1, <1>5, <1>7
<1>9. /\ frames' \in Seq(FrameTypes) /\ Len(frames') = Len(frames) + 1
      /\ frames'[1] = Frame(Len(nest) + 1, top.sizes) /\ frames'[2] = [top EXCEPT !.cut[a] = cut]
      /\ \A i \in 3 .. Len(frames) + 1 : frames'[i] = frames[i - 1]
  <2>1. Frame(Len(nest) + 1, top.sizes) \in FrameTypes /\ [top EXCEPT !.cut[a] = cut] \in FrameTypes
    <3>1. Len(nest) + 1 \in Nat /\ top.sizes \in [Dims -> Seq(Nat)]
      BY <1>1, NestShape DEF FrameTypes
    <3>2. Frame(Len(nest) + 1, top.sizes) \in FrameTypes
      BY <3>1 DEF FrameTypes, Frame, Positions
    <3>3. [top.cut EXCEPT ![a] = cut] \in [Dims -> Positions]
      BY <1>1 DEF FrameTypes
    <3>4. [top EXCEPT !.cut[a] = cut] \in FrameTypes
      BY <1>1, <3>3 DEF FrameTypes
    <3> QED
      BY <3>2, <3>4
  <2>2. frames' = <<Frame(Len(nest) + 1, top.sizes), [top EXCEPT !.cut[a] = cut]>> \o Tail(frames)
    BY DEF AddSegment
  <2>3. frames \in Seq(FrameTypes) /\ frames # << >>
    BY TopShape DEF Types
  <2> QED
    BY <2>1, <2>2, <2>3, TwoOnTop
<1>10. /\ new.parent = node.parent /\ new.segment = node.segment /\ new.origin = node.origin
       /\ new.tiles = node.tiles
       /\ new.splits  = [node.splits EXCEPT ![a] = Append(@, start)]
       /\ new.asked   = [node.asked EXCEPT ![a] = Append(@, cut)]
       /\ new.bounded = [node.bounded EXCEPT ![a] = Append(@, isBounded)]
       /\ new.interchange = Append(node.interchange, SplitLoop(a, k))
  BY <1>1 DEF NodeTypes
<1> HIDE DEF new
<1>11. \A m \in 1 .. Len(nest) : m # top.node => nest'[m] = nest[m]
  BY <1>5, <1>7
<1> QED
  BY <1>3, <1>7, <1>8, <1>9, <1>10, <1>11 DEF child, SegmentAdded

\* A tile is added to its node, and to the sizes of its axis.
LoopScheduled(l, tiles) ==
  LET new == nest'[top.node] IN
  /\ nest' \in Seq(NodeTypes) /\ Len(nest') = Len(nest) /\ new \in NodeTypes
  /\ \A m \in 1 .. Len(nest) : m # top.node => nest'[m] = nest[m]
  /\ new.parent = node.parent /\ new.segment = node.segment /\ new.origin = node.origin
  /\ new.tiles = tiles
  /\ new.splits = node.splits /\ new.asked = node.asked /\ new.bounded = node.bounded
  /\ new.interchange = Append(node.interchange, l)
  /\ frames' \in Seq(FrameTypes) /\ Len(frames') = Len(frames)
  /\ \A i \in 1 .. Len(frames) : frames'[i].node = frames[i].node /\ frames'[i].cut = frames[i].cut

\* Tile, node by node and call by call.
LEMMA TileEffect ==
  ASSUME Types, Stack, stage = "interpret", NEW a \in Dims, NEW s \in Nat, Tile(a, s)
  PROVE  LoopScheduled(TileLoop(a, Len(node.tiles[a]) + 1), [node.tiles EXCEPT ![a] = Append(@, s)])
<1> DEFINE l == TileLoop(a, Len(node.tiles[a]) + 1)
<1> DEFINE new == [Add(l) EXCEPT !.tiles[a] = Append(@, s)]
<1>1. nest \in Seq(NodeTypes) /\ top.node \in 1 .. Len(nest) /\ node \in NodeTypes /\ top \in FrameTypes
  BY TopShape DEF Types
<1>2. l \in LoopTypes
  BY <1>1, NodeShape DEF TileLoop, LoopTypes
<1>3. /\ Append(node.tiles[a], s) \in Seq(Nat) /\ Append(top.sizes[a], s) \in Seq(Nat)
      /\ Append(node.interchange, l) \in Seq(LoopTypes)
  <2>1. top.sizes[a] \in Seq(Nat)
    BY <1>1 DEF FrameTypes
  <2> HIDE DEF l
  <2> QED
    BY <1>1, <1>2, <2>1, NodeShape, AppendProperties
<1>4. /\ new \in NodeTypes
      /\ new.parent = node.parent /\ new.segment = node.segment /\ new.origin = node.origin
      /\ new.tiles = [node.tiles EXCEPT ![a] = Append(@, s)]
      /\ new.splits = node.splits /\ new.asked = node.asked /\ new.bounded = node.bounded
      /\ new.interchange = Append(node.interchange, l)
  <2> HIDE DEF l
  <2> QED
    BY <1>1, <1>3 DEF NodeTypes, Add
<1>5. nest' = [nest EXCEPT ![top.node] = new] /\ frames' = <<[top EXCEPT !.sizes[a] = Append(@, s)]>> \o Tail(frames)
  BY DEF Tile
<1> HIDE DEF new
<1>6. /\ nest' \in Seq(NodeTypes) /\ Len(nest') = Len(nest)
      /\ \A m \in 1 .. Len(nest) : nest'[m] = IF m = top.node THEN new ELSE nest[m]
  BY <1>1, <1>4, <1>5, ExceptSeq
<1>7. [top EXCEPT !.sizes[a] = Append(@, s)] \in FrameTypes
  BY <1>1, <1>3 DEF FrameTypes
<1>8. /\ frames' \in Seq(FrameTypes) /\ Len(frames') = Len(frames)
      /\ frames'[1] = [top EXCEPT !.sizes[a] = Append(@, s)]
      /\ \A i \in 2 .. Len(frames) : frames'[i] = frames[i]
  BY <1>5, <1>7, OneOnTop, TopShape DEF Types
<1>9. ASSUME NEW i \in 1 .. Len(frames)
      PROVE  frames'[i].node = frames[i].node /\ frames'[i].cut = frames[i].cut
  <2>1. top = frames[1] /\ Len(frames) \in Nat
    BY TopShape
  <2>2. frames'[1].node = top.node /\ frames'[1].cut = top.cut
    BY <1>1, <1>8 DEF FrameTypes
  <2>3. i = 1 \/ i \in 2 .. Len(frames)
    BY <2>1
  <2> QED
    BY <1>8, <2>1, <2>2, <2>3
<1> HIDE DEF l
<1> QED
  BY <1>1, <1>4, <1>6, <1>8, <1>9 DEF LoopScheduled, l

\* An axis is scheduled in its node.
LEMMA AxisEffect ==
  ASSUME Types, Stack, stage = "interpret", NEW a \in Dims, Axis(a)
  PROVE  LoopScheduled(AxisLoop(a), node.tiles)
<1> DEFINE new == Add(AxisLoop(a))
<1>1. nest \in Seq(NodeTypes) /\ top.node \in 1 .. Len(nest) /\ node \in NodeTypes
  BY TopShape DEF Types
<1>2. Append(node.interchange, AxisLoop(a)) \in Seq(LoopTypes)
  <2>1. AxisLoop(a) \in LoopTypes
    BY DEF AxisLoop, LoopTypes
  <2> QED
    BY <1>1, <2>1, NodeShape, AppendProperties
<1>3. /\ new \in NodeTypes
      /\ new.parent = node.parent /\ new.segment = node.segment /\ new.origin = node.origin
      /\ new.tiles = node.tiles
      /\ new.splits = node.splits /\ new.asked = node.asked /\ new.bounded = node.bounded
      /\ new.interchange = Append(node.interchange, AxisLoop(a))
  BY <1>1, <1>2 DEF NodeTypes, Add
<1>4. nest' = [nest EXCEPT ![top.node] = new]
  BY DEF Axis
<1> HIDE DEF new
<1>5. /\ nest' \in Seq(NodeTypes) /\ Len(nest') = Len(nest)
      /\ \A m \in 1 .. Len(nest) : nest'[m] = IF m = top.node THEN new ELSE nest[m]
  BY <1>1, <1>3, <1>4, ExceptSeq
<1>6. frames' = frames /\ frames \in Seq(FrameTypes)
  BY DEF Axis, Types
<1> QED
  BY <1>1, <1>3, <1>5, <1>6 DEF LoopScheduled

-----------------------------------------------------------------------------
(* The invariants of a node. *)

\* The chain of a node, part by part.
LEMMA ChainOf ==
  ASSUME NEW n, NEW a, NEW cut, NEW M \in Nat,
         Len(n.splits[a]) = M + 1, Len(n.asked[a]) = M + 1, Len(n.bounded[a]) = M + 1,
         n.splits[a] # << >>, n.splits[a][1] = 0, cut = n.asked[a][M + 1],
         \A k \in 1 .. M : n.splits[a][k + 1] = n.asked[a][k],
         \A k \in 1 .. M + 1 : n.asked[a][k] # None => n.splits[a][k] <= n.asked[a][k],
         \A k \in 1 .. M + 1 : n.bounded[a][k] => n.asked[a][k] # None
  PROVE  Chained(n, a, cut)
<1>1. 1 .. Len(n.splits[a]) - 1 = 1 .. M /\ 1 .. Len(n.splits[a]) = 1 .. M + 1
  OBVIOUS
<1>2. \A k \in 1 .. Len(n.splits[a]) - 1 : n.splits[a][k + 1] = n.asked[a][k]
  BY <1>1, Zenon
<1>3. \A k \in 1 .. Len(n.splits[a]) : n.asked[a][k] # None => n.splits[a][k] <= n.asked[a][k]
  BY <1>1, Zenon
<1>4. \A k \in 1 .. Len(n.splits[a]) : n.bounded[a][k] => n.asked[a][k] # None
  BY <1>1, Zenon
<1>5. /\ Len(n.asked[a]) = Len(n.splits[a]) /\ Len(n.bounded[a]) = Len(n.splits[a])
      /\ cut = n.asked[a][Len(n.splits[a])]
  OBVIOUS
<1> QED
  BY <1>2, <1>3, <1>4, <1>5, Zenon DEF Chained

\* A segment that begins at the cut.
LEMMA ChainExtended ==
  ASSUME NEW n \in NodeTypes, NEW new \in NodeTypes, NEW a \in Dims, NEW start \in Nat,
         NEW cut \in Positions, NEW isBounded \in BOOLEAN, Chained(n, a, start),
         new.splits[a] = Append(n.splits[a], start), new.asked[a] = Append(n.asked[a], cut),
         new.bounded[a] = Append(n.bounded[a], isBounded),
         cut # None => start <= cut, isBounded => cut # None
  PROVE  Chained(new, a, cut)
<1> DEFINE N == Len(n.splits[a])
<1>1. /\ N \in Nat /\ Len(n.asked[a]) = N /\ Len(n.bounded[a]) = N
      /\ n.splits[a] = << >> <=> N = 0
  BY NodeShape DEF Chained
<1>2. /\ Len(new.splits[a]) = N + 1 /\ new.splits[a][N + 1] = start
      /\ \A k \in 1 .. N : new.splits[a][k] = n.splits[a][k]
  <2>1. n.splits[a] \in Seq(Nat)
    BY NodeShape
  <2> QED
    BY <1>1, <2>1, Appended
<1>3. /\ Len(new.asked[a]) = N + 1 /\ new.asked[a][N + 1] = cut
      /\ \A k \in 1 .. N : new.asked[a][k] = n.asked[a][k]
  <2>1. n.asked[a] \in Seq(Positions)
    BY NodeShape
  <2> QED
    BY <1>1, <2>1, Appended, SMTT(30)
<1>4. /\ Len(new.bounded[a]) = N + 1 /\ new.bounded[a][N + 1] = isBounded
      /\ \A k \in 1 .. N : new.bounded[a][k] = n.bounded[a][k]
  <2>1. n.bounded[a] \in Seq(BOOLEAN)
    BY NodeShape
  <2> QED
    BY <1>1, <2>1, Appended
<1>5. new.splits[a] # << >> /\ new.splits[a][1] = 0
  <2>1. CASE N = 0
    <3>1. start = 0
      BY <1>1, <2>1 DEF Chained
    <3>2. Len(new.splits[a]) = 1 /\ new.splits[a][1] = start
      BY <1>2, <2>1
    <3>3. new.splits[a] # << >>
      <4>1. Len(new.splits[a]) # 0
        BY <3>2
      <4> QED
        BY <4>1, NodeShape
    <3> QED
      BY <3>1, <3>2, <3>3
  <2>2. CASE N # 0
    <3>1. 1 \in 1 .. N /\ n.splits[a][1] = 0
      BY <1>1, <2>2 DEF Chained
    <3> QED
      BY <1>1, <1>2, <3>1, NodeShape
  <2> QED
    BY <2>1, <2>2
<1>6. ASSUME NEW k \in 1 .. N PROVE new.splits[a][k + 1] = new.asked[a][k]
  <2>1. CASE k = N
    <3>1. n.splits[a] # << >> /\ start = n.asked[a][N]
      BY <1>1, <2>1 DEF Chained
    <3> QED
      BY <1>1, <1>2, <1>3, <2>1, <3>1
  <2>2. CASE k # N
    <3>1. k \in 1 .. N - 1 /\ k + 1 \in 1 .. N /\ k \in 1 .. N
      BY <1>1, <2>2
    <3> QED
      BY <1>2, <1>3, <3>1 DEF Chained
  <2> QED
    BY <2>1, <2>2
<1>7. ASSUME NEW k \in 1 .. N + 1
      PROVE  /\ new.asked[a][k] # None => new.splits[a][k] <= new.asked[a][k]
             /\ new.bounded[a][k] => new.asked[a][k] # None
  <2>1. CASE k = N + 1
    BY <1>2, <1>3, <1>4, <2>1
  <2>2. CASE k # N + 1
    <3>1. k \in 1 .. N
      BY <1>1, <2>2
    <3> QED
      BY <1>2, <1>3, <1>4, <3>1 DEF Chained
  <2> QED
    BY <2>1, <2>2
<1> QED
  <2> HIDE DEF N
  <2>1. N \in Nat
    BY <1>1
  <2> QED
    BY <1>2, <1>3, <1>4, <1>5, <1>6, <1>7, <2>1, ChainOf

\* A loop that is added to a node.
LEMMA LoopAdded ==
  ASSUME NEW n \in NodeTypes, NEW new \in NodeTypes, NEW l \in LoopTypes, LoopsOf(n),
         new.interchange = Append(n.interchange, l),
         \A b \in Dims : Len(n.splits[b]) <= Len(new.splits[b]),
         \A b \in Dims : (l.kind = "tile" /\ b = l.axis) \/ Len(new.tiles[b]) = Len(n.tiles[b]),
         l.kind = "tile" => l.n = Len(n.tiles[l.axis]) + 1 /\ Len(new.tiles[l.axis]) = l.n,
         l.kind = "split" => l.n \in 1 .. Len(new.splits[l.axis])
  PROVE  LoopsOf(new)
<1> DEFINE N == Len(n.interchange)
<1>1. /\ N \in Nat /\ DOMAIN n.interchange = 1 .. N /\ DOMAIN new.interchange = 1 .. N + 1
      /\ \A p \in 1 .. N : new.interchange[p] = n.interchange[p] /\ n.interchange[p] \in LoopTypes
      /\ new.interchange[N + 1] = l
  <2>1. n.interchange \in Seq(LoopTypes)
    BY DEF NodeTypes
  <2> QED
    BY <2>1, Appended, ElementOfSeq
<1>2. l.axis \in Dims /\ l.kind \in {"axis", "tile", "split"}
  BY DEF LoopTypes
<1>3. \A b \in Dims : /\ Len(n.tiles[b]) \in Nat /\ Len(new.tiles[b]) \in Nat
                      /\ Len(n.splits[b]) \in Nat /\ Len(new.splits[b]) \in Nat
                      /\ Len(n.tiles[b]) <= Len(new.tiles[b])
  <2> TAKE b \in Dims
  <2>1. /\ Len(n.tiles[b]) \in Nat /\ Len(new.tiles[b]) \in Nat
        /\ Len(n.splits[b]) \in Nat /\ Len(new.splits[b]) \in Nat
    BY NodeShape
  <2> QED
    BY <2>1
<1>4. ASSUME NEW b \in Dims, NEW k \in 1 .. Len(new.tiles[b])
      PROVE  \E p \in DOMAIN new.interchange : new.interchange[p] = TileLoop(b, k)
  <2>1. CASE k \in 1 .. Len(n.tiles[b])
    <3>1. PICK p \in 1 .. N : n.interchange[p] = TileLoop(b, k)
      BY <1>1, <2>1 DEF LoopsOf
    <3>2. p \in 1 .. N + 1
      BY <1>1
    <3> QED
      BY <1>1, <3>1, <3>2
  <2>2. CASE k \notin 1 .. Len(n.tiles[b])
    <3>1. l.kind = "tile" /\ l.axis = b /\ k = l.n
      BY <1>3, <2>2
    <3>2. l = TileLoop(b, k)
      BY <3>1 DEF LoopTypes, TileLoop
    <3>3. N + 1 \in 1 .. N + 1
      BY <1>1
    <3> QED
      BY <1>1, <3>2, <3>3
  <2> QED
    BY <2>1, <2>2
<1>5. ASSUME NEW p \in 1 .. N + 1
      PROVE  LET h == new.interchange[p] IN
             /\ h.kind = "tile"  => h.n \in 1 .. Len(new.tiles[h.axis])
             /\ h.kind = "split" => h.n \in 1 .. Len(new.splits[h.axis])
  <2>1. CASE p = N + 1
    <3>1. l.kind = "tile" => l.n \in 1 .. Len(new.tiles[l.axis])
      BY <1>2, <1>3
    <3> QED
      BY <1>1, <2>1, <3>1
  <2>2. CASE p # N + 1
    <3> DEFINE h == n.interchange[p]
    <3>1. p \in 1 .. N
      BY <1>1, <2>2
    <3>2. /\ h.axis \in Dims /\ h.n \in Nat
          /\ h.kind = "tile"  => h.n \in 1 .. Len(n.tiles[h.axis])
          /\ h.kind = "split" => h.n \in 1 .. Len(n.splits[h.axis])
      BY <1>1, <3>1 DEF LoopsOf, LoopTypes
    <3>3. new.interchange[p] = h
      BY <1>1, <3>1
    <3> HIDE DEF h
    <3>4. /\ h.kind = "tile"  => h.n \in 1 .. Len(new.tiles[h.axis])
          /\ h.kind = "split" => h.n \in 1 .. Len(new.splits[h.axis])
      BY <1>3, <3>2, SMTT(30)
    <3> QED
      BY <3>3, <3>4
  <2> QED
    BY <2>1, <2>2
<1>6. ASSUME NEW p \in 1 .. N + 1, NEW q \in 1 .. N + 1, p < q,
             new.interchange[p].kind = "tile", new.interchange[q].kind = "tile",
             new.interchange[p].axis = new.interchange[q].axis
      PROVE  new.interchange[p].n < new.interchange[q].n
  <2>1. p \in 1 .. N /\ new.interchange[p] = n.interchange[p]
    BY <1>1, <1>6
  <2>2. CASE q = N + 1
    <3>1. new.interchange[q] = l /\ l.kind = "tile" /\ n.interchange[p].axis = l.axis
      BY <1>1, <1>6, <2>1, <2>2
    <3>2. n.interchange[p].n \in 1 .. Len(n.tiles[l.axis])
      BY <1>1, <1>6, <2>1, <3>1 DEF LoopsOf
    <3>3. l.n = Len(n.tiles[l.axis]) + 1 /\ Len(n.tiles[l.axis]) \in Nat
      BY <1>2, <1>3, <3>1
    <3> QED
      BY <2>1, <3>1, <3>2, <3>3
  <2>3. CASE q # N + 1
    <3>1. q \in 1 .. N
      BY <1>1, <2>3
    <3> QED
      BY <1>1, <1>6, <2>1, <3>1 DEF LoopsOf
  <2> QED
    BY <2>2, <2>3
<1> QED
  BY <1>1, <1>4, <1>5, <1>6 DEF LoopsOf

\* What a node is the content of stays as it was written when segments are added.
Grows(n, new) ==
  /\ new.parent = n.parent /\ new.segment = n.segment /\ new.origin = n.origin
  /\ \A a \in Dims : \A k \in 1 .. Len(n.splits[a]) :
       /\ k \in 1 .. Len(new.splits[a]) /\ new.splits[a][k] = n.splits[a][k]
       /\ new.asked[a][k] = n.asked[a][k] /\ new.bounded[a][k] = n.bounded[a][k]

\* A node stays the content of its segment when the nodes only grow.
LEMMA ContentKept ==
  ASSUME NEW m \in 1 .. Len(nest), Len(nest) \in Nat, Content(m),
         nest[m].origin.axis \in Dims \cup {NoAxis},
         \A x \in 1 .. Len(nest) : Grows(nest[x], nest'[x])
  PROVE  Content(m)'
<1> DEFINE n == nest[m]
<1> SUFFICES ASSUME nest'[m].origin.axis # NoAxis
             PROVE  LET new == nest'[m]  above == nest'[new.parent]  a == new.origin.axis IN
                    /\ new.parent \in 1 .. m - 1
                    /\ new.segment \in 1 .. Len(above.splits[a])
                    /\ new.origin.start = above.splits[a][new.segment]
                    /\ above.bounded[a][new.segment] => new.origin.end = above.asked[a][new.segment]
  BY DEF Content
<1>1. nest'[m].parent = n.parent /\ nest'[m].segment = n.segment /\ nest'[m].origin = n.origin
  BY DEF Grows
<1>2. /\ n.origin.axis \in Dims /\ n.parent \in 1 .. m - 1
      /\ n.segment \in 1 .. Len(nest[n.parent].splits[n.origin.axis])
      /\ n.origin.start = nest[n.parent].splits[n.origin.axis][n.segment]
      /\ nest[n.parent].bounded[n.origin.axis][n.segment] =>
           n.origin.end = nest[n.parent].asked[n.origin.axis][n.segment]
  BY <1>1 DEF Content
<1>3. Grows(nest[n.parent], nest'[n.parent])
  <2>1. ASSUME NEW N \in Nat, NEW x \in 1 .. N, NEW p \in 1 .. x - 1 PROVE p \in 1 .. N
    OBVIOUS
  <2>2. n.parent \in 1 .. m - 1
    BY <1>2
  <2> HIDE DEF n
  <2>3. n.parent \in 1 .. Len(nest)
    BY <2>1, <2>2
  <2> QED
    BY <2>3
<1>4. LET above == nest[n.parent]  next == nest'[n.parent]  a == n.origin.axis  k == n.segment IN
      /\ k \in 1 .. Len(next.splits[a]) /\ next.splits[a][k] = above.splits[a][k]
      /\ next.asked[a][k] = above.asked[a][k] /\ next.bounded[a][k] = above.bounded[a][k]
  BY <1>2, <1>3 DEF Grows
<1> HIDE DEF n
<1> QED
  BY <1>1, <1>2, <1>4

\* A node that has just been made.
LEMMA FreshNode ==
  ASSUME NEW parent, NEW segment, NEW origin, NEW loops \in Seq(LoopTypes),
         \A p \in DOMAIN loops : loops[p].kind = "axis",
         NEW n, n = Node(parent, segment, origin, loops)
  PROVE  /\ LoopsOf(n) /\ \A a \in Dims : Chained(n, a, 0)
         /\ n.parent = parent /\ n.segment = segment /\ n.origin = origin
<1>1. /\ n.interchange = loops /\ n.parent = parent /\ n.segment = segment /\ n.origin = origin
      /\ \A a \in Dims : n.tiles[a] = << >> /\ n.splits[a] = << >> /\ n.asked[a] = << >>
                         /\ n.bounded[a] = << >>
  BY DEF Node
<1>2. Len(<< >>) = 0
  OBVIOUS
<1>3. LoopsOf(n)
  BY <1>1, <1>2 DEF LoopsOf
<1>4. \A a \in Dims : Chained(n, a, 0)
  <2> TAKE a \in Dims
  <2>1. n.splits[a] = << >> /\ Len(n.splits[a]) = 0 /\ Len(n.asked[a]) = 0 /\ Len(n.bounded[a]) = 0
    BY <1>1, <1>2
  <2>2. 1 .. 0 = {} /\ 1 .. 0 - 1 = {}
    OBVIOUS
  <2> QED
    BY <2>1, <2>2 DEF Chained
<1> QED
  BY <1>1, <1>3, <1>4

\* Nothing else changes in what is below a node that is not touched.
LEMMA SameGrows ==
  ASSUME NEW n, NEW new, new = n
  PROVE  Grows(n, new)
BY DEF Grows

\* A segment that begins at the cut, and ends no earlier than it begins, keeps the invariant.
LEMMA SegmentInv ==
  ASSUME IInv, stage = "interpret", dimSize' = dimSize, items' \in Nat,
         NEW a \in Dims, NEW start \in Nat, start = top.cut[a],
         NEW cut \in Positions, cut # None => start <= cut,
         NEW nodeEnd \in Positions,
         NEW isBounded \in BOOLEAN, isBounded => cut # None /\ nodeEnd = cut,
         AddSegment(a, start, cut, nodeEnd, isBounded)
  PROVE  IInv'
<1> DEFINE N     == Len(nest)
           F     == Len(frames)
           k     == Len(node.splits[a]) + 1
           new   == nest'[top.node]
           child == nest'[N + 1]
<1>1. Types /\ Stack /\ Segments /\ Tree
  BY DEF IInv
<1>2. /\ nest' \in Seq(NodeTypes) /\ Len(nest') = N + 1 /\ new \in NodeTypes
      /\ \A m \in 1 .. N : m # top.node => nest'[m] = nest[m]
      /\ new.parent = node.parent /\ new.segment = node.segment /\ new.origin = node.origin
      /\ new.tiles = node.tiles
      /\ new.splits  = [node.splits EXCEPT ![a] = Append(@, start)]
      /\ new.asked   = [node.asked EXCEPT ![a] = Append(@, cut)]
      /\ new.bounded = [node.bounded EXCEPT ![a] = Append(@, isBounded)]
      /\ new.interchange = Append(node.interchange, SplitLoop(a, k))
      /\ child = Node(top.node, k, [axis |-> a, start |-> start, end |-> nodeEnd], <<AxisLoop(a)>>)
      /\ frames' \in Seq(FrameTypes) /\ Len(frames') = F + 1
      /\ frames'[1] = Frame(N + 1, top.sizes)
      /\ frames'[2] = [top EXCEPT !.cut[a] = cut]
      /\ \A i \in 3 .. F + 1 : frames'[i] = frames[i - 1]
  <2>1. SegmentAdded(a, start, cut, nodeEnd, isBounded)
    BY <1>1, SegmentEffect
  <2> HIDE DEF N, F, k, new, child
  <2> QED
    BY <2>1 DEF SegmentAdded, N, F, k, new, child
<1>3. /\ N \in Nat /\ F \in Nat \ {0} /\ top = frames[1] /\ top \in FrameTypes
      /\ top.node \in 1 .. N /\ node = nest[top.node] /\ node \in NodeTypes
      /\ DOMAIN nest = 1 .. N /\ DOMAIN frames = 1 .. F
      /\ \A m \in 1 .. N : nest[m] \in NodeTypes
      /\ \A i \in 1 .. F : frames[i] \in FrameTypes
  BY <1>1, TopShape, NestShape DEF node
<1>4. DOMAIN nest' = 1 .. N + 1 /\ DOMAIN frames' = 1 .. F + 1
  <2> HIDE DEF N, F, new, child, k
  <2> QED
    BY <1>2, LenProperties
<1>5. k \in Nat \ {0} /\ k = Len(node.splits[a]) + 1 /\ Len(node.splits[a]) \in Nat
  BY <1>3, NodeShape
<1>6. /\ LoopsOf(child) /\ \A b \in Dims : Chained(child, b, 0)
      /\ child.parent = top.node /\ child.segment = k
      /\ child.origin = [axis |-> a, start |-> start, end |-> nodeEnd]
  <2>1. AxisLoop(a) \in LoopTypes /\ AxisLoop(a).kind = "axis"
    BY DEF AxisLoop, LoopTypes
  <2>2. <<AxisLoop(a)>> \in Seq(LoopTypes) /\ \A p \in DOMAIN <<AxisLoop(a)>> : <<AxisLoop(a)>>[p].kind = "axis"
    BY <2>1
  <2> DEFINE origin == [axis |-> a, start |-> start, end |-> nodeEnd]
             loops  == <<AxisLoop(a)>>
  <2>3. child = Node(top.node, k, origin, loops)
    BY <1>2
  <2>4. loops \in Seq(LoopTypes) /\ \A p \in DOMAIN loops : loops[p].kind = "axis"
    BY <2>2
  <2> HIDE DEF child, k, origin, loops
  <2>5. /\ LoopsOf(child) /\ \A b \in Dims : Chained(child, b, 0)
        /\ child.parent = top.node /\ child.segment = k /\ child.origin = origin
    BY <2>3, <2>4, FreshNode
  <2> QED
    BY <2>5 DEF origin
<1>7. /\ new.splits[a] = Append(node.splits[a], start) /\ new.asked[a] = Append(node.asked[a], cut)
      /\ new.bounded[a] = Append(node.bounded[a], isBounded)
      /\ \A b \in Dims : b # a => /\ new.splits[b] = node.splits[b] /\ new.asked[b] = node.asked[b]
                                  /\ new.bounded[b] = node.bounded[b]
  <2>1. /\ node.splits \in [Dims -> Seq(Nat)] /\ node.asked \in [Dims -> Seq(Positions)]
        /\ node.bounded \in [Dims -> Seq(BOOLEAN)]
    BY <1>3 DEF NodeTypes
  <2> HIDE DEF new
  <2> QED
    BY <1>2, <2>1
<1>8. /\ frames'[1].node = N + 1 /\ \A b \in Dims : frames'[1].cut[b] = 0
      /\ frames'[2].node = top.node /\ frames'[2].cut[a] = cut
      /\ \A b \in Dims : b # a => frames'[2].cut[b] = top.cut[b]
  <2> HIDE DEF N, F, new, child, k
  <2>1. frames'[1] = Frame(N + 1, top.sizes) /\ frames'[2] = [top EXCEPT !.cut[a] = cut]
    BY <1>2
  <2>2. frames'[1].node = N + 1 /\ \A b \in Dims : frames'[1].cut[b] = 0
    BY <2>1 DEF Frame
  <2>3. /\ frames'[2].node = top.node /\ frames'[2].cut[a] = cut
        /\ \A b \in Dims : b # a => frames'[2].cut[b] = top.cut[b]
    BY <1>3, <2>1 DEF FrameTypes
  <2> QED
    BY <2>2, <2>3
<1> HIDE DEF N, F, new, child, k
<1>9. \A i \in 3 .. F + 1 : frames'[i] = frames[i - 1]
  BY <1>2
<1>10. Types'
  BY <1>1, <1>2 DEF Types, AddSegment
<1>11. Stack'
  <2>1. stage' = "interpret" /\ frames' # << >>
    <3>1. Len(frames') # 0
      <4>1. Len(frames') = F + 1
        BY <1>2
      <4> QED
        BY <1>3, <4>1
    <3> QED
      BY <1>2, <3>1, EmptySeq DEF AddSegment
  <2>2. ASSUME NEW i \in 1 .. F + 1
        PROVE  \/ i = 1 /\ frames'[i].node = N + 1
               \/ i # 1 /\ i - 1 \in 1 .. F /\ frames'[i].node = frames[i - 1].node
    <3>1. i = 1 \/ i = 2 \/ i \in 3 .. F + 1
      BY <1>3
    <3>2. ASSUME i \in 3 .. F + 1 PROVE i # 1 /\ i - 1 \in 1 .. F
      BY <1>3, <3>2
    <3> QED
      <4>1. CASE i = 1
        BY <1>8, <4>1
      <4>2. CASE i = 2
        BY <1>3, <1>8, <4>2
      <4>3. CASE i \in 3 .. F + 1
        <5>1. frames'[i] = frames[i - 1]
          BY <1>9, <4>3
        <5> QED
          BY <3>2, <4>3, <5>1
      <4> QED
        BY <3>1, <4>1, <4>2, <4>3
  <2>3. \A i \in 1 .. F : frames[i].node \in 1 .. N
    BY <1>1, <1>3 DEF Stack
  <2>4. ASSUME NEW i \in 1 .. F + 1 PROVE frames'[i].node \in 1 .. N + 1
    BY <1>3, <2>2, <2>3, SMTT(30)
  <2>5. ASSUME NEW i \in 1 .. F + 1, NEW j \in 1 .. F + 1, i < j
        PROVE  frames'[j].node < frames'[i].node
    <3>1. j # 1 /\ j - 1 \in 1 .. F /\ frames'[j].node = frames[j - 1].node
      BY <1>3, <2>2, <2>5
    <3>2. CASE i = 1
      BY <1>3, <1>8, <2>3, <3>1, <3>2
    <3>3. CASE i # 1
      <4>1. i - 1 \in 1 .. F /\ frames'[i].node = frames[i - 1].node /\ i - 1 < j - 1
        BY <1>3, <2>2, <2>5, <3>3
      <4> QED
        BY <1>1, <1>3, <3>1, <4>1 DEF Stack
    <3> QED
      BY <3>2, <3>3
  <2> QED
    BY <1>4, <2>1, <2>4, <2>5 DEF Stack
<1>12. \A i \in 2 .. F : frames[i].node \in 1 .. N /\ frames[i].node # top.node
  <2> TAKE i \in 2 .. F
  <2>1. 1 \in 1 .. F /\ i \in 1 .. F /\ 1 < i
    BY <1>3
  <2>2. frames[i].node < frames[1].node /\ frames[i].node \in 1 .. N
    BY <1>1, <1>3, <2>1 DEF Stack
  <2> QED
    BY <1>3, <2>2
<1>13. \A b \in Dims : Chained(new, b, frames'[2].cut[b])
  <2> TAKE b \in Dims
  <2>1. Chained(node, b, top.cut[b])
    BY <1>1, <1>3 DEF Segments
  <2>2. CASE b = a
    <3>1. Chained(node, a, start) /\ new \in NodeTypes /\ node \in NodeTypes
      BY <1>2, <1>3, <2>1, <2>2
    <3>2. /\ new.splits[a] = Append(node.splits[a], start) /\ new.asked[a] = Append(node.asked[a], cut)
          /\ new.bounded[a] = Append(node.bounded[a], isBounded)
      BY <1>7
    <3>3. Chained(new, a, cut)
      BY <3>1, <3>2, ChainExtended
    <3> QED
      BY <1>8, <2>2, <3>3
  <2>3. CASE b # a
    BY <1>7, <1>8, <2>1, <2>3, ZenonT(60) DEF Chained
  <2> QED
    BY <2>2, <2>3
<1>14. Segments'
  <2>1. ASSUME NEW i \in 1 .. F + 1, NEW b \in Dims
        PROVE  Chained(nest'[frames'[i].node], b, frames'[i].cut[b])
    <3>1. CASE i = 1
      BY <1>6, <1>8, <3>1 DEF child
    <3>2. CASE i = 2
      BY <1>8, <1>13, <3>2 DEF new
    <3>3. CASE i \in 3 .. F + 1
      <4>1. i - 1 \in 2 .. F /\ i - 1 \in 1 .. F
        BY <1>3, <3>3
      <4>2. frames'[i] = frames[i - 1] /\ nest'[frames[i - 1].node] = nest[frames[i - 1].node]
        BY <1>2, <1>12, <3>3, <4>1
      <4> QED
        BY <1>1, <1>3, <4>1, <4>2 DEF Segments
    <3> QED
      BY <1>3, <3>1, <3>2, <3>3
  <2>2. ASSUME NEW m \in 1 .. N + 1, NEW b \in Dims, \A i \in 1 .. F + 1 : frames'[i].node # m
        PROVE  \E end \in {None, 0, dimSize} : Chained(nest'[m], b, end)
    <3>1. m # N + 1 /\ m # top.node
      <4>1. 1 \in 1 .. F + 1 /\ 2 \in 1 .. F + 1
        BY <1>3
      <4> QED
        BY <1>8, <2>2, <4>1
    <3>2. m \in 1 .. N /\ nest'[m] = nest[m]
      <4>1. \A x \in 1 .. N : x # top.node => nest'[x] = nest[x]
        BY <1>2
      <4>2. m \in 1 .. N
        BY <1>3, <3>1
      <4> QED
        BY <3>1, <4>1, <4>2
    <3>3. ASSUME NEW i \in 1 .. F, frames[i].node = m PROVE FALSE
      <4>1. i # 1
        BY <1>3, <3>1, <3>3
      <4>2. i + 1 \in 3 .. F + 1 /\ i + 1 \in 1 .. F + 1 /\ (i + 1) - 1 = i
        BY <1>3, <4>1
      <4>3. frames'[i + 1] = frames[i]
        BY <1>2, <4>2
      <4> QED
        BY <2>2, <3>3, <4>2, <4>3
    <3> QED
      BY <1>1, <1>3, <3>2, <3>3 DEF Segments
  <2> QED
    BY <1>4, <2>1, <2>2 DEF Segments
<1>15. \A x \in 1 .. N : Grows(nest[x], nest'[x])
  <2> TAKE x \in 1 .. N
  <2>1. CASE x = top.node
    <3>1. ASSUME NEW b \in Dims, NEW h \in 1 .. Len(node.splits[b])
          PROVE  /\ h \in 1 .. Len(new.splits[b]) /\ new.splits[b][h] = node.splits[b][h]
                 /\ new.asked[b][h] = node.asked[b][h] /\ new.bounded[b][h] = node.bounded[b][h]
      <4>1. CASE b # a
        BY <1>7, <4>1
      <4>2. CASE b = a
        <5>1. Len(node.asked[a]) = Len(node.splits[a]) /\ Len(node.bounded[a]) = Len(node.splits[a])
          <6>1. Chained(node, a, top.cut[a])
            BY <1>1, <1>3 DEF Segments
          <6> QED
            BY <6>1 DEF Chained
        <5>2. /\ node.splits[a] \in Seq(Nat) /\ node.asked[a] \in Seq(Positions)
              /\ node.bounded[a] \in Seq(BOOLEAN)
          BY <1>3, NodeShape
        <5>3. Len(new.splits[a]) = Len(node.splits[a]) + 1 /\ new.splits[a][h] = node.splits[a][h]
          BY <1>7, <4>2, <5>2, Appended
        <5>4. new.asked[a][h] = node.asked[a][h]
          BY <1>7, <4>2, <5>1, <5>2, Appended
        <5>5. new.bounded[a][h] = node.bounded[a][h]
          BY <1>7, <4>2, <5>1, <5>2, Appended
        <5> QED
          BY <1>5, <4>2, <5>3, <5>4, <5>5
      <4> QED
        BY <4>1, <4>2
    <3>2. new.parent = node.parent /\ new.segment = node.segment /\ new.origin = node.origin
      BY <1>2
    <3>3. Grows(node, new)
      BY <3>1, <3>2 DEF Grows
    <3> QED
      BY <1>3, <2>1, <3>3 DEF new
  <2>2. CASE x # top.node
    BY <1>2, <2>2, SameGrows
  <2> QED
    BY <2>1, <2>2
<1>16. Tree'
  <2>1. LoopsOf(nest'[N + 1])
    BY <1>6 DEF child
  <2>2. ASSUME NEW m \in {N + 1} PROVE Content(m)'
    <3>1. /\ nest'[N + 1].origin.axis = a /\ nest'[N + 1].origin.start = start
          /\ nest'[N + 1].origin.end = nodeEnd
          /\ nest'[N + 1].parent = top.node /\ nest'[N + 1].segment = k
      BY <1>6 DEF child
    <3>2. Len(new.splits[a]) = k /\ new.splits[a][k] = start
      <4>1. node.splits[a] \in Seq(Nat)
        BY <1>3, NodeShape
      <4> QED
        BY <1>5, <1>7, <4>1, Appended
    <3>3. new.asked[a][k] = cut /\ new.bounded[a][k] = isBounded
      <4>1. Len(node.asked[a]) = Len(node.splits[a]) /\ Len(node.bounded[a]) = Len(node.splits[a])
        <5>1. Chained(node, a, top.cut[a])
          BY <1>1, <1>3 DEF Segments
        <5> QED
          BY <5>1 DEF Chained
      <4>2. node.asked[a] \in Seq(Positions) /\ node.bounded[a] \in Seq(BOOLEAN)
        BY <1>3, NodeShape
      <4>3. new.asked[a][k] = cut
        <5>1. new.asked[a][Len(node.asked[a]) + 1] = cut
          BY <1>7, <4>2, Appended
        <5> QED
          BY <1>5, <4>1, <5>1
      <4>4. new.bounded[a][k] = isBounded
        <5>1. new.bounded[a][Len(node.bounded[a]) + 1] = isBounded
          BY <1>7, <4>2, Appended
        <5> QED
          BY <1>5, <4>1, <5>1
      <4> QED
        BY <4>3, <4>4
    <3>4. top.node \in 1 .. (N + 1) - 1 /\ k \in 1 .. k
      BY <1>3, <1>5
    <3> QED
      <4>1. /\ nest'[m].origin.axis = a /\ nest'[m].origin.start = start /\ nest'[m].origin.end = nodeEnd
            /\ nest'[m].parent = top.node /\ nest'[m].segment = k /\ m = N + 1
        BY <3>1
      <4>2. /\ nest'[nest'[m].parent].splits[a][k] = start /\ Len(nest'[nest'[m].parent].splits[a]) = k
            /\ nest'[nest'[m].parent].asked[a][k] = cut /\ nest'[nest'[m].parent].bounded[a][k] = isBounded
        BY <3>2, <3>3, <4>1 DEF new
      <4> QED
        BY <3>4, <4>1, <4>2 DEF Content
  <2>3. ASSUME NEW m \in 1 .. N PROVE LoopsOf(nest'[m])
    <3>1. LoopsOf(nest[m])
      BY <1>1, <1>3 DEF Tree
    <3>2. CASE m # top.node
      BY <1>2, <3>1, <3>2
    <3>3. CASE m = top.node
      <4>1. SplitLoop(a, k) \in LoopTypes /\ SplitLoop(a, k).kind = "split"
            /\ SplitLoop(a, k).n = k /\ SplitLoop(a, k).axis = a
        BY <1>5 DEF SplitLoop, LoopTypes
      <4>2. \A b \in Dims : Len(node.splits[b]) <= Len(new.splits[b])
        <5> TAKE b \in Dims
        <5>1. Len(node.splits[b]) \in Nat /\ node.splits[b] \in Seq(Nat)
          BY <1>3, NodeShape
        <5>2. CASE b = a
          <6>1. Len(new.splits[b]) = Len(node.splits[b]) + 1
            BY <1>7, <5>1, <5>2, Appended
          <6> QED
            BY <5>1, <6>1
        <5> QED
          BY <1>7, <5>1, <5>2
      <4>3. k \in 1 .. Len(new.splits[a])
        <5>1. node.splits[a] \in Seq(Nat)
          BY <1>3, NodeShape
        <5>2. Len(new.splits[a]) = k
          BY <1>5, <1>7, <5>1, Appended
        <5> QED
          BY <1>5, <5>2
      <4>4. new.interchange = Append(node.interchange, SplitLoop(a, k)) /\ new.tiles = node.tiles
        BY <1>2
      <4>5. LoopsOf(node)
        BY <1>3, <3>1, <3>3
      <4>6. LoopsOf(new)
        <5> DEFINE l == SplitLoop(a, k)
        <5>1. /\ l \in LoopTypes /\ l.kind = "split" /\ l.n = k /\ l.axis = a
              /\ new.interchange = Append(node.interchange, l)
          BY <4>1, <4>4
        <5> HIDE DEF l
        <5>2. node \in NodeTypes /\ new \in NodeTypes
          BY <1>2, <1>3
        <5>3. \A b \in Dims : Len(new.tiles[b]) = Len(node.tiles[b])
          BY <4>4
        <5>4. l.n \in 1 .. Len(new.splits[l.axis]) /\ l.kind # "tile"
          BY <4>3, <5>1
        <5> QED
          BY <4>2, <4>5, <5>1, <5>2, <5>3, <5>4, LoopAdded
      <4> QED
        BY <3>3, <4>6 DEF new
    <3> QED
      BY <3>2, <3>3
  <2>4. ASSUME NEW m \in 1 .. N PROVE Content(m)'
    <3>1. Content(m) /\ nest[m].origin.axis \in Dims \cup {NoAxis}
      BY <1>1, <1>3 DEF Tree, NodeTypes
    <3> QED
      BY <1>3, <1>15, <3>1, ContentKept DEF N
  <2>5. ASSUME NEW m \in 1 .. N + 1 PROVE m \in 1 .. N \/ m = N + 1
    BY <1>3
  <2> QED
    BY <1>4, <2>1, <2>2, <2>3, <2>4, <2>5 DEF Tree
<1> QED
  BY <1>10, <1>11, <1>14, <1>16 DEF IInv

\* A loop that is scheduled in the node of the innermost call, a tile or an axis.
LEMMA LoopInv ==
  ASSUME IInv, stage = "interpret", stage' = stage, dimSize' = dimSize, items' \in Nat,
         NEW l \in LoopTypes, NEW tiles, LoopScheduled(l, tiles),
         \A b \in Dims : (l.kind = "tile" /\ b = l.axis) \/ tiles[b] = node.tiles[b],
         l.kind = "tile" => l.n = Len(node.tiles[l.axis]) + 1 /\ Len(tiles[l.axis]) = l.n,
         l.kind # "split"
  PROVE  IInv'
<1> DEFINE N   == Len(nest)
           F   == Len(frames)
           new == nest'[top.node]
<1>1. Types /\ Stack /\ Segments /\ Tree
  BY DEF IInv
<1>2. /\ nest' \in Seq(NodeTypes) /\ Len(nest') = N /\ new \in NodeTypes
      /\ \A m \in 1 .. N : m # top.node => nest'[m] = nest[m]
      /\ new.parent = node.parent /\ new.segment = node.segment /\ new.origin = node.origin
      /\ new.tiles = tiles
      /\ new.splits = node.splits /\ new.asked = node.asked /\ new.bounded = node.bounded
      /\ new.interchange = Append(node.interchange, l)
      /\ frames' \in Seq(FrameTypes) /\ Len(frames') = F
      /\ \A i \in 1 .. F : frames'[i].node = frames[i].node /\ frames'[i].cut = frames[i].cut
  BY DEF LoopScheduled
<1>3. /\ N \in Nat /\ F \in Nat \ {0}
      /\ top.node \in 1 .. N /\ node = nest[top.node] /\ node \in NodeTypes
      /\ DOMAIN nest = 1 .. N /\ DOMAIN frames = 1 .. F
      /\ \A m \in 1 .. N : nest[m] \in NodeTypes
  BY <1>1, TopShape, NestShape DEF node
<1> HIDE DEF N, F, new
<1>4. DOMAIN nest' = 1 .. N /\ DOMAIN frames' = 1 .. F
  BY <1>2, LenProperties
<1>5. Types'
  BY <1>1, <1>2 DEF Types
<1>6. Stack'
  <2>1. frames' # << >>
    <3>1. Len(frames') # 0
      BY <1>2, <1>3
    <3> QED
      BY <1>2, <3>1, EmptySeq
  <2> QED
    BY <1>1, <1>2, <1>3, <1>4, <2>1 DEF Stack
<1>7. \A m \in 1 .. N : Grows(nest[m], nest'[m])
  <2> TAKE m \in 1 .. N
  <2>1. CASE m = top.node
    <3>1. new.parent = node.parent /\ new.segment = node.segment /\ new.origin = node.origin
          /\ new.splits = node.splits /\ new.asked = node.asked /\ new.bounded = node.bounded
      BY <1>2
    <3>2. Grows(node, new)
      BY <3>1 DEF Grows
    <3> QED
      BY <1>3, <2>1, <3>2 DEF new
  <2>2. CASE m # top.node
    BY <1>2, <2>2, SameGrows
  <2> QED
    BY <2>1, <2>2
<1>8. ASSUME NEW m \in 1 .. N, NEW b \in Dims, NEW end, Chained(nest[m], b, end)
      PROVE  Chained(nest'[m], b, end)
  <2>1. /\ nest'[m].splits = nest[m].splits /\ nest'[m].asked = nest[m].asked
        /\ nest'[m].bounded = nest[m].bounded
    BY <1>2, <1>3 DEF new
  <2> QED
    BY <1>8, <2>1 DEF Chained
<1>9. Segments'
  <2>1. ASSUME NEW i \in 1 .. F, NEW b \in Dims
        PROVE  Chained(nest'[frames'[i].node], b, frames'[i].cut[b])
    <3>1. /\ frames[i].node \in 1 .. N /\ Chained(nest[frames[i].node], b, frames[i].cut[b])
          /\ frames'[i].node = frames[i].node /\ frames'[i].cut = frames[i].cut
      BY <1>1, <1>2, <1>3 DEF Stack, Segments
    <3> QED
      BY <1>8, <3>1
  <2>2. ASSUME NEW m \in 1 .. N, NEW b \in Dims, \A i \in 1 .. F : frames'[i].node # m
        PROVE  \E end \in {None, 0, dimSize} : Chained(nest'[m], b, end)
    <3>1. \A i \in 1 .. F : frames[i].node # m
      BY <1>2, <2>2
    <3>2. PICK end \in {None, 0, dimSize} : Chained(nest[m], b, end)
      BY <1>1, <1>3, <3>1 DEF Segments
    <3> QED
      BY <1>8, <3>2
  <2> QED
    BY <1>4, <2>1, <2>2 DEF Segments
<1>10. Tree'
  <2>1. ASSUME NEW m \in 1 .. N PROVE LoopsOf(nest'[m])
    <3>1. LoopsOf(nest[m])
      BY <1>1, <1>3 DEF Tree
    <3>2. CASE m # top.node
      BY <1>2, <3>1, <3>2
    <3>3. CASE m = top.node
      <4>1. LoopsOf(node) /\ l.axis \in Dims
        BY <1>3, <3>1, <3>3 DEF LoopTypes
      <4>2. /\ node \in NodeTypes /\ new \in NodeTypes
            /\ new.interchange = Append(node.interchange, l)
            /\ new.splits = node.splits /\ new.tiles = tiles
        BY <1>2, <1>3
      <4>3. \A b \in Dims : Len(node.splits[b]) <= Len(new.splits[b])
        <5> TAKE b \in Dims
        <5>1. Len(node.splits[b]) \in Nat
          BY <1>3, NodeShape
        <5> QED
          BY <4>2, <5>1
      <4>4. \A b \in Dims : (l.kind = "tile" /\ b = l.axis) \/ Len(new.tiles[b]) = Len(node.tiles[b])
        BY <4>2
      <4>5. l.kind = "tile" => l.n = Len(node.tiles[l.axis]) + 1 /\ Len(new.tiles[l.axis]) = l.n
        BY <4>2
      <4>6. LoopsOf(new)
        BY <4>1, <4>2, <4>3, <4>4, <4>5, LoopAdded
      <4> QED
        BY <3>3, <4>6 DEF new
    <3> QED
      BY <3>2, <3>3
  <2>2. ASSUME NEW m \in 1 .. N PROVE Content(m)'
    <3>1. Content(m) /\ nest[m].origin.axis \in Dims \cup {NoAxis}
      BY <1>1, <1>3 DEF Tree, NodeTypes
    <3> QED
      BY <1>3, <1>7, <3>1, ContentKept DEF N
  <2> QED
    BY <1>4, <2>1, <2>2 DEF Tree
<1> QED
  BY <1>5, <1>6, <1>9, <1>10 DEF IInv

\* An exception leaves nothing.
LEMMA RefuseInv ==
  ASSUME IInv, Refuse, items' \in Nat, dimSize' = dimSize
  PROVE  IInv'
<1>1. Types
  BY DEF IInv
<1>2. stage' = "refused" /\ nest' = << >> /\ frames' = << >>
  BY DEF Refuse
<1>3. nest' \in Seq(NodeTypes) /\ frames' \in Seq(FrameTypes) /\ DOMAIN nest' = {} /\ DOMAIN frames' = {}
  BY <1>2, EmptySeq
<1>4. Types'
  BY <1>1, <1>2, <1>3 DEF Types
<1>5. Stack' /\ Segments' /\ Tree'
  BY <1>2, <1>3 DEF Stack, Segments, Tree
<1> QED
  BY <1>4, <1>5 DEF IInv

\* The end of a specification: its segments stop at the end of the axis.
LEMMA EndInv ==
  ASSUME IInv, EndSpec
  PROVE  IInv'
<1> DEFINE F == Len(frames)
<1>1. Types /\ Stack /\ Segments /\ Tree /\ stage = "interpret"
  BY DEF IInv, EndSpec
<1>2. /\ nest' = nest /\ frames' = Tail(frames) /\ items' = items /\ dimSize' = dimSize
      /\ stage' = IF Tail(frames) = << >> THEN "check" ELSE stage
  BY DEF EndSpec
<1>3. /\ frames' \in Seq(FrameTypes) /\ Len(frames') = F - 1 /\ F \in Nat \ {0}
      /\ \A i \in 1 .. F - 1 : frames'[i] = frames[i + 1]
      /\ DOMAIN frames' = 1 .. F - 1 /\ DOMAIN frames = 1 .. F
  <2>1. frames \in Seq(FrameTypes) /\ frames # << >>
    BY <1>1, TopShape DEF Types
  <2>2. DOMAIN frames = 1 .. F
    BY <1>1, NestShape
  <2> QED
    BY <1>2, <2>1, <2>2, WithoutTop, LenProperties
<1> HIDE DEF F
<1>4. Types'
  BY <1>1, <1>2, <1>3 DEF Types
<1>5. ASSUME NEW i \in 1 .. F - 1 PROVE i + 1 \in 1 .. F /\ frames'[i] = frames[i + 1]
  BY <1>3
<1>6. Stack'
  <2>1. stage' = "interpret" <=> frames' # << >>
    BY <1>1, <1>2
  <2>2. \A i \in 1 .. F - 1 : frames'[i].node \in DOMAIN nest
    BY <1>1, <1>3, <1>5 DEF Stack
  <2>3. ASSUME NEW i \in 1 .. F - 1, NEW j \in 1 .. F - 1, i < j
        PROVE  frames'[j].node < frames'[i].node
    <3>1. i + 1 \in 1 .. F /\ j + 1 \in 1 .. F /\ i + 1 < j + 1
      BY <1>3, <2>3
    <3> QED
      BY <1>1, <1>3, <1>5, <3>1 DEF Stack
  <2> QED
    BY <1>2, <1>3, <2>1, <2>2, <2>3 DEF Stack
<1>7. ASSUME NEW m \in DOMAIN nest, NEW b \in Dims, \A i \in 1 .. F - 1 : frames'[i].node # m
      PROVE  \E end \in {None, 0, dimSize} : Chained(nest[m], b, end)
  <2>1. CASE \E i \in 1 .. F : frames[i].node = m
    <3>1. PICK i \in 1 .. F : frames[i].node = m
      BY <2>1
    <3>2. i = 1
      <4> SUFFICES ASSUME i # 1 PROVE FALSE
        OBVIOUS
      <4>1. i - 1 \in 1 .. F - 1 /\ (i - 1) + 1 = i
        BY <1>3
      <4> QED
        BY <1>5, <1>7, <3>1, <4>1
    <3>3. frames[1] = top /\ Chained(nest[m], b, top.cut[b])
      BY <1>1, <1>3, <3>1, <3>2, TopShape DEF Segments
    <3>4. top.cut[b] \in {None, 0, dimSize}
      BY DEF EndSpec, Unachieved
    <3> QED
      BY <3>3, <3>4
  <2>2. CASE \A i \in 1 .. F : frames[i].node # m
    BY <1>1, <1>3, <2>2 DEF Segments
  <2> QED
    BY <2>1, <2>2
<1>8. Segments'
  <2>1. ASSUME NEW i \in 1 .. F - 1, NEW b \in Dims
        PROVE  Chained(nest[frames'[i].node], b, frames'[i].cut[b])
    BY <1>1, <1>3, <1>5 DEF Segments
  <2> QED
    BY <1>2, <1>3, <1>7, <2>1 DEF Segments
<1>9. Tree'
  BY <1>1, <1>2 DEF Tree, Content
<1> QED
  BY <1>4, <1>6, <1>8, <1>9 DEF IInv

\* The check changes the stage only.
LEMMA CheckInv ==
  ASSUME IInv, Check
  PROVE  IInv'
<1>1. Types /\ Stack /\ Segments /\ Tree /\ stage = "check"
  BY DEF IInv, Check
<1>2. stage' = Verdict(nest) /\ UNCHANGED <<nest, frames, items, dimSize>>
  BY DEF Check
<1>3. Verdict(nest) \in Verdicts
  BY DEF Verdict, Verdicts
<1>4. Types'
  BY <1>1, <1>2, <1>3 DEF Types
<1>5. Stack'
  BY <1>1, <1>2, <1>3 DEF Stack, Verdicts
<1>6. Segments' /\ Tree'
  BY <1>1, <1>2 DEF Segments, Tree, Content
<1> QED
  BY <1>4, <1>5, <1>6 DEF IInv

\* A specification begins with the root and its call.
LEMMA InitInv ==
  ASSUME Init
  PROVE  IInv
<1> DEFINE root == Node(0, 0, NoOrigin, << >>)
           call == Frame(1, [a \in Dims |-> IF dimSize = 0 THEN << >> ELSE <<dimSize>>])
<1>1. /\ stage = "interpret" /\ dimSize \in DimSizes /\ dimSize \in Nat /\ items = 0
      /\ nest = <<root>> /\ frames = <<call>>
  BY DescriptAssumption DEF Init
<1>2. root \in NodeTypes
  <2>1. << >> \in Seq(Nat) /\ << >> \in Seq(Positions) /\ << >> \in Seq(BOOLEAN) /\ << >> \in Seq(LoopTypes)
    BY EmptySeq
  <2>2. NoOrigin \in [axis : Dims \cup {NoAxis}, start : Nat, end : Positions]
    BY DEF NoOrigin, Positions
  <2> HIDE DEF NoOrigin
  <2> QED
    BY <2>1, <2>2 DEF NodeTypes, Node
<1>3. call \in FrameTypes
  BY <1>1 DEF FrameTypes, Frame, Positions
<1>4. /\ LoopsOf(root) /\ \A b \in Dims : Chained(root, b, 0)
      /\ root.origin = NoOrigin
  <2> DEFINE loops == << >>
  <2>1. loops \in Seq(LoopTypes) /\ \A p \in DOMAIN loops : loops[p].kind = "axis"
    BY EmptySeq
  <2>2. root = Node(0, 0, NoOrigin, loops)
    OBVIOUS
  <2> HIDE DEF root, loops
  <2> QED
    BY <2>1, <2>2, FreshNode
<1>5. call.node = 1 /\ \A b \in Dims : call.cut[b] = 0
  BY DEF Frame
<1> HIDE DEF root, call
<1>6. /\ nest \in Seq(NodeTypes) /\ frames \in Seq(FrameTypes)
      /\ DOMAIN nest = {1} /\ DOMAIN frames = {1} /\ nest[1] = root /\ frames[1] = call
      /\ frames # << >>
  <2>1. DOMAIN nest = {1} /\ DOMAIN frames = {1}
    BY <1>1
  <2> QED
    BY <1>1, <1>2, <1>3, <2>1
<1>7. Types /\ Stack
  BY <1>1, <1>5, <1>6 DEF Types, Stack
<1>8. Segments
  BY <1>4, <1>5, <1>6 DEF Segments
<1>9. Tree
  <2>1. root.origin.axis = NoAxis
    BY <1>4 DEF NoOrigin
  <2> QED
    BY <1>4, <1>6, <2>1 DEF Tree, Content
<1> QED
  BY <1>7, <1>8, <1>9 DEF IInv

\* A declaration leaves the size of the dimensions alone.
LEMMA DeclaresType ==
  ASSUME Types, Declares
  PROVE  stage = "interpret" /\ items' \in Nat /\ dimSize' = dimSize
BY DEF Declares, Types

\* The size an axis has in the innermost call is a number, or is not known.
LEMMA CurrentSizeType ==
  ASSUME NEW a \in Dims, top \in FrameTypes
  PROVE  CurrentSize(a) \in Positions
<1>1. top.sizes[a] \in Seq(Nat)
  BY DEF FrameTypes
<1>2. CASE top.sizes[a] = << >>
  BY <1>2 DEF CurrentSize, Positions
<1>3. CASE top.sizes[a] # << >>
  <2>1. Len(top.sizes[a]) \in 1 .. Len(top.sizes[a])
    BY <1>1, <1>3, LenProperties, EmptySeq
  <2>2. top.sizes[a][Len(top.sizes[a])] \in Nat
    BY <1>1, <2>1, ElementOfSeq
  <2> QED
    BY <1>3, <2>2 DEF CurrentSize, Positions
<1> QED
  BY <1>2, <1>3

\* A segment that is asked for begins at the cut, and ends no earlier than it begins.
SegmentAsked(a) ==
  \E start \in Nat, cut \in Positions, nodeEnd \in Positions, isBounded \in BOOLEAN :
    /\ start = top.cut[a] /\ (cut # None => start <= cut)
    /\ (isBounded => cut # None /\ nodeEnd = cut)
    /\ AddSegment(a, start, cut, nodeEnd, isBounded)

\* So does one that is written with its bounds,
LEMMA SplitAsked ==
  ASSUME IInv, NEW a \in Dims, NEW x \in Bounds, NEW y \in Bounds, Split(a, x, y)
  PROVE  stage = "interpret" /\ SegmentAsked(a)
<1>1. x \in Positions /\ y \in Positions
  <2>1. Cuts \subseteq Nat
    BY DescriptAssumption
  <2>2. \A v \in Bounds : v = None \/ v = 0 \/ v \in Cuts
    BY DEF Bounds
  <2>3. 0 \in Nat
    OBVIOUS
  <2>4. Bounds \subseteq Positions
    BY <2>1, <2>2, <2>3 DEF Positions
  <2> QED
    BY <2>4
<1> DEFINE start   == StartOf(a, x)
           cut     == Parsed(y)
           nodeEnd == IF Parsed(y) = None THEN CurrentSize(a) ELSE y
<1>2. /\ stage = "interpret" /\ Types /\ Stack
      /\ ~ Misplaced(a, x, y) /\ AddSegment(a, start, cut, nodeEnd, cut # None)
  BY DEF Split, Declares, IInv
<1>3. top \in FrameTypes /\ top.cut[a] \in Positions /\ CurrentSize(a) \in Positions
  <2>1. top \in FrameTypes
    BY <1>2, TopShape
  <2> QED
    BY <2>1, CurrentSizeType DEF FrameTypes
<1>4. cut \in Positions /\ (cut # None => cut = y)
  BY <1>1, LoopNestAssumption DEF Parsed, Positions
<1>5. top.cut[a] # None /\ start = top.cut[a] /\ ~ (cut # None /\ start >= cut)
  BY <1>2 DEF Misplaced
<1>6. start \in Nat /\ nodeEnd \in Positions /\ (cut # None => start <= cut)
      /\ (cut # None => cut # None /\ nodeEnd = cut)
  BY <1>1, <1>3, <1>4, <1>5 DEF Positions
<1>7. (cut # None) \in BOOLEAN
  OBVIOUS
<1> HIDE DEF start, cut, nodeEnd
<1> QED
  BY <1>2, <1>4, <1>5, <1>6, <1>7 DEF SegmentAsked

\* and one that is written with its size.
LEMMA SizedAsked ==
  ASSUME IInv, NEW a \in Dims, NEW z \in TileSizes, SplitSized(a, z)
  PROVE  stage = "interpret" /\ SegmentAsked(a)
<1> DEFINE start == top.cut[a]
<1>1. z \in Nat
  BY DescriptAssumption
<1>2. /\ stage = "interpret" /\ Types /\ Stack /\ start # None
      /\ AddSegment(a, start, start + z, CurrentSize(a), FALSE)
  BY DEF SplitSized, Declares, IInv
<1>3. top \in FrameTypes
  BY <1>2, TopShape
<1>4. start \in Nat /\ CurrentSize(a) \in Positions
  BY <1>2, <1>3, CurrentSizeType DEF FrameTypes, Positions
<1>5. start + z \in Positions /\ start <= start + z
  BY <1>1, <1>4 DEF Positions
<1> HIDE DEF start
<1> QED
  BY <1>2, <1>4, <1>5 DEF SegmentAsked, start

\* Every declaration keeps the invariant.
LEMMA NextInv ==
  ASSUME IInv, [Next]_vars
  PROVE  IInv'
<1>1. Types /\ Stack /\ Segments /\ Tree
  BY DEF IInv
<1>2. CASE UNCHANGED vars
  BY <1>1, <1>2 DEF vars, IInv, Types, Stack, Segments, Tree, Content
<1>3. ASSUME Declares PROVE stage = "interpret" /\ items' \in Nat /\ dimSize' = dimSize
  BY <1>1, <1>3, DeclaresType
<1>4. ASSUME NEW a \in Dims, SegmentAsked(a), Declares PROVE IInv'
  <2>1. PICK start \in Nat, cut \in Positions, nodeEnd \in Positions, isBounded \in BOOLEAN :
          /\ start = top.cut[a] /\ (cut # None => start <= cut)
          /\ (isBounded => cut # None /\ nodeEnd = cut)
          /\ AddSegment(a, start, cut, nodeEnd, isBounded)
    BY <1>4 DEF SegmentAsked
  <2> QED
    BY <1>3, <1>4, <2>1, SegmentInv
<1>5. ASSUME NEW a \in Dims, NEW x \in Bounds, NEW y \in Bounds, Split(a, x, y) PROVE IInv'
  BY <1>4, <1>5, SplitAsked DEF Split
<1>6. ASSUME NEW a \in Dims, NEW z \in TileSizes, SplitSized(a, z) PROVE IInv'
  BY <1>4, <1>6, SizedAsked DEF SplitSized
<1>7. ASSUME NEW a \in Dims, NEW s \in TileSizes, Tile(a, s) PROVE IInv'
  <2> DEFINE l     == TileLoop(a, Len(node.tiles[a]) + 1)
             tiles == [node.tiles EXCEPT ![a] = Append(@, s)]
  <2>1. stage = "interpret" /\ stage' = stage /\ items' \in Nat /\ dimSize' = dimSize /\ s \in Nat
    BY <1>3, <1>7, DescriptAssumption DEF Tile
  <2>2. LoopScheduled(l, tiles)
    BY <1>1, <1>7, <2>1, TileEffect
  <2>3. node \in NodeTypes /\ node.tiles \in [Dims -> Seq(Nat)] /\ Len(node.tiles[a]) \in Nat
    <3>1. node \in NodeTypes
      BY <1>1, <2>1, TopShape
    <3> QED
      BY <3>1, NodeShape DEF NodeTypes
  <2>4. l \in LoopTypes /\ l.kind = "tile" /\ l.axis = a /\ l.n = Len(node.tiles[a]) + 1
    BY <2>3 DEF TileLoop, LoopTypes
  <2>5. (\A b \in Dims : b # a => tiles[b] = node.tiles[b]) /\ Len(tiles[a]) = Len(node.tiles[a]) + 1
    <3>1. Len(Append(node.tiles[a], s)) = Len(node.tiles[a]) + 1
      BY <2>1, <2>3, AppendProperties
    <3> QED
      BY <2>3, <3>1
  <2> HIDE DEF l, tiles
  <2> QED
    BY <2>1, <2>2, <2>4, <2>5, LoopInv
<1>8. ASSUME NEW a \in Dims, Axis(a) PROVE IInv'
  <2> DEFINE l == AxisLoop(a)
  <2>1. stage = "interpret" /\ stage' = stage /\ items' \in Nat /\ dimSize' = dimSize
    BY <1>3, <1>8 DEF Axis
  <2>2. LoopScheduled(l, node.tiles)
    BY <1>1, <1>8, <2>1, AxisEffect
  <2>3. l \in LoopTypes /\ l.kind = "axis"
    BY DEF AxisLoop, LoopTypes
  <2> HIDE DEF l
  <2> QED
    BY <2>1, <2>2, <2>3, LoopInv
<1>9. ASSUME Refuse, Declares \/ UNCHANGED <<items, dimSize>> PROVE IInv'
  <2>1. items' \in Nat /\ dimSize' = dimSize
    BY <1>1, <1>3, <1>9 DEF Types
  <2> QED
    BY <1>9, <2>1, RefuseInv
<1>10. ASSUME NEW a \in Dims, NEW x \in Bounds, NEW y \in Bounds, SplitRefused(a, x, y) PROVE IInv'
  BY <1>9, <1>10 DEF SplitRefused
<1>11. ASSUME NEW a \in Dims, NEW z \in TileSizes, SplitSizedRefused(a, z) \/ TileRefused(a, z) PROVE IInv'
  BY <1>9, <1>11 DEF SplitSizedRefused, TileRefused
<1>12. ASSUME NEW a \in Dims, AxisRefused(a) PROVE IInv'
  BY <1>9, <1>12 DEF AxisRefused
<1>13. CASE EndSpecRefused
  BY <1>9, <1>13 DEF EndSpecRefused
<1> QED
  BY <1>2, <1>5, <1>6, <1>7, <1>8, <1>10, <1>11, <1>12, <1>13, EndInv, CheckInv DEF Next

\* Whatever is declared: the segments of an axis chain up to the cut of their call, and
\* the nodes hang together.
THEOREM Invariant == Spec => []IInv
<1>1. Init => IInv
  BY InitInv
<1>2. IInv /\ [Next]_vars => IInv'
  BY NextInv
<1> QED
  BY <1>1, <1>2, PTL DEF Spec

-----------------------------------------------------------------------------
(* Segments as they were written. *)

\* Induction over the natural numbers, for a set instead of a predicate.
LEMMA LeastNumber ==
  ASSUME NEW N \in SUBSET Nat, N # {}
  PROVE  \E n \in N : \A m \in N : n <= m
<1> DEFINE Lows == {1 .. n : n \in N}
<1> DEFINE R == StrictSubsetOrdering(Nat)
<1>1. Lows \subseteq FiniteSubsetsOf(Nat) /\ Lows # {}
  <2>1. \A n \in Nat : 1 .. n \in FiniteSubsetsOf(Nat)
    BY FS_Interval DEF FiniteSubsetsOf
  <2> QED
    BY <2>1
<1>2. IsWellFoundedOn(R, FiniteSubsetsOf(Nat))
  BY FS_StrictSubsetOrderingWellFounded
<1>3. \E low \in Lows : \A other \in Lows : ~ (<<other, low>> \in R)
  <2> HIDE DEF Lows, R
  <2> QED
    BY <1>1, <1>2, WFMin
<1>4. PICK n \in N : \A m \in N : ~ (<<1 .. m, 1 .. n>> \in R)
  BY <1>3
<1>5. ASSUME NEW m \in N, m < n PROVE FALSE
  <2>1. 1 .. m \subseteq 1 .. n /\ n \in 1 .. n /\ n \notin 1 .. m
    BY <1>5
  <2>2. 1 .. m \in SUBSET Nat /\ 1 .. n \in SUBSET Nat /\ 1 .. m # 1 .. n
    BY <2>1
  <2>3. \A A, B \in SUBSET Nat : A \subseteq B /\ A # B => <<A, B>> \in R
    BY DEF StrictSubsetOrdering
  <2> QED
    BY <1>4, <2>1, <2>2, <2>3
<1> QED
  BY <1>5

\* Induction from 0.
LEMMA Induction ==
  ASSUME NEW S, 0 \in S, \A n \in Nat : n \in S => n + 1 \in S
  PROVE  Nat \subseteq S
<1> SUFFICES ASSUME Nat \ S # {} PROVE FALSE
  OBVIOUS
<1>1. PICK n \in Nat \ S : \A m \in Nat \ S : n <= m
  BY LeastNumber
<1>2. n - 1 \in Nat /\ n - 1 \notin S
  BY <1>1
<1> QED
  BY <1>1, <1>2

\* A sequence that grows from one element to the next grows.
LEMMA Increasing ==
  ASSUME NEW s \in Seq(Nat), \A k \in 1 .. Len(s) - 1 : s[k] < s[k + 1]
  PROVE  \A i, j \in 1 .. Len(s) : i < j => s[i] < s[j]
<1> DEFINE S == {d \in Nat : \A i \in 1 .. Len(s) : i + d \in 1 .. Len(s) => s[i] + d <= s[i + d]}
<1>1. Len(s) \in Nat /\ \A i \in 1 .. Len(s) : s[i] \in Nat
  BY LenProperties, ElementOfSeq
<1>2. 0 \in S
  BY <1>1
<1>3. ASSUME NEW d \in Nat, d \in S PROVE d + 1 \in S
  <2> SUFFICES ASSUME NEW i \in 1 .. Len(s), i + (d + 1) \in 1 .. Len(s)
               PROVE  s[i] + (d + 1) <= s[i + (d + 1)]
    OBVIOUS
  <2>1. i + d \in 1 .. Len(s) /\ i + d \in 1 .. Len(s) - 1 /\ (i + d) + 1 = i + (d + 1)
    BY <1>1
  <2>2. s[i] + d <= s[i + d] /\ s[i + d] < s[(i + d) + 1]
    BY <1>3, <2>1
  <2>3. s[i] \in Nat /\ s[i + d] \in Nat /\ s[i + (d + 1)] \in Nat
    BY <1>1, <2>1
  <2> QED
    BY <2>1, <2>2, <2>3, SMTT(30)
<1> HIDE DEF S
<1>4. Nat \subseteq S
  BY <1>2, <1>3, Induction
<1> SUFFICES ASSUME NEW i \in 1 .. Len(s), NEW j \in 1 .. Len(s), i < j
             PROVE  s[i] < s[j]
  OBVIOUS
<1>5. j - i \in Nat /\ j - i >= 1 /\ i + (j - i) = j
  BY <1>1
<1>6. s[i] + (j - i) <= s[i + (j - i)]
  BY <1>1, <1>4, <1>5 DEF S
<1> QED
  BY <1>1, <1>5, <1>6

\* Among segments that begin further and further, each ends where the next one begins.
LEMMA EndIsNextStart ==
  ASSUME NEW n \in NodeTypes, NEW a \in Dims, NEW k \in 1 .. Len(n.splits[a]) - 1,
         \A j \in 1 .. Len(n.splits[a]) - 1 : n.splits[a][j] < n.splits[a][j + 1]
  PROVE  SegmentEnd(n, a, k) = n.splits[a][k + 1]
<1> DEFINE s     == n.splits[a]
           later == {j \in DOMAIN s : s[j] > s[k] \/ (s[j] = s[k] /\ j > k)}
           next  == CHOOSE j \in later : \A h \in later : s[j] <= s[h]
<1>1. /\ s \in Seq(Nat) /\ Len(s) \in Nat /\ DOMAIN s = 1 .. Len(s)
      /\ \A i \in 1 .. Len(s) : s[i] \in Nat
  BY NodeShape, LenProperties
<1>2. \A i, j \in 1 .. Len(s) : i < j => s[i] < s[j]
  BY <1>1, Increasing
<1>3. k \in 1 .. Len(s) /\ k + 1 \in 1 .. Len(s)
  BY <1>1
<1> HIDE DEF s
<1>4. k + 1 \in later
  BY <1>1, <1>2, <1>3
<1>5. ASSUME NEW j \in later PROVE j \in 1 .. Len(s) /\ (j = k + 1 \/ s[k + 1] < s[j])
  <2>1. j \in 1 .. Len(s) /\ (s[j] > s[k] \/ (s[j] = s[k] /\ j > k))
    BY <1>1
  <2>2. j > k
    <3> SUFFICES ASSUME j <= k PROVE FALSE
      BY <2>1, <1>3
    <3>1. j = k \/ j < k
      BY <2>1, <1>3
    <3> QED
      BY <1>1, <1>2, <1>3, <2>1, <3>1
  <2> QED
    BY <1>2, <1>3, <2>1, <2>2
<1>6. \A h \in later : s[k + 1] <= s[h]
  BY <1>1, <1>3, <1>5, SMTT(30)
<1>7. \A j \in later : (\A h \in later : s[j] <= s[h]) => j = k + 1
  <2> SUFFICES ASSUME NEW j \in later, \A h \in later : s[j] <= s[h] PROVE j = k + 1
    OBVIOUS
  <2>1. s[j] <= s[k + 1] /\ (j = k + 1 \/ s[k + 1] < s[j]) /\ j \in 1 .. Len(s)
    BY <1>4, <1>5
  <2>2. s[j] \in Nat /\ s[k + 1] \in Nat
    BY <1>1, <1>3, <2>1
  <2> HIDE DEF later
  <2> QED
    BY <2>1, <2>2
<1>8. later # {} /\ next = k + 1
  <2> HIDE DEF later
  <2> QED
    BY <1>4, <1>6, <1>7
<1>9. SegmentEnd(n, a, k) = IF later = {} THEN None ELSE s[next]
  BY DEF SegmentEnd, s
<1> HIDE DEF later, next
<1> QED
  BY <1>8, <1>9 DEF s

\* Chained segments are found again by their starts.
LEMMA SegmentsHold ==
  ASSUME IInv
  PROVE  SegmentsAsWritten
<1> SUFFICES ASSUME stage = "accepted", NEW m \in DOMAIN nest, NEW a \in Dims,
                    \A k \in DOMAIN nest[m].splits[a] : Asked(nest[m], a, k) # 0,
                    NEW k \in DOMAIN nest[m].splits[a]
             PROVE  /\ k = 1 => nest[m].splits[a][k] = 0
                    /\ IF k < Len(nest[m].splits[a])
                       THEN SegmentEnd(nest[m], a, k) = nest[m].asked[a][k]
                       ELSE nest[m].asked[a][k] \in {None, dimSize}
  BY DEF SegmentsAsWritten
<1> DEFINE n == nest[m]
           N == Len(n.splits[a])
<1>1. Types /\ Stack /\ Segments /\ Tree
  BY DEF IInv
<1>2. DOMAIN frames = {}
  BY <1>1 DEF Stack
<1>3. n \in NodeTypes
  BY <1>1, NestShape
<1>4. PICK cut \in {None, 0, dimSize} : Chained(n, a, cut)
  BY <1>1, <1>2 DEF Segments
<1> HIDE DEF n
<1>5. /\ N \in Nat /\ DOMAIN n.splits[a] = 1 .. N /\ k \in 1 .. N /\ Len(n.asked[a]) = N
      /\ \A j \in 1 .. N : n.splits[a][j] \in Nat /\ n.asked[a][j] \in Positions
      /\ n.splits[a] # << >>
  <2>1. n.splits[a] \in Seq(Nat)
    BY <1>3, NodeShape
  <2>2. DOMAIN n.splits[a] = 1 .. N /\ N \in Nat
    BY <2>1, LenProperties
  <2>3. k \in 1 .. N
    BY <2>2 DEF n
  <2> QED
    BY <1>3, <1>4, <2>2, <2>3, NodeShape DEF Chained
<1>6. /\ n.splits[a][1] = 0 /\ cut = n.asked[a][N]
      /\ \A j \in 1 .. N - 1 : n.splits[a][j + 1] = n.asked[a][j]
      /\ \A j \in 1 .. N : n.asked[a][j] # None => n.splits[a][j] <= n.asked[a][j]
  BY <1>4, <1>5 DEF Chained
<1>7. \A j \in 1 .. N : n.asked[a][j] # None => n.asked[a][j] \in Nat /\ n.splits[a][j] < n.asked[a][j]
  <2> TAKE j \in 1 .. N
  <2> SUFFICES ASSUME n.asked[a][j] # None
               PROVE  n.asked[a][j] \in Nat /\ n.splits[a][j] < n.asked[a][j]
    OBVIOUS
  <2>1. n.asked[a][j] \in Nat /\ n.splits[a][j] \in Nat /\ n.splits[a][j] <= n.asked[a][j]
    BY <1>5, <1>6 DEF Positions
  <2>2. Asked(n, a, j) # 0
    BY <1>5 DEF n
  <2>3. n.asked[a][j] - n.splits[a][j] # 0
    BY <2>2 DEF Asked, Extent
  <2> QED
    BY <2>1, <2>3
<1>8. CASE k < N
  <2>1. ASSUME NEW j \in 1 .. N - 1 PROVE n.splits[a][j] < n.splits[a][j + 1]
    <3>1. j \in 1 .. N /\ j + 1 \in 1 .. N
      BY <1>5
    <3>2. n.asked[a][j] \in Nat
      BY <1>5, <1>6, <3>1
    <3> QED
      BY <1>6, <1>7, <3>1, <3>2, LoopNestAssumption
  <2>2. k \in 1 .. N - 1
    BY <1>5, <1>8
  <2>3. SegmentEnd(n, a, k) = n.splits[a][k + 1]
    BY <1>3, <2>1, <2>2, EndIsNextStart
  <2> QED
    BY <1>6, <1>8, <2>2, <2>3 DEF n
<1>9. CASE ~ (k < N)
  <2>1. k = N
    BY <1>5, <1>9
  <2>2. cut \in {None, dimSize}
    <3> SUFFICES ASSUME cut = 0 PROVE cut = None
      OBVIOUS
    <3>1. n.asked[a][N] = 0 /\ n.splits[a][N] \in Nat /\ N \in 1 .. N
      BY <1>5, <1>6, <2>1
    <3> QED
      BY <1>7, <3>1, SMTT(30)
  <2> QED
    BY <1>6, <1>9, <2>1, <2>2 DEF n
<1> QED
  BY <1>8, <1>9

\* In a nest that is accepted the segments LoopInfo finds by sorting their starts are those
\* that were written, for any number of declarations.
THEOREM WrittenSegments == Spec => []SegmentsAsWritten
<1>1. IInv => SegmentsAsWritten
  BY SegmentsHold
<1> QED
  BY <1>1, Invariant, PTL

-----------------------------------------------------------------------------
(* What LoopNest.check finds. *)

Extents == Int \cup {None}

\* What _check_sizes keeps from loop to loop.
Known == [tile : [Dims -> Extents], split : [Dims -> Extents], larger : BOOLEAN]

\* The size of a loop, and that of the loops it is compared with.
SizeOf(n, l) == IF l.kind = "split" THEN SplitsToSizes(nest, l) ELSE LoopSize(n, l)

Around(now, l) == IF now.tile[l.axis] # None THEN now.tile[l.axis] ELSE now.split[l.axis]

\* A set of numbers up to N has a greatest one.
LEMMA GreatestNumber ==
  ASSUME NEW N \in Nat, NEW T \in SUBSET (1 .. N), T # {}
  PROVE  \E t \in T : \A u \in T : u <= t
<1> DEFINE S == {N - t : t \in T}
<1>1. S \in SUBSET Nat /\ S # {}
  <2>1. \A t \in T : N - t \in Nat
    OBVIOUS
  <2> QED
    BY <2>1
<1> HIDE DEF S
<1>2. PICK s \in S : \A r \in S : s <= r
  BY <1>1, LeastNumber
<1>3. PICK t \in T : s = N - t
  BY <1>2 DEF S
<1>4. ASSUME NEW u \in T PROVE u <= t
  <2>1. N - u \in S
    BY DEF S
  <2>2. N - t <= N - u
    BY <1>2, <1>3, <2>1
  <2> QED
    BY <2>2
<1> QED
  BY <1>4

\* A segment is as long as a number, or open.
LEMMA SegmentSizeType ==
  ASSUME NEW n \in NodeTypes, NEW a \in Dims, NEW k \in 1 .. Len(n.splits[a])
  PROVE  SegmentSize(n, a, k) \in Extents
<1> DEFINE s     == n.splits[a]
           later == {j \in DOMAIN s : s[j] > s[k] \/ (s[j] = s[k] /\ j > k)}
           next  == CHOOSE j \in later : \A h \in later : s[j] <= s[h]
<1>1. DOMAIN s = 1 .. Len(s) /\ (\A i \in 1 .. Len(s) : s[i] \in Nat) /\ k \in 1 .. Len(s)
  BY NodeShape, LenProperties
<1> HIDE DEF s
<1>2. SegmentEnd(n, a, k) = IF later = {} THEN None ELSE s[next]
  BY DEF SegmentEnd, s
<1>3. ASSUME later # {} PROVE s[next] \in Nat
  <2> DEFINE starts == {s[j] : j \in later}
  <2>1. later \subseteq 1 .. Len(s)
    BY <1>1
  <2> HIDE DEF later
  <2>2. starts \in SUBSET Nat /\ starts # {}
    BY <1>1, <1>3, <2>1
  <2> HIDE DEF starts
  <2>3. PICK least \in starts : \A x \in starts : least <= x
    BY <2>2, LeastNumber
  <2>4. PICK j \in later : least = s[j]
    BY <2>3 DEF starts
  <2>5. \A h \in later : s[j] <= s[h]
    BY <2>3, <2>4 DEF starts
  <2>6. next \in later
    BY <2>5
  <2> HIDE DEF next
  <2> QED
    BY <1>1, <2>1, <2>6
<1> HIDE DEF later, next
<1>4. SegmentEnd(n, a, k) = None \/ SegmentEnd(n, a, k) \in Nat
  BY <1>2, <1>3
<1> QED
  BY <1>1, <1>4 DEF SegmentSize, Extent, Extents, s

\* The dictionary of sizes has one for every segment of the nest.
LEMMA SplitsToSizesType ==
  ASSUME nest \in Seq(NodeTypes), NEW l \in LoopTypes, NEW m \in DOMAIN nest,
         l.n \in 1 .. Len(nest[m].splits[l.axis])
  PROVE  SplitsToSizes(nest, l) \in Extents
<1> DEFINE N == Len(nest)
           a == l.axis
           Has(x) == l.n <= Len(nest[x].splits[a])
           T == {x \in 1 .. N : Has(x)}
           last == CHOOSE x \in DOMAIN nest :
                     /\ l.n <= Len(nest[x].splits[l.axis])
                     /\ \A y \in DOMAIN nest : y > x => l.n > Len(nest[y].splits[l.axis])
<1>1. /\ N \in Nat /\ DOMAIN nest = 1 .. N /\ a \in Dims /\ l.n \in Nat
      /\ \A x \in 1 .. N : nest[x] \in NodeTypes
  BY LenProperties, ElementOfSeq DEF LoopTypes
<1>2. \A x \in 1 .. N : Len(nest[x].splits[a]) \in Nat
  BY <1>1, NodeShape
<1> HIDE DEF N
<1>3. T \in SUBSET (1 .. N) /\ m \in T /\ l.n >= 1
  BY <1>1, <1>2
<1>4. PICK t \in T : \A u \in T : u <= t
  <2> HIDE DEF T
  <2> QED
    BY <1>1, <1>3, GreatestNumber
<1>5. \A y \in DOMAIN nest : y > t => l.n > Len(nest[y].splits[l.axis])
  <2> SUFFICES ASSUME NEW y \in 1 .. N, y > t, ~ (l.n > Len(nest[y].splits[a])) PROVE FALSE
    BY <1>1
  <2>1. y \in T
    BY <1>1, <1>2
  <2>2. y <= t /\ t \in 1 .. N
    BY <1>3, <1>4, <2>1
  <2> QED
    BY <2>2
<1>6. t \in DOMAIN nest /\ l.n <= Len(nest[t].splits[l.axis])
  BY <1>1
<1>7. last \in DOMAIN nest /\ l.n <= Len(nest[last].splits[l.axis])
  BY <1>5, <1>6
<1>8. SplitsToSizes(nest, l) = SegmentSize(nest[last], l.axis, l.n)
  BY DEF SplitsToSizes
<1> HIDE DEF last
<1>9. nest[last] \in NodeTypes /\ l.n \in 1 .. Len(nest[last].splits[a]) /\ a \in Dims
  BY <1>1, <1>2, <1>3, <1>7
<1> QED
  BY <1>8, <1>9, SegmentSizeType

\* What a loop leaves of what is known.
LEMMA LoopChecked ==
  ASSUME Types, NEW m \in DOMAIN nest, LoopsOf(nest[m]), NEW p \in DOMAIN nest[m].interchange,
         NEW now \in Known, NEW n, n = nest[m], NEW l, l = n.interchange[p],
         NEW next, next = CheckLoop(nest, n, now, l)
  PROVE  /\ next \in Known /\ SizeOf(n, l) \in Extents
         /\ next.larger = (now.larger \/ (/\ SizeOf(n, l) # None /\ Around(now, l) # None
                                          /\ SizeOf(n, l) > Around(now, l)))
         /\ l.kind = "tile" => SizeOf(n, l) = n.tiles[l.axis][l.n]
         /\ next.tile = IF l.kind = "tile" THEN [now.tile EXCEPT ![l.axis] = n.tiles[l.axis][l.n]]
                        ELSE now.tile
         /\ next.split = IF l.kind = "split" /\ SizeOf(n, l) # None
                         THEN [now.split EXCEPT ![l.axis] = SizeOf(n, l)] ELSE now.split
<1> DEFINE size == SizeOf(n, l)
           more == size # None /\ Around(now, l) # None /\ size > Around(now, l)
           kept == CASE l.kind = "axis" \/ size = None -> now
                     [] l.kind = "tile"  /\ size # None -> [now EXCEPT !.tile[l.axis] = size]
                     [] l.kind = "split" /\ size # None -> [now EXCEPT !.split[l.axis] = size]
<1>1. n \in NodeTypes /\ l \in LoopTypes /\ l.axis \in Dims
  <2>1. n \in NodeTypes
    BY NestShape
  <2>2. l \in LoopTypes
    <3>1. n.interchange \in Seq(LoopTypes)
      BY <2>1 DEF NodeTypes
    <3> QED
      BY <3>1, ElementOfSeq, LenProperties
  <2> QED
    BY <2>1, <2>2 DEF LoopTypes
<1>2. l.kind \in {"axis", "tile", "split"} /\ l.n \in Nat
  BY <1>1 DEF LoopTypes
<1>3. l.kind = "tile" => size = n.tiles[l.axis][l.n] /\ size \in Nat
  <2> SUFFICES ASSUME l.kind = "tile" PROVE size = n.tiles[l.axis][l.n] /\ size \in Nat
    OBVIOUS
  <2>1. l.n \in 1 .. Len(n.tiles[l.axis]) /\ n.tiles[l.axis] \in Seq(Nat)
    BY <1>1, NodeShape DEF LoopsOf
  <2>2. n.tiles[l.axis][l.n] \in Nat
    BY <2>1, ElementOfSeq
  <2> QED
    BY <2>2 DEF SizeOf, LoopSize
<1>4. l.kind = "axis" => size = None
  BY DEF SizeOf, LoopSize
<1>5. size \in Extents
  <2>1. CASE l.kind = "split"
    <3>1. l.n \in 1 .. Len(nest[m].splits[l.axis]) /\ nest \in Seq(NodeTypes)
      BY <2>1 DEF LoopsOf, Types
    <3> QED
      BY <1>1, <2>1, <3>1, SplitsToSizesType DEF SizeOf
  <2> QED
    BY <1>2, <1>3, <1>4, <2>1 DEF Extents
<1>6. next = [kept EXCEPT !.larger = @ \/ more]
  BY DEF CheckLoop, SizeOf, Around
<1>7. l.kind = "tile" => size # None
  BY <1>3, LoopNestAssumption
<1> HIDE DEF size, more
<1>8. /\ now.tile \in [Dims -> Extents] /\ now.split \in [Dims -> Extents] /\ now.larger \in BOOLEAN
      /\ now = [tile |-> now.tile, split |-> now.split, larger |-> now.larger]
  BY DEF Known
<1>9. CASE l.kind = "axis" \/ size = None
  <2>1. kept = now
    BY <1>9, <1>4, <1>7
  <2>2. next = [now EXCEPT !.larger = @ \/ more]
    BY <1>6, <2>1
  <2>3. next \in Known /\ next.larger = (now.larger \/ more) /\ next.tile = now.tile /\ next.split = now.split
    BY <2>2 DEF Known
  <2> QED
    BY <1>3, <1>4, <1>5, <1>7, <1>9, <2>3 DEF size, more
<1>10. CASE l.kind = "tile"
  <2>1. kept = [now EXCEPT !.tile[l.axis] = size]
    BY <1>7, <1>10
  <2>2. next = [tile |-> [now.tile EXCEPT ![l.axis] = size], split |-> now.split, larger |-> (now.larger \/ more)]
    <3>1. kept = [tile |-> [now.tile EXCEPT ![l.axis] = size], split |-> now.split, larger |-> now.larger]
      BY <1>8, <2>1
    <3> HIDE DEF kept
    <3> QED
      BY <1>6, <3>1
  <2>3. [now.tile EXCEPT ![l.axis] = size] \in [Dims -> Extents]
    BY <1>1, <1>5, <1>8
  <2>4. (now.larger \/ more) \in BOOLEAN
    OBVIOUS
  <2>5. /\ next \in Known /\ next.larger = (now.larger \/ more)
        /\ next.tile = [now.tile EXCEPT ![l.axis] = size] /\ next.split = now.split
    BY <1>8, <2>2, <2>3, <2>4 DEF Known
  <2> QED
    BY <1>3, <1>5, <1>10, <2>5 DEF size, more
<1>11. CASE l.kind = "split" /\ size # None
  <2>1. kept = [now EXCEPT !.split[l.axis] = size]
    BY <1>11
  <2>2. next = [tile |-> now.tile, split |-> [now.split EXCEPT ![l.axis] = size], larger |-> (now.larger \/ more)]
    BY <1>6, <1>8, <2>1, ZenonT(60)
  <2>3. [now.split EXCEPT ![l.axis] = size] \in [Dims -> Extents]
    BY <1>1, <1>5, <1>8
  <2>4. (now.larger \/ more) \in BOOLEAN
    OBVIOUS
  <2>5. /\ next \in Known /\ next.larger = (now.larger \/ more)
        /\ next.split = [now.split EXCEPT ![l.axis] = size] /\ next.tile = now.tile
    BY <1>8, <2>2, <2>3, <2>4 DEF Known
  <2> QED
    BY <1>5, <1>11, <2>5 DEF size, more
<1> QED
  BY <1>2, <1>9, <1>10, <1>11

\* No loop takes back what was found too large before it.
LEMMA LargerKept ==
  ASSUME Types, NEW m \in DOMAIN nest, LoopsOf(nest[m]), NEW p \in DOMAIN nest[m].interchange,
         NEW now \in Known, NEW n, n = nest[m], NEW l, l = n.interchange[p],
         NEW next, next = CheckLoop(nest, n, now, l)
  PROVE  now.larger => next.larger
<1>1. /\ next \in Known /\ SizeOf(n, l) \in Extents
      /\ next.larger = (now.larger \/ (/\ SizeOf(n, l) # None /\ Around(now, l) # None
                                       /\ SizeOf(n, l) > Around(now, l)))
      /\ l.kind = "tile" => SizeOf(n, l) = n.tiles[l.axis][l.n]
      /\ next.tile = IF l.kind = "tile" THEN [now.tile EXCEPT ![l.axis] = n.tiles[l.axis][l.n]]
                     ELSE now.tile
      /\ next.split = IF l.kind = "split" /\ SizeOf(n, l) # None
                      THEN [now.split EXCEPT ![l.axis] = SizeOf(n, l)] ELSE now.split
  BY LoopChecked
<1> QED
  BY <1>1

\* A step for every number from 1 to n, on what is known so far.
FoldsOf(n, S, x, step) ==
  {f \in [0 .. n -> S] : f[0] = x /\ \A p \in 1 .. n : f[p] = step[p][f[p - 1]]}

\* Steps from x on, one after the other, as a function.
LEMMA Folded ==
  ASSUME NEW n \in Nat, NEW S, NEW x \in S, NEW step \in [1 .. n -> [S -> S]]
  PROVE  FoldsOf(n, S, x, step) # {}
<1> SUFFICES \E f \in [0 .. n -> S] : f[0] = x /\ \A p \in 1 .. n : f[p] = step[p][f[p - 1]]
  BY DEF FoldsOf
<1> DEFINE Good(k, f) == f[0] = x /\ \A p \in 1 .. k : f[p] = step[p][f[p - 1]]
           K == {k \in Nat : k <= n => \E f \in [0 .. k -> S] : Good(k, f)}
<1>1. 0 \in K
  <2> DEFINE f == [i \in 0 .. 0 |-> x]
  <2>1. f \in [0 .. 0 -> S] /\ Good(0, f)
    OBVIOUS
  <2> QED
    BY <2>1
<1>2. ASSUME NEW k \in Nat, k \in K PROVE k + 1 \in K
  <2> SUFFICES ASSUME k + 1 <= n PROVE \E f \in [0 .. k + 1 -> S] : Good(k + 1, f)
    OBVIOUS
  <2>1. PICK g \in [0 .. k -> S] : Good(k, g)
    BY <1>2
  <2> DEFINE f == [i \in 0 .. k + 1 |-> IF i = k + 1 THEN step[k + 1][g[k]] ELSE g[i]]
  <2>2. k + 1 \in 1 .. n /\ k \in 0 .. k /\ k + 1 \in 0 .. k + 1
    OBVIOUS
  <2>3. step[k + 1][g[k]] \in S
    BY <2>1, <2>2
  <2>4. f \in [0 .. k + 1 -> S]
    <3>1. ASSUME NEW i \in 0 .. k + 1, i # k + 1 PROVE i \in 0 .. k
      BY <3>1
    <3> QED
      BY <2>1, <2>3, <3>1
  <2>5. f[0] = x
    <3>1. 0 \in 0 .. k + 1 /\ 0 # k + 1
      OBVIOUS
    <3> QED
      BY <2>1, <3>1
  <2>6. ASSUME NEW p \in 1 .. k + 1 PROVE f[p] = step[p][f[p - 1]]
    <3>1. p \in 0 .. k + 1 /\ p - 1 \in 0 .. k + 1 /\ p - 1 # k + 1 /\ f[p - 1] = g[p - 1]
      OBVIOUS
    <3>2. CASE p = k + 1
      <4>1. p - 1 = k
        BY <3>2
      <4> QED
        BY <3>1, <3>2, <4>1
    <3>3. CASE p # k + 1
      <4>1. p \in 1 .. k /\ f[p] = g[p]
        BY <3>1, <3>3
      <4> QED
        BY <2>1, <3>1, <4>1
    <3> QED
      BY <3>2, <3>3
  <2> HIDE DEF f
  <2> QED
    BY <2>4, <2>5, <2>6
<1> HIDE DEF K
<1>3. n \in K
  BY <1>1, <1>2, Induction
<1> QED
  BY <1>3 DEF K

\* What is known when the loops of a node are reached.
Entered(now, n) ==
  [now EXCEPT !.tile = [a \in Dims |-> None],
              !.split = IF n.origin.axis = NoAxis THEN @
                        ELSE [@ EXCEPT ![n.origin.axis] = Extent(n.origin.start, n.origin.end)]]

\* A node is entered without tiles, its own axis as long as its segment.
LEMMA EnteredType ==
  ASSUME NEW n \in NodeTypes, NEW now \in Known
  PROVE  /\ Entered(now, n) \in Known /\ Entered(now, n).larger = now.larger
         /\ \A a \in Dims : Entered(now, n).tile[a] = None
         /\ n.origin.axis # NoAxis =>
              Entered(now, n).split[n.origin.axis] = Extent(n.origin.start, n.origin.end)
<1> DEFINE o == n.origin
           unknown == [a \in Dims |-> None]
           segments == IF o.axis = NoAxis THEN now.split
                    ELSE [now.split EXCEPT ![o.axis] = Extent(o.start, o.end)]
<1>1. o.axis \in Dims \cup {NoAxis} /\ o.start \in Nat /\ o.end \in Positions
  BY DEF NodeTypes
<1>2. Extent(o.start, o.end) \in Extents
  BY <1>1 DEF Extent, Extents, Positions
<1>3. /\ now.tile \in [Dims -> Extents] /\ now.split \in [Dims -> Extents] /\ now.larger \in BOOLEAN
      /\ now = [tile |-> now.tile, split |-> now.split, larger |-> now.larger]
  BY DEF Known
<1>4. unknown \in [Dims -> Extents] /\ segments \in [Dims -> Extents]
  <2>1. None \in Extents
    BY DEF Extents
  <2>2. unknown \in [Dims -> Extents]
    BY <2>1
  <2> QED
    BY <1>1, <1>2, <1>3, <2>2
<1>5. Entered(now, n) = [now EXCEPT !.tile = unknown, !.split = segments]
  BY DEF Entered
<1>6. o.axis # NoAxis => segments[o.axis] = Extent(o.start, o.end)
  BY <1>1, <1>3
<1>7. \A a \in Dims : unknown[a] = None
  OBVIOUS
<1> HIDE DEF o, unknown, segments
<1>8. Entered(now, n) = [tile |-> unknown, split |-> segments, larger |-> now.larger]
  BY <1>3, <1>5
<1> QED
  BY <1>3, <1>4, <1>6, <1>7, <1>8 DEF Known, o

\* The loops of a node are checked one after the other.
LEMMA NodeChecked ==
  ASSUME Types, NEW m \in DOMAIN nest, LoopsOf(nest[m]), NEW now \in Known,
         NEW n, n = nest[m], NEW L, L = Len(n.interchange)
  PROVE  \E f \in [0 .. L -> Known] :
           /\ f[0] = Entered(now, n)
           /\ \A p \in 1 .. L : f[p] = CheckLoop(nest, n, f[p - 1], n.interchange[p])
           /\ CheckNode(nest, now, n) = f[L]
<1> DEFINE step == [p \in 1 .. L |-> [k \in Known |-> CheckLoop(nest, n, k, n.interchange[p])]]
           Is(f) == f = [p \in 0 .. L |-> IF p = 0 THEN Entered(now, n)
                                          ELSE CheckLoop(nest, n, f[p - 1], n.interchange[p])]
           after == CHOOSE f : Is(f)
<1>1. n \in NodeTypes /\ L \in Nat /\ DOMAIN n.interchange = 1 .. L
  <2>1. n \in NodeTypes
    BY NestShape
  <2> QED
    BY <2>1, LenProperties DEF NodeTypes
<1>2. ASSUME NEW p \in 1 .. L, NEW k \in Known
      PROVE  CheckLoop(nest, n, k, n.interchange[p]) \in Known
  BY <1>1, LoopChecked
<1>3. step \in [1 .. L -> [Known -> Known]]
  BY <1>2
<1>4. Entered(now, n) \in Known
  BY <1>1, EnteredType
<1>5. PICK g \in [0 .. L -> Known] : g[0] = Entered(now, n) /\ \A p \in 1 .. L : g[p] = step[p][g[p - 1]]
  <2> HIDE DEF step
  <2>1. FoldsOf(L, Known, Entered(now, n), step) # {}
    BY <1>1, <1>3, <1>4, Folded
  <2> QED
    BY <2>1 DEF FoldsOf
<1>6. Is(g)
  <2>1. ASSUME NEW p \in 0 .. L
        PROVE  g[p] = IF p = 0 THEN Entered(now, n) ELSE CheckLoop(nest, n, g[p - 1], n.interchange[p])
    <3>1. CASE p = 0
      BY <1>5, <3>1
    <3>2. CASE p # 0
      <4>1. p \in 1 .. L /\ p - 1 \in 0 .. L
        BY <1>1, <3>2
      <4>2. g[p - 1] \in Known
        BY <4>1
      <4> QED
        BY <1>5, <3>2, <4>1, <4>2
    <3> QED
      BY <3>1, <3>2
  <2> HIDE DEF step
  <2> QED
    BY <2>1
<1>7. Is(after)
  BY <1>6
<1>8. CheckNode(nest, now, n) = after[L]
  BY DEF CheckNode, Entered
<1> HIDE DEF after
<1>9. after[0] = Entered(now, n) /\ \A p \in 1 .. L : after[p] = CheckLoop(nest, n, after[p - 1], n.interchange[p])
  <2>1. 0 \in 0 .. L /\ \A p \in 1 .. L : p \in 0 .. L /\ p # 0
    BY <1>1
  <2> HIDE DEF Is
  <2>2. after[0] = Entered(now, n)
    BY <1>7, <2>1 DEF Is
  <2>3. ASSUME NEW p \in 1 .. L PROVE after[p] = CheckLoop(nest, n, after[p - 1], n.interchange[p])
    BY <1>7, <2>1 DEF Is
  <2> QED
    BY <2>2, <2>3
<1>10. DOMAIN after = 0 .. L /\ after = [p \in 0 .. L |-> after[p]]
  BY <1>7
<1>11. \A p \in 0 .. L : after[p] \in Known
  <2> DEFINE S == {p \in Nat : p <= L => after[p] \in Known}
  <2>1. 0 \in S
    BY <1>4, <1>9
  <2>2. ASSUME NEW p \in Nat, p \in S PROVE p + 1 \in S
    <3> SUFFICES ASSUME p + 1 <= L PROVE after[p + 1] \in Known
      OBVIOUS
    <3>1. p + 1 \in 1 .. L /\ (p + 1) - 1 = p /\ after[p] \in Known
      BY <1>1, <2>2
    <3> QED
      BY <1>2, <1>9, <3>1
  <2> HIDE DEF S
  <2>3. Nat \subseteq S
    BY <2>1, <2>2, Induction
  <2> QED
    BY <1>1, <2>3 DEF S
<1>12. after \in [0 .. L -> Known]
  BY <1>10, <1>11
<1> QED
  BY <1>8, <1>9, <1>12

\* Nodes are checked one after the other; what is found too large once stays so.
LEMMA NestChecked ==
  ASSUME Types, Tree, ~ TooLarge(nest), NEW m \in DOMAIN nest
  PROVE  \E now \in Known : ~ CheckNode(nest, now, nest[m]).larger
<1> DEFINE N == Len(nest)
           unknown == [a \in Dims |-> None]
           start == [tile |-> unknown, split |-> unknown, larger |-> FALSE]
           step == [x \in 1 .. N |-> [now \in Known |-> CheckNode(nest, now, nest[x])]]
           Is(f) == f = [x \in 0 .. N |-> IF x = 0 THEN start ELSE CheckNode(nest, f[x - 1], nest[x])]
           after == CHOOSE f : Is(f)
<1>1. N \in Nat /\ DOMAIN nest = 1 .. N
  BY NestShape
<1>2. start \in Known
  <2>1. None \in Extents
    BY DEF Extents
  <2> QED
    BY <2>1 DEF Known
<1>3. ASSUME NEW x \in 1 .. N, NEW now \in Known
      PROVE  /\ CheckNode(nest, now, nest[x]) \in Known
             /\ now.larger => CheckNode(nest, now, nest[x]).larger
  <2> DEFINE n == nest[x]
             L == Len(n.interchange)
  <2>1. LoopsOf(n) /\ n \in NodeTypes
    BY <1>1, NestShape DEF Tree
  <2>2. L \in Nat /\ DOMAIN n.interchange = 1 .. L
    BY <2>1, LenProperties DEF NodeTypes
  <2> HIDE DEF n, L
  <2>3. PICK f \in [0 .. L -> Known] :
          /\ f[0] = Entered(now, n)
          /\ \A p \in 1 .. L : f[p] = CheckLoop(nest, n, f[p - 1], n.interchange[p])
          /\ CheckNode(nest, now, n) = f[L]
    BY <1>1, <2>1, NodeChecked, SMTT(30) DEF n, L
  <2>4. ASSUME NEW p \in 1 .. L, f[p - 1].larger PROVE f[p].larger
    <3>1. p - 1 \in 0 .. L /\ p \in DOMAIN nest[x].interchange
      BY <2>2 DEF n
    <3>2. f[p - 1] \in Known /\ f[p] = CheckLoop(nest, n, f[p - 1], n.interchange[p])
      BY <2>3, <3>1
    <3>3. x \in DOMAIN nest /\ LoopsOf(nest[x]) /\ n = nest[x]
      BY <1>1, <2>1 DEF n
    <3> QED
      BY <2>4, <3>1, <3>2, <3>3, LargerKept
  <2> DEFINE S == {p \in Nat : p <= L => (now.larger => f[p].larger)}
  <2>5. 0 \in S
    BY <2>1, <2>3, EnteredType
  <2>6. ASSUME NEW p \in Nat, p \in S PROVE p + 1 \in S
    <3> SUFFICES ASSUME p + 1 <= L, now.larger PROVE f[p + 1].larger
      OBVIOUS
    <3>1. p + 1 \in 1 .. L /\ p \in 0 .. L /\ (p + 1) - 1 = p /\ f[p].larger
      BY <2>2, <2>6
    <3> QED
      BY <2>4, <3>1
  <2> HIDE DEF S
  <2>7. L \in S
    BY <2>2, <2>5, <2>6, Induction
  <2>8. L \in 0 .. L
    BY <2>2
  <2>9. CheckNode(nest, now, n) \in Known /\ (now.larger => CheckNode(nest, now, n).larger)
    BY <2>2, <2>3, <2>7, <2>8 DEF S
  <2> QED
    BY <2>9 DEF n
<1>4. step \in [1 .. N -> [Known -> Known]]
  BY <1>3
<1>5. PICK g \in [0 .. N -> Known] : g[0] = start /\ \A x \in 1 .. N : g[x] = step[x][g[x - 1]]
  <2> HIDE DEF step, start, N
  <2>1. FoldsOf(N, Known, start, step) # {}
    BY <1>1, <1>2, <1>4, Folded
  <2> QED
    BY <2>1 DEF FoldsOf
<1>6. \A x \in 1 .. N : g[x] = CheckNode(nest, g[x - 1], nest[x]) /\ g[x - 1] \in Known
  <2> TAKE x \in 1 .. N
  <2>1. x - 1 \in 0 .. N
    BY <1>1
  <2>2. g[x - 1] \in Known
    BY <2>1
  <2> QED
    BY <1>5, <2>2
<1> HIDE DEF step, start
<1>7. Is(g)
  <2>1. ASSUME NEW x \in 0 .. N
        PROVE  g[x] = IF x = 0 THEN start ELSE CheckNode(nest, g[x - 1], nest[x])
    <3>1. CASE x = 0
      BY <1>5, <3>1
    <3>2. CASE x # 0
      <4>1. x \in 1 .. N
        BY <1>1, <3>2
      <4> QED
        BY <1>6, <3>2, <4>1
    <3> QED
      BY <3>1, <3>2
  <2> QED
    BY <2>1
<1>8. Is(after)
  BY <1>7
<1>9. TooLarge(nest) = after[N].larger
  BY DEF TooLarge, start
<1> HIDE DEF after
<1>10. after[0] = start /\ \A x \in 1 .. N : after[x] = CheckNode(nest, after[x - 1], nest[x])
  <2>1. 0 \in 0 .. N /\ \A x \in 1 .. N : x \in 0 .. N /\ x # 0
    BY <1>1
  <2> HIDE DEF Is
  <2>2. after[0] = start
    BY <1>8, <2>1 DEF Is
  <2>3. ASSUME NEW x \in 1 .. N PROVE after[x] = CheckNode(nest, after[x - 1], nest[x])
    BY <1>8, <2>1 DEF Is
  <2> QED
    BY <2>2, <2>3
<1> DEFINE S == {x \in Nat : x <= N => after[x] \in Known}
<1>11. Nat \subseteq S
  <2>1. 0 \in S
    BY <1>2, <1>10
  <2>2. ASSUME NEW x \in Nat, x \in S PROVE x + 1 \in S
    <3> SUFFICES ASSUME x + 1 <= N PROVE after[x + 1] \in Known
      OBVIOUS
    <3>1. x + 1 \in 1 .. N /\ (x + 1) - 1 = x /\ after[x] \in Known
      BY <1>1, <2>2
    <3> QED
      BY <1>3, <1>10, <3>1
  <2> HIDE DEF S
  <2> QED
    BY <2>1, <2>2, Induction
<1>12. \A x \in 0 .. N : after[x] \in Known
  BY <1>1, <1>11
\* Counted from the last node.
<1> DEFINE B == {d \in Nat : d <= N => ~ after[N - d].larger}
<1>13. Nat \subseteq B
  <2>1. 0 \in B
    BY <1>1, <1>9
  <2>2. ASSUME NEW d \in Nat, d \in B PROVE d + 1 \in B
    <3> SUFFICES ASSUME d + 1 <= N PROVE ~ after[N - (d + 1)].larger
      OBVIOUS
    <3>1. N - d \in 1 .. N /\ (N - d) - 1 = N - (d + 1) /\ N - (d + 1) \in 0 .. N /\ ~ after[N - d].larger
      BY <1>1, <2>2
    <3>2. after[N - d] = CheckNode(nest, after[N - (d + 1)], nest[N - d])
      BY <1>10, <3>1
    <3> QED
      BY <1>3, <1>12, <3>1, <3>2
  <2> HIDE DEF B
  <2> QED
    BY <2>1, <2>2, Induction
<1>14. m \in 1 .. N /\ m - 1 \in 0 .. N /\ N - m \in Nat /\ N - (N - m) = m
  BY <1>1
<1>15. ~ after[m].larger
  <2>1. N - m <= N
    BY <1>1, <1>14
  <2> QED
    BY <1>13, <1>14, <2>1
<1> QED
  BY <1>10, <1>12, <1>14, <1>15

\* The loops of a node whose check finds nothing too large: a tile is not larger than the
\* one that comes before it on its axis, the first not larger than the segment it is in.
LEMMA NodeFits ==
  ASSUME Types, NEW m \in DOMAIN nest, LoopsOf(nest[m]), NEW now \in Known,
         ~ CheckNode(nest, now, nest[m]).larger, NEW a \in Dims, NEW n, n = nest[m]
  PROVE  /\ \A k \in 1 .. Len(n.tiles[a]) - 1 : n.tiles[a][k] >= n.tiles[a][k + 1]
         /\ (n.origin.axis = a /\ n.origin.end # None /\ n.tiles[a] # << >>) =>
              n.tiles[a][1] <= n.origin.end - n.origin.start
<1> DEFINE L == Len(n.interchange)
           T(p) == n.interchange[p].kind = "tile" /\ n.interchange[p].axis = a
<1>1. n \in NodeTypes /\ LoopsOf(n) /\ LoopsOf(nest[m])
  BY NestShape
<1>2. /\ L \in Nat /\ DOMAIN n.interchange = 1 .. L
      /\ \A p \in 1 .. L : n.interchange[p] \in LoopTypes
  BY <1>1, NodeShape
<1> HIDE DEF L
<1>3. PICK f \in [0 .. L -> Known] :
        /\ f[0] = Entered(now, n)
        /\ \A p \in 1 .. L : f[p] = CheckLoop(nest, n, f[p - 1], n.interchange[p])
        /\ CheckNode(nest, now, n) = f[L]
  BY <1>1, NodeChecked DEF L
<1>4. ASSUME NEW p \in 1 .. L
      PROVE  LET l == n.interchange[p]  before == f[p - 1] IN
             /\ f[p - 1] \in Known /\ f[p] \in Known
             /\ SizeOf(n, l) \in Extents
             /\ f[p].larger = (before.larger \/ (/\ SizeOf(n, l) # None /\ Around(before, l) # None
                                                 /\ SizeOf(n, l) > Around(before, l)))
             /\ l.kind = "tile" => SizeOf(n, l) = n.tiles[l.axis][l.n]
             /\ f[p].tile = IF l.kind = "tile" THEN [before.tile EXCEPT ![l.axis] = n.tiles[l.axis][l.n]]
                            ELSE before.tile
             /\ f[p].split = IF l.kind = "split" /\ SizeOf(n, l) # None
                             THEN [before.split EXCEPT ![l.axis] = SizeOf(n, l)] ELSE before.split
  <2>1. p - 1 \in 0 .. L /\ p \in 0 .. L
    BY <1>2
  <2>2. f[p - 1] \in Known /\ f[p] \in Known
    BY <2>1
  <2>3. p \in DOMAIN nest[m].interchange
    BY <1>2
  <2>4. f[p] = CheckLoop(nest, n, f[p - 1], n.interchange[p])
    BY <1>3
  <2> QED
    BY <1>1, <2>2, <2>3, <2>4, LoopChecked
\* Nothing was too large on the way.
<1> DEFINE B == {d \in Nat : d <= L => ~ f[L - d].larger}
<1>5. Nat \subseteq B
  <2>1. 0 \in B
    BY <1>2, <1>3
  <2>2. ASSUME NEW d \in Nat, d \in B PROVE d + 1 \in B
    <3> SUFFICES ASSUME d + 1 <= L PROVE ~ f[L - (d + 1)].larger
      OBVIOUS
    <3>1. L - d \in 1 .. L /\ (L - d) - 1 = L - (d + 1) /\ ~ f[L - d].larger
      BY <1>2, <2>2
    <3> QED
      BY <1>4, <3>1
  <2> HIDE DEF B
  <2> QED
    BY <2>1, <2>2, Induction
<1>6. \A p \in 0 .. L : ~ f[p].larger
  <2> TAKE p \in 0 .. L
  <2>1. L - p \in Nat /\ L - p <= L /\ L - (L - p) = p
    BY <1>2
  <2> QED
    BY <1>5, <2>1
<1> HIDE DEF B
<1>7. ASSUME NEW p \in 1 .. L, SizeOf(n, n.interchange[p]) # None, Around(f[p - 1], n.interchange[p]) # None
      PROVE  SizeOf(n, n.interchange[p]) <= Around(f[p - 1], n.interchange[p])
  <2>1. ~ f[p].larger /\ n.interchange[p].axis \in Dims
    <3>1. p \in 0 .. L
      BY <1>2
    <3> QED
      BY <1>2, <1>6, <3>1 DEF LoopTypes
  <2>2. SizeOf(n, n.interchange[p]) \in Int
    BY <1>4, <1>7 DEF Extents
  <2>3. Around(f[p - 1], n.interchange[p]) \in Int
    <3>1. f[p - 1] \in Known
      BY <1>4
    <3> QED
      BY <1>7, <2>1, <3>1 DEF Around, Known, Extents
  <2>4. ~ (SizeOf(n, n.interchange[p]) > Around(f[p - 1], n.interchange[p]))
    BY <1>4, <1>7, <2>1
  <2> QED
    BY <2>2, <2>3, <2>4
\* Before the first tile of the axis: none, within a segment not longer than the node's.
<1> DEFINE Inside == n.origin.axis = a /\ n.origin.end # None
           NoneYet(p) == /\ f[p].tile[a] = None
                         /\ Inside => f[p].split[a] \in Int /\ f[p].split[a] <= n.origin.end - n.origin.start
           S == {p \in Nat : p <= L => ((\A q \in 1 .. p : ~ T(q)) => NoneYet(p))}
<1>8. Inside => n.origin.end \in Nat /\ n.origin.start \in Nat
  BY <1>1 DEF NodeTypes, Positions
<1>9. Nat \subseteq S
  <2>1. 0 \in S
    <3>1. f[0].tile[a] = None
      BY <1>1, <1>3, EnteredType
    <3>2. ASSUME Inside PROVE f[0].split[a] \in Int /\ f[0].split[a] <= n.origin.end - n.origin.start
      <4>1. n.origin.axis # NoAxis
        BY <3>2, LoopNestAssumption
      <4>2. f[0].split[a] = n.origin.end - n.origin.start
        BY <1>1, <1>3, <3>2, <4>1, EnteredType DEF Extent
      <4> QED
        BY <1>8, <3>2, <4>2
    <3> QED
      BY <3>1, <3>2
  <2>2. ASSUME NEW p \in Nat, p \in S PROVE p + 1 \in S
    <3> SUFFICES ASSUME p + 1 <= L, \A q \in 1 .. p + 1 : ~ T(q) PROVE NoneYet(p + 1)
      OBVIOUS
    <3> DEFINE l == n.interchange[p + 1]
    <3>1. p + 1 \in 1 .. L /\ (p + 1) - 1 = p /\ p <= L /\ (\A q \in 1 .. p : ~ T(q)) /\ ~ T(p + 1)
      BY <1>2
    <3>2. NoneYet(p)
      BY <2>2, <3>1
    <3>3. l \in LoopTypes /\ l.axis \in Dims
      BY <1>2, <3>1 DEF LoopTypes
    <3>4. /\ f[p] \in Known
          /\ f[p + 1].tile = IF l.kind = "tile" THEN [f[p].tile EXCEPT ![l.axis] = n.tiles[l.axis][l.n]]
                             ELSE f[p].tile
          /\ f[p + 1].split = IF l.kind = "split" /\ SizeOf(n, l) # None
                              THEN [f[p].split EXCEPT ![l.axis] = SizeOf(n, l)] ELSE f[p].split
          /\ SizeOf(n, l) \in Extents
      BY <1>4, <3>1, ZenonT(60)
    <3>5. f[p].tile \in [Dims -> Extents] /\ f[p].split \in [Dims -> Extents]
      BY <3>4 DEF Known
    <3>6. l.kind = "tile" => l.axis # a
      BY <3>1
    <3> HIDE DEF l
    <3>7. f[p + 1].tile[a] = None
      BY <3>2, <3>4, <3>5, <3>6
    <3>8. ASSUME Inside
          PROVE  f[p + 1].split[a] \in Int /\ f[p + 1].split[a] <= n.origin.end - n.origin.start
      <4>1. CASE l.kind = "split" /\ SizeOf(n, l) # None /\ l.axis = a
        <5>1. f[p + 1].split[a] = SizeOf(n, l) /\ SizeOf(n, l) \in Int
          BY <3>4, <3>5, <4>1 DEF Extents
        <5>2. Around(f[p], l) = f[p].split[a] /\ f[p].split[a] \in Int
          BY <3>2, <3>8, <4>1 DEF Around
        <5>3. SizeOf(n, l) <= Around(f[p], l)
          BY <1>7, <3>1, <4>1, <5>2, LoopNestAssumption DEF l
        <5> QED
          BY <1>8, <3>2, <3>8, <5>1, <5>2, <5>3
      <4>2. CASE ~ (l.kind = "split" /\ SizeOf(n, l) # None /\ l.axis = a)
        <5>1. f[p + 1].split[a] = f[p].split[a]
          BY <3>3, <3>4, <3>5, <4>2
        <5> QED
          BY <3>2, <3>8, <5>1
      <4> QED
        BY <4>1, <4>2
    <3> QED
      BY <3>7, <3>8
  <2> HIDE DEF S
  <2> QED
    BY <2>1, <2>2, Induction
\* After a tile of the axis and before the next one.
<1>10. ASSUME NEW q \in 1 .. L, T(q)
       PROVE  \A p \in q .. L : (\A r \in q + 1 .. p : ~ T(r)) => f[p].tile[a] = n.tiles[a][n.interchange[q].n]
  <2> DEFINE A == {d \in Nat : q + d <= L => ((\A r \in q + 1 .. q + d : ~ T(r)) =>
                                 f[q + d].tile[a] = n.tiles[a][n.interchange[q].n])}
  <2>1. 0 \in A
    <3>1. f[q].tile = [f[q - 1].tile EXCEPT ![a] = n.tiles[a][n.interchange[q].n]] /\ f[q - 1] \in Known
      BY <1>4, <1>10
    <3>2. f[q - 1].tile \in [Dims -> Extents]
      BY <3>1 DEF Known
    <3>3. f[q].tile[a] = n.tiles[a][n.interchange[q].n] /\ q + 0 = q
      BY <3>1, <3>2
    <3> QED
      BY <3>3
  <2>2. ASSUME NEW d \in Nat, d \in A PROVE d + 1 \in A
    <3> SUFFICES ASSUME q + (d + 1) <= L, \A r \in q + 1 .. q + (d + 1) : ~ T(r)
                 PROVE  f[q + (d + 1)].tile[a] = n.tiles[a][n.interchange[q].n]
      OBVIOUS
    <3> DEFINE p == q + (d + 1)
               l == n.interchange[p]
    <3>1. p \in 1 .. L /\ p - 1 = q + d /\ q + d <= L /\ (\A r \in q + 1 .. q + d : ~ T(r)) /\ ~ T(p)
      BY <1>2
    <3>2. f[p - 1].tile[a] = n.tiles[a][n.interchange[q].n]
      BY <2>2, <3>1
    <3>3. f[p].tile = IF l.kind = "tile" THEN [f[p - 1].tile EXCEPT ![l.axis] = n.tiles[l.axis][l.n]]
                      ELSE f[p - 1].tile
      BY <1>4, <3>1
    <3>4. f[p - 1].tile \in [Dims -> Extents] /\ l.axis \in Dims /\ (l.kind = "tile" => l.axis # a)
      <4>1. f[p - 1] \in Known /\ l \in LoopTypes
        BY <1>2, <1>4, <3>1
      <4> QED
        BY <3>1, <4>1 DEF Known, LoopTypes
    <3> HIDE DEF p, l
    <3>5. f[p].tile[a] = f[p - 1].tile[a]
      BY <3>3, <3>4
    <3> QED
      BY <3>2, <3>5 DEF p
  <2> HIDE DEF A
  <2>3. Nat \subseteq A
    BY <2>1, <2>2, Induction
  <2> SUFFICES ASSUME NEW p \in q .. L, \A r \in q + 1 .. p : ~ T(r)
               PROVE  f[p].tile[a] = n.tiles[a][n.interchange[q].n]
    OBVIOUS
  <2>4. p - q \in Nat /\ q + (p - q) = p /\ p <= L
    BY <1>2
  <2> QED
    BY <2>3, <2>4 DEF A
\* Where the tiles of the axis are.
<1>11. /\ Len(n.tiles[a]) \in Nat /\ n.tiles[a] \in Seq(Nat)
       /\ \A k \in 1 .. Len(n.tiles[a]) : n.tiles[a][k] \in Nat
  <2>1. n.tiles[a] \in Seq(Nat)
    BY <1>1, NodeShape
  <2> QED
    BY <2>1, LenProperties, ElementOfSeq
<1>12. ASSUME NEW k \in 1 .. Len(n.tiles[a])
       PROVE  \E p \in 1 .. L : T(p) /\ n.interchange[p].n = k /\ n.interchange[p] = TileLoop(a, k)
  <2>1. PICK p \in 1 .. L : n.interchange[p] = TileLoop(a, k)
    BY <1>1, <1>2 DEF LoopsOf
  <2>2. n.interchange[p].kind = "tile" /\ n.interchange[p].axis = a /\ n.interchange[p].n = k
    BY <2>1 DEF TileLoop
  <2> QED
    BY <2>1, <2>2
<1>13. ASSUME NEW p \in 1 .. L, NEW q \in 1 .. L, T(p), T(q), p < q
       PROVE  n.interchange[p].n < n.interchange[q].n
  BY <1>1, <1>2, <1>13 DEF LoopsOf
<1>14. ASSUME NEW p \in 1 .. L, T(p)
       PROVE  /\ n.interchange[p].n \in 1 .. Len(n.tiles[a])
              /\ SizeOf(n, n.interchange[p]) = n.tiles[a][n.interchange[p].n]
              /\ SizeOf(n, n.interchange[p]) # None
  <2>1. n.interchange[p].n \in 1 .. Len(n.tiles[a])
    BY <1>1, <1>2, <1>14 DEF LoopsOf
  <2>2. SizeOf(n, n.interchange[p]) = n.tiles[a][n.interchange[p].n]
    BY <1>4, <1>14
  <2> QED
    BY <1>11, <2>1, <2>2, LoopNestAssumption
<1>15. ASSUME NEW k \in 1 .. Len(n.tiles[a]) - 1 PROVE n.tiles[a][k] >= n.tiles[a][k + 1]
  <2>1. k \in 1 .. Len(n.tiles[a]) /\ k + 1 \in 1 .. Len(n.tiles[a])
    BY <1>11
  <2>2. PICK q \in 1 .. L : T(q) /\ n.interchange[q].n = k
    BY <1>12, <2>1
  <2>3. PICK p \in 1 .. L : T(p) /\ n.interchange[p].n = k + 1
    BY <1>12, <2>1
  <2>4. q < p
    <3>1. q # p
      BY <2>1, <2>2, <2>3
    <3>2. ~ (p < q)
      BY <1>13, <2>1, <2>2, <2>3
    <3> QED
      BY <3>1, <3>2
  <2>5. ASSUME NEW r \in q + 1 .. p - 1, T(r) PROVE FALSE
    <3>1. r \in 1 .. L /\ q < r /\ r < p
      BY <1>2
    <3>2. k < n.interchange[r].n /\ n.interchange[r].n < k + 1
      BY <1>13, <2>2, <2>3, <2>5, <3>1
    <3>3. n.interchange[r].n \in Nat
      BY <1>14, <2>5, <3>1
    <3> QED
      BY <3>2, <3>3
  <2>6. p - 1 \in q .. L
    BY <1>2, <2>4
  <2>7. f[p - 1].tile[a] = n.tiles[a][k]
    BY <1>10, <2>2, <2>5, <2>6
  <2>8. n.tiles[a][k] \in Nat /\ n.tiles[a][k + 1] \in Nat
    BY <1>11, <2>1
  <2>9. Around(f[p - 1], n.interchange[p]) = n.tiles[a][k] /\ n.tiles[a][k] # None
    BY <2>3, <2>7, <2>8, LoopNestAssumption DEF Around
  <2>10. SizeOf(n, n.interchange[p]) = n.tiles[a][k + 1] /\ SizeOf(n, n.interchange[p]) # None
    BY <1>14, <2>3
  <2>11. n.tiles[a][k + 1] <= n.tiles[a][k]
    BY <1>7, <2>9, <2>10
  <2> QED
    BY <2>8, <2>11
<1>16. ASSUME Inside, n.tiles[a] # << >> PROVE n.tiles[a][1] <= n.origin.end - n.origin.start
  <2>1. 1 \in 1 .. Len(n.tiles[a])
    BY <1>11, <1>16, EmptySeq
  <2>2. PICK p \in 1 .. L : T(p) /\ n.interchange[p].n = 1
    BY <1>12, <2>1
  <2>3. ASSUME NEW r \in 1 .. p - 1, T(r) PROVE FALSE
    <3>1. r \in 1 .. L /\ r < p
      BY <1>2
    <3>2. n.interchange[r].n < 1 /\ n.interchange[r].n \in 1 .. Len(n.tiles[a])
      BY <1>13, <1>14, <2>2, <2>3, <3>1
    <3> QED
      BY <3>2
  <2>4. p - 1 \in Nat /\ p - 1 <= L
    BY <1>2
  <2>5. NoneYet(p - 1)
    <3>1. p - 1 \in S
      BY <1>9, <2>4
    <3> QED
      BY <2>3, <2>4, <3>1
  <2>6. Around(f[p - 1], n.interchange[p]) = f[p - 1].split[a] /\ f[p - 1].split[a] \in Int
    BY <1>16, <2>2, <2>5 DEF Around
  <2>7. SizeOf(n, n.interchange[p]) = n.tiles[a][1] /\ SizeOf(n, n.interchange[p]) # None
    BY <1>14, <2>2
  <2>8. n.tiles[a][1] <= f[p - 1].split[a]
    BY <1>7, <2>6, <2>7, LoopNestAssumption
  <2>9. n.tiles[a][1] \in Nat /\ f[p - 1].split[a] <= n.origin.end - n.origin.start
    BY <1>11, <1>16, <2>1, <2>5
  <2> QED
    BY <1>8, <1>16, <2>6, <2>8, <2>9
<1> QED
  BY <1>15, <1>16

\* A nest that is accepted has been checked as it is.
Checked == stage = "accepted" => ~ TooLarge(nest)

\* What the check has not found too large fits.
LEMMA TilesHold ==
  ASSUME IInv, Checked
  PROVE  TilesFit
<1> SUFFICES ASSUME stage = "accepted", NEW m \in DOMAIN nest, NEW a \in Dims, NEW n, n = nest[m],
                    NEW s, s = nest[n.parent]
             PROVE  /\ \A k \in 1 .. Len(n.tiles[a]) - 1 : n.tiles[a][k] >= n.tiles[a][k + 1]
                    /\ (n.origin.axis = a /\ s.bounded[a][n.segment] /\ n.tiles[a] # << >>) =>
                         n.tiles[a][1] <= Asked(s, a, n.segment)
  BY DEF TilesFit
<1>1. Types /\ Stack /\ Segments /\ Tree /\ ~ TooLarge(nest)
  BY DEF IInv, Checked
<1>2. PICK now \in Known : ~ CheckNode(nest, now, nest[m]).larger
  BY <1>1, NestChecked
<1>3. LoopsOf(nest[m]) /\ Content(m)
  BY <1>1 DEF Tree
<1>4. /\ \A k \in 1 .. Len(n.tiles[a]) - 1 : n.tiles[a][k] >= n.tiles[a][k + 1]
      /\ (n.origin.axis = a /\ n.origin.end # None /\ n.tiles[a] # << >>) =>
           n.tiles[a][1] <= n.origin.end - n.origin.start
  BY <1>1, <1>2, <1>3, NodeFits
<1>5. ASSUME n.origin.axis = a, s.bounded[a][n.segment], n.tiles[a] # << >>
      PROVE  n.tiles[a][1] <= Asked(s, a, n.segment)
  <2>1. a # NoAxis
    BY LoopNestAssumption
  <2>2. /\ n.parent \in 1 .. m - 1 /\ n.segment \in 1 .. Len(s.splits[a])
        /\ n.origin.start = s.splits[a][n.segment] /\ n.origin.end = s.asked[a][n.segment]
    BY <1>3, <1>5, <2>1 DEF Content
  <2>3. \E cut : Chained(s, a, cut)
    <3>1. n.parent \in DOMAIN nest
      <4>1. ASSUME NEW N \in Nat, NEW x \in 1 .. N, NEW y \in 1 .. x - 1 PROVE y \in 1 .. N
        OBVIOUS
      <4>2. DOMAIN nest = 1 .. Len(nest) /\ Len(nest) \in Nat
        BY <1>1, NestShape
      <4> QED
        BY <2>2, <4>1, <4>2
    <3>2. DOMAIN frames = {}
      BY <1>1 DEF Stack
    <3> QED
      BY <1>1, <3>1, <3>2 DEF Segments
  <2>4. s.asked[a][n.segment] # None
    BY <1>5, <2>2, <2>3 DEF Chained
  <2>5. Asked(s, a, n.segment) = n.origin.end - n.origin.start /\ n.origin.end # None
    BY <2>2, <2>4 DEF Asked, Extent
  <2> QED
    BY <1>4, <1>5, <2>5
<1> QED
  BY <1>4, <1>5

\* Only Check accepts.
LEMMA CheckedInv ==
  ASSUME IInv, Checked, [Next]_vars
  PROVE  Checked'
<1> SUFFICES ASSUME stage' = "accepted" PROVE nest' = nest /\ ~ TooLarge(nest)
  BY DEF Checked
<1>1. CASE UNCHANGED vars
  BY <1>1 DEF vars, Checked
<1>2. CASE Check
  <2>1. Verdict(nest) = "accepted" /\ nest' = nest
    BY <1>2 DEF Check
  <2> QED
    BY <2>1 DEF Verdict
<1>3. CASE Next /\ ~ Check
  <2>1. \/ stage = "interpret" /\ stage' = stage
        \/ stage' = "refused"
        \/ EndSpec
    <3>1. ASSUME NEW a \in Dims, NEW x \in Bounds, NEW y \in Bounds, Split(a, x, y) \/ SplitRefused(a, x, y)
          PROVE  (stage = "interpret" /\ stage' = stage) \/ stage' = "refused"
      BY <3>1 DEF Split, SplitRefused, Declares, AddSegment, Refuse
    <3>2. ASSUME NEW a \in Dims, NEW z \in TileSizes, SplitSized(a, z) \/ SplitSizedRefused(a, z)
          PROVE  (stage = "interpret" /\ stage' = stage) \/ stage' = "refused"
      BY <3>2 DEF SplitSized, SplitSizedRefused, Declares, AddSegment, Refuse
    <3>3. ASSUME NEW a \in Dims, NEW z \in TileSizes, Tile(a, z) \/ TileRefused(a, z)
          PROVE  (stage = "interpret" /\ stage' = stage) \/ stage' = "refused"
      BY <3>3 DEF Tile, TileRefused, Declares, Refuse
    <3>4. ASSUME NEW a \in Dims, Axis(a) \/ AxisRefused(a)
          PROVE  (stage = "interpret" /\ stage' = stage) \/ stage' = "refused"
      BY <3>4 DEF Axis, AxisRefused, Declares, Refuse
    <3> QED
      BY <1>3, <3>1, <3>2, <3>3, <3>4 DEF Next, EndSpecRefused, Refuse
  <2>2. ASSUME EndSpec PROVE stage' # "accepted"
    BY <2>2 DEF EndSpec
  <2> QED
    BY <2>1, <2>2
<1> QED
  BY <1>1, <1>2, <1>3

\* In a nest that is accepted no tile is larger than the loop of its axis around it in
\* its node, nor than the segment its node is, for any number of declarations.
THEOREM FittingTiles == Spec => []TilesFit
<1>1. Init => IInv /\ Checked
  BY InitInv DEF Init, Checked
<1>2. IInv /\ Checked /\ [Next]_vars => IInv' /\ Checked'
  BY NextInv, CheckedInv
<1>3. IInv /\ Checked => TilesFit
  BY TilesHold
<1> QED
  BY <1>1, <1>2, <1>3, PTL DEF Spec

-----------------------------------------------------------------------------
(* One node for each segment. *)

\* The segment a node is the content of.
Place(m) == <<nest[m].parent, nest[m].origin.axis, nest[m].segment>>

\* The root is the content of no segment, every other node of one; two nodes are not that
\* of the same, and every segment has one.
Branches ==
  /\ \A m \in DOMAIN nest :
       IF m = 1 THEN nest[m].parent = 0 /\ nest[m].origin = NoOrigin
       ELSE nest[m].origin.axis # NoAxis
  /\ \A m, x \in DOMAIN nest : Place(m) = Place(x) => m = x
  /\ \A m \in DOMAIN nest : \A a \in Dims : \A k \in 1 .. Len(nest[m].splits[a]) :
       \E x \in DOMAIN nest : Place(x) = <<m, a, k>>

\* A step adds a segment or a loop, loses the nest, or leaves it.
LEMMA NestSteps ==
  ASSUME IInv, [Next]_vars
  PROVE  \/ nest' = nest \/ nest' = << >>
         \/ stage = "interpret" /\ \E a \in Dims : SegmentAsked(a)
         \/ stage = "interpret" /\ \E l, tiles : LoopScheduled(l, tiles)
<1>1. Types /\ Stack
  BY DEF IInv
<1>2. ASSUME UNCHANGED vars \/ EndSpec \/ Check PROVE nest' = nest
  BY <1>2 DEF vars, EndSpec, Check
<1>3. ASSUME NEW a \in Dims, NEW x \in Bounds, NEW y \in Bounds, Split(a, x, y)
      PROVE  stage = "interpret" /\ SegmentAsked(a)
  BY <1>3, SplitAsked
<1>4. ASSUME NEW a \in Dims, NEW z \in TileSizes, SplitSized(a, z)
      PROVE  stage = "interpret" /\ SegmentAsked(a)
  BY <1>4, SizedAsked
<1>5. ASSUME NEW a \in Dims, NEW s \in TileSizes, Tile(a, s)
      PROVE  stage = "interpret" /\ \E l, tiles : LoopScheduled(l, tiles)
  <2>1. stage = "interpret" /\ s \in Nat
    BY <1>5, DescriptAssumption DEF Tile, Declares
  <2> QED
    BY <1>1, <1>5, <2>1, TileEffect
<1>6. ASSUME NEW a \in Dims, Axis(a)
      PROVE  stage = "interpret" /\ \E l, tiles : LoopScheduled(l, tiles)
  <2>1. stage = "interpret"
    BY <1>6 DEF Axis, Declares
  <2> QED
    BY <1>1, <1>6, <2>1, AxisEffect
<1>7. ASSUME NEW a \in Dims, NEW x, NEW y,
             SplitRefused(a, x, y) \/ SplitSizedRefused(a, x) \/ TileRefused(a, x) \/ AxisRefused(a)
      PROVE  nest' = << >>
  BY <1>7 DEF SplitRefused, SplitSizedRefused, TileRefused, AxisRefused, Refuse
<1>8. ASSUME EndSpecRefused PROVE nest' = << >>
  BY <1>8 DEF EndSpecRefused, Refuse
<1> QED
  BY <1>2, <1>3, <1>4, <1>5, <1>6, <1>7, <1>8 DEF Next

\* A segment is added with its node.
LEMMA SegmentBranches ==
  ASSUME IInv, Branches, stage = "interpret", NEW b \in Dims, SegmentAsked(b)
  PROVE  Branches'
<1> DEFINE N     == Len(nest)
           k     == Len(node.splits[b]) + 1
           new   == nest'[top.node]
<1>1. PICK M : M = N + 1
  OBVIOUS
<1> DEFINE child == nest'[M]
<1>2. Types /\ Stack /\ Tree
  BY DEF IInv
<1>3. PICK start \in Nat, cut \in Positions, nodeEnd \in Positions, isBounded \in BOOLEAN :
        AddSegment(b, start, cut, nodeEnd, isBounded)
  BY DEF SegmentAsked
<1>4. /\ nest' \in Seq(NodeTypes) /\ Len(nest') = M
      /\ \A m \in 1 .. N : m # top.node => nest'[m] = nest[m]
      /\ new.parent = node.parent /\ new.segment = node.segment /\ new.origin = node.origin
      /\ new.splits = [node.splits EXCEPT ![b] = Append(@, start)]
      /\ child = Node(top.node, k, [axis |-> b, start |-> start, end |-> nodeEnd], <<AxisLoop(b)>>)
  <2>1. SegmentAdded(b, start, cut, nodeEnd, isBounded)
    BY <1>2, <1>3, SegmentEffect
  <2> HIDE DEF N, k, new, child
  <2> QED
    BY <1>1, <2>1 DEF SegmentAdded, N, k, new, child
<1>5. /\ N \in Nat /\ DOMAIN nest = 1 .. N /\ DOMAIN nest' = 1 .. M
      /\ top.node \in 1 .. N /\ node = nest[top.node] /\ node \in NodeTypes
  BY <1>2, <1>4, TopShape, NestShape, LenProperties DEF node
<1>6. /\ child.parent = top.node /\ child.segment = k /\ child.origin.axis = b
      /\ \A a \in Dims : child.splits[a] = << >>
  BY <1>4 DEF Node
<1>7. \A m \in 1 .. N : /\ nest'[m].parent = nest[m].parent /\ nest'[m].segment = nest[m].segment
                        /\ nest'[m].origin = nest[m].origin
  BY <1>4, <1>5
<1>8. k \in Nat /\ \A a \in Dims : Len(new.splits[a]) = IF a = b THEN k ELSE Len(node.splits[a])
  <2>1. /\ node.splits[b] \in Seq(Nat) /\ Len(node.splits[b]) \in Nat
        /\ DOMAIN node.splits = Dims
    BY <1>5, NodeShape DEF NodeTypes
  <2>2. Len(Append(node.splits[b], start)) = k
    BY <2>1, AppendProperties
  <2> QED
    BY <1>4, <2>1, <2>2
<1> HIDE DEF new, child, k
<1>9. /\ \A m \in 1 .. N : Place(m)' = Place(m)
      /\ Place(M)' = <<top.node, b, k>>
  BY <1>6, <1>7 DEF Place, child
<1>10. \A m \in 1 .. N : Place(m) # <<top.node, b, k>>
  <2> SUFFICES ASSUME NEW m \in 1 .. N, Place(m) = <<top.node, b, k>> PROVE FALSE
    OBVIOUS
  <2>1. nest[m].parent = top.node /\ nest[m].origin.axis = b /\ nest[m].segment = k
    BY DEF Place
  <2>2. k \in 1 .. Len(node.splits[b])
    BY <1>2, <1>5, <2>1, LoopNestAssumption DEF Tree, Content
  <2>3. Len(node.splits[b]) \in Nat
    BY <1>5, NodeShape
  <2> QED
    BY <2>2, <2>3 DEF k
<1>11. \A m \in 1 .. M : m = M \/ m \in 1 .. N
  BY <1>1, <1>5
<1>12. ASSUME NEW m \in 1 .. M
       PROVE  IF m = 1 THEN nest'[m].parent = 0 /\ nest'[m].origin = NoOrigin
              ELSE nest'[m].origin.axis # NoAxis
  <2>1. M # 1
    BY <1>1, <1>5
  <2>2. CASE m \in 1 .. N
    BY <1>5, <1>7, <2>2 DEF Branches
  <2>3. CASE m = M
    BY <1>5, <1>6, <2>1, <2>3, LoopNestAssumption DEF child
  <2> QED
    BY <1>11, <2>2, <2>3
<1>13. ASSUME NEW m \in 1 .. M, NEW x \in 1 .. M, Place(m)' = Place(x)'
       PROVE  m = x
  <2>1. CASE m \in 1 .. N /\ x \in 1 .. N
    BY <1>5, <1>9, <1>13, <2>1 DEF Branches
  <2>2. CASE m = M /\ x = M
    BY <2>2
  <2>3. CASE m \in 1 .. N /\ x = M
    BY <1>9, <1>10, <1>13, <2>3
  <2>4. CASE m = M /\ x \in 1 .. N
    BY <1>9, <1>10, <1>13, <2>4
  <2> QED
    BY <1>11, <2>1, <2>2, <2>3, <2>4
<1>14. ASSUME NEW m \in 1 .. M, NEW a \in Dims, NEW h \in 1 .. Len(nest'[m].splits[a])
       PROVE  \E x \in 1 .. M : Place(x)' = <<m, a, h>>
  <2>1. ASSUME m \in 1 .. N, h \in 1 .. Len(nest[m].splits[a])
        PROVE  \E x \in 1 .. M : Place(x)' = <<m, a, h>>
    <3>1. PICK x \in 1 .. N : Place(x) = <<m, a, h>>
      BY <1>5, <2>1 DEF Branches
    <3>2. x \in 1 .. M
      BY <1>1, <1>5
    <3> QED
      BY <1>9, <3>1, <3>2
  <2>2. CASE m \in 1 .. N /\ m # top.node
    BY <1>4, <2>1, <2>2
  <2>3. CASE m = top.node /\ h \in 1 .. Len(node.splits[a])
    BY <1>5, <2>1, <2>3
  <2>4. CASE m = top.node /\ h \notin 1 .. Len(node.splits[a])
    <3>1. Len(node.splits[b]) \in Nat /\ Len(node.splits[a]) \in Nat
      BY <1>5, NodeShape
    <3>2. a = b /\ h = k
      BY <1>8, <2>4, <3>1 DEF new, k
    <3>3. M \in 1 .. M
      BY <1>1, <1>5
    <3> QED
      BY <1>9, <2>4, <3>2, <3>3
  <2>5. CASE m = M
    <3>1. nest'[m].splits[a] = << >> /\ Len(<< >>) = 0
      BY <1>6, <2>5 DEF child
    <3> QED
      BY <3>1
  <2> QED
    BY <1>11, <2>2, <2>3, <2>4, <2>5
<1> QED
  BY <1>5, <1>12, <1>13, <1>14, ZenonT(60) DEF Branches

\* A loop that is scheduled in a node changes no segment.
LEMMA LoopBranches ==
  ASSUME IInv, Branches, stage = "interpret", NEW l, NEW tiles, LoopScheduled(l, tiles)
  PROVE  Branches'
<1>1. Types /\ Stack
  BY DEF IInv
<1>2. /\ nest' \in Seq(NodeTypes) /\ Len(nest') = Len(nest)
      /\ \A m \in 1 .. Len(nest) : m # top.node => nest'[m] = nest[m]
      /\ nest'[top.node].parent = node.parent /\ nest'[top.node].segment = node.segment
      /\ nest'[top.node].origin = node.origin /\ nest'[top.node].splits = node.splits
  BY DEF LoopScheduled
<1>3. /\ DOMAIN nest = 1 .. Len(nest) /\ DOMAIN nest' = DOMAIN nest
      /\ top.node \in 1 .. Len(nest) /\ node = nest[top.node]
  BY <1>1, <1>2, TopShape, NestShape, LenProperties DEF node
<1>4. \A m \in DOMAIN nest : /\ nest'[m].parent = nest[m].parent /\ nest'[m].segment = nest[m].segment
                             /\ nest'[m].origin = nest[m].origin /\ nest'[m].splits = nest[m].splits
  BY <1>2, <1>3
<1>5. \A m \in DOMAIN nest : Place(m)' = Place(m)
  BY <1>4 DEF Place
<1> QED
  BY <1>3, <1>4, <1>5 DEF Branches

\* Whatever is declared, every segment has its node.
LEMMA BranchesInv ==
  ASSUME IInv, Branches, [Next]_vars
  PROVE  Branches'
<1>1. CASE nest' = nest
  BY <1>1 DEF Branches, Place
<1>2. CASE nest' = << >>
  <2>1. DOMAIN nest' = {}
    BY <1>2
  <2> QED
    BY <2>1 DEF Branches
<1> QED
  BY <1>1, <1>2, NestSteps, SegmentBranches, LoopBranches

\* At first there is the root only.
LEMMA InitBranches ==
  ASSUME Init
  PROVE  Branches
<1>1. DOMAIN nest = {1} /\ nest[1] = Node(0, 0, NoOrigin, << >>)
  BY DEF Init
<1>2. nest[1].parent = 0 /\ nest[1].origin = NoOrigin /\ \A a \in Dims : nest[1].splits[a] = << >>
  BY <1>1 DEF Node
<1>3. Len(<< >>) = 0
  OBVIOUS
<1> QED
  BY <1>1, <1>2, <1>3 DEF Branches, Place

-----------------------------------------------------------------------------
(* The names nodes are scheduled under. *)

\* What the invariants say of the nodes of a nest.
LEMMA NodeOfNest ==
  ASSUME IInv, Branches, NEW m \in DOMAIN nest
  PROVE  /\ Len(nest) \in Nat /\ DOMAIN nest = 1 .. Len(nest) /\ nest[m] \in NodeTypes
         /\ m = 1 => nest[m].parent = 0 /\ nest[m].origin = NoOrigin
         /\ m # 1 => /\ nest[m].origin.axis \in Dims /\ nest[m].parent \in 1 .. m - 1
                     /\ nest[m].parent \in DOMAIN nest /\ nest[m].parent # 0
                     /\ nest[m].segment \in 1 .. Len(nest[nest[m].parent].splits[nest[m].origin.axis])
                     /\ nest[m].origin.start = nest[nest[m].parent].splits[nest[m].origin.axis][nest[m].segment]
<1>1. Types /\ Tree
  BY DEF IInv
<1>2. Len(nest) \in Nat /\ DOMAIN nest = 1 .. Len(nest) /\ nest[m] \in NodeTypes
  BY <1>1, NestShape
<1>3. CASE m = 1
  BY <1>2, <1>3 DEF Branches
<1>4. CASE m # 1
  <2>1. nest[m].origin.axis # NoAxis /\ nest[m].origin.axis \in Dims
    BY <1>2, <1>4 DEF Branches, NodeTypes
  <2>2. /\ nest[m].parent \in 1 .. m - 1
        /\ nest[m].segment \in 1 .. Len(nest[nest[m].parent].splits[nest[m].origin.axis])
        /\ nest[m].origin.start = nest[nest[m].parent].splits[nest[m].origin.axis][nest[m].segment]
    BY <1>1, <2>1 DEF Tree, Content
  <2>3. \A p \in 1 .. m - 1 : p \in 1 .. Len(nest) /\ p # 0
    BY <1>2
  <2> QED
    BY <1>2, <1>4, <2>1, <2>2, <2>3
<1> QED
  BY <1>3, <1>4

\* The loop whose content a node is.
Above(m) == SplitLoop(nest[m].origin.axis, nest[m].segment)

\* A node is named after its parent.
LEMMA RootsAre ==
  ASSUME IInv, Branches, NEW R, R = RootOf(nest)
  PROVE  /\ DOMAIN R = DOMAIN nest
         /\ \A m \in DOMAIN nest :
              R[m] = IF nest[m].parent = 0 THEN << >> ELSE Append(R[nest[m].parent], Above(m))
<1> DEFINE N == Len(nest)
           E(f, m) == IF nest[m].parent = 0 THEN DefaultRoot
                      ELSE SegmentRoot(f[nest[m].parent], nest[m].origin.axis, nest[m].segment)
           Is(f) == f = [m \in DOMAIN nest |-> E(f, m)]
           root == CHOOSE f : Is(f)
           S == {n \in Nat : n <= N => \E f : f = [m \in 1 .. n |-> E(f, m)]}
<1>1. N \in Nat /\ DOMAIN nest = 1 .. N
  BY NestShape DEF IInv
<1>2. 0 \in S
  <2> DEFINE f == [m \in 1 .. 0 |-> DefaultRoot]
  <2>1. f = [m \in 1 .. 0 |-> E(f, m)]
    OBVIOUS
  <2> HIDE DEF E
  <2> QED
    BY <2>1
<1>3. ASSUME NEW n \in Nat, n \in S PROVE n + 1 \in S
  <2> SUFFICES ASSUME n + 1 <= N PROVE \E f : f = [m \in 1 .. n + 1 |-> E(f, m)]
    OBVIOUS
  <2>1. PICK f : f = [m \in 1 .. n |-> E(f, m)]
    BY <1>1, <1>3
  <2> DEFINE g == [m \in 1 .. n + 1 |-> E(f, m)]
  <2>2. ASSUME NEW m \in 1 .. n + 1 PROVE E(g, m) = E(f, m)
    <3>1. m \in DOMAIN nest
      BY <1>1
    <3>2. nest[m].parent = 0 \/ nest[m].parent \in 1 .. m - 1
      BY <3>1, NodeOfNest
    <3>3. \A p \in 1 .. m - 1 : p \in 1 .. n /\ p \in 1 .. n + 1
      OBVIOUS
    <3>4. ASSUME nest[m].parent # 0 PROVE g[nest[m].parent] = f[nest[m].parent]
      <4> DEFINE p == nest[m].parent
      <4>1. p \in 1 .. n /\ p \in 1 .. n + 1
        BY <3>2, <3>3, <3>4
      <4> HIDE DEF p, E
      <4>2. f[p] = E(f, p)
        BY <2>1, <4>1
      <4>3. g[p] = E(f, p)
        BY <4>1
      <4> QED
        BY <4>2, <4>3 DEF p
    <3> HIDE DEF g
    <3> QED
      BY <3>4
  <2>3. g = [m \in 1 .. n + 1 |-> E(g, m)]
    <3> HIDE DEF E
    <3>1. g = [m \in 1 .. n + 1 |-> E(f, m)]
      OBVIOUS
    <3> HIDE DEF g
    <3> QED
      BY <2>2, <3>1
  <2> HIDE DEF g, E
  <2> QED
    BY <2>3
<1>4. \E f : Is(f)
  <2> HIDE DEF S, E
  <2>1. N \in S
    BY <1>1, <1>2, <1>3, Induction
  <2> QED
    BY <1>1, <2>1 DEF S
<1>5. R = root
  BY DEF RootOf
<1>6. Is(R)
  <2> HIDE DEF Is
  <2> QED
    BY <1>4, <1>5
<1>7. DOMAIN R = DOMAIN nest /\ \A m \in DOMAIN nest : R[m] = E(R, m)
  <2> HIDE DEF E
  <2> QED
    BY <1>6
<1> QED
  BY <1>7 DEF DefaultRoot, SegmentRoot, Above

\* Induction over the nodes of a nest, parents first.
LEMMA NodeInduction ==
  ASSUME IInv, Branches, NEW S, 1 \in S,
         \A m \in DOMAIN nest : m # 1 /\ nest[m].parent \in S => m \in S
  PROVE  DOMAIN nest \subseteq S
<1> DEFINE T == {n \in Nat : \A m \in DOMAIN nest : m <= n => m \in S}
<1>1. Len(nest) \in Nat /\ DOMAIN nest = 1 .. Len(nest)
  BY NestShape DEF IInv
<1>2. 0 \in T
  BY <1>1
<1>3. ASSUME NEW n \in Nat, n \in T PROVE n + 1 \in T
  <2> SUFFICES ASSUME NEW m \in DOMAIN nest, m = n + 1, m # 1 PROVE m \in S
    <3>1. \A m \in DOMAIN nest : m <= n + 1 => m <= n \/ m = n + 1
      BY <1>1
    <3> QED
      BY <1>3, <3>1
  <2>1. nest[m].parent \in 1 .. m - 1 /\ nest[m].parent \in DOMAIN nest
    BY NodeOfNest
  <2>2. nest[m].parent <= n
    BY <2>1
  <2> QED
    BY <1>3, <2>1, <2>2
<1> HIDE DEF T
<1>4. Nat \subseteq T
  BY <1>2, <1>3, Induction
<1>5. Len(nest) \in T
  BY <1>1, <1>4
<1> QED
  BY <1>1, <1>5 DEF T

\* Names are sequences of loops; only the root has the empty one, no two nodes the same.
LEMMA RootsDiffer ==
  ASSUME IInv, Branches, NEW R, R = RootOf(nest)
  PROVE  /\ \A m \in DOMAIN nest : R[m] \in Seq(LoopTypes) /\ Above(m).kind = "split"
         /\ \A m \in DOMAIN nest : m # 1 => R[m] = Append(R[nest[m].parent], Above(m)) /\ Above(m) \in LoopTypes
         /\ \A m \in DOMAIN nest : m = 1 <=> R[m] = << >>
         /\ \A m, x \in DOMAIN nest : R[m] = R[x] => m = x
<1>1. Len(nest) \in Nat /\ DOMAIN nest = 1 .. Len(nest)
  BY NestShape DEF IInv
<1>2. \A m \in DOMAIN nest : /\ m = 1 => R[m] = << >>
                             /\ m # 1 => R[m] = Append(R[nest[m].parent], Above(m))
  BY RootsAre, NodeOfNest
<1>3. ASSUME NEW m \in DOMAIN nest, m # 1 PROVE Above(m) \in LoopTypes
  <2>1. nest[m].origin.axis \in Dims /\ nest[m].segment \in Nat
    BY <1>3, NodeOfNest DEF NodeTypes
  <2> QED
    BY <2>1 DEF Above, SplitLoop, LoopTypes
<1>4. \A m \in DOMAIN nest : R[m] \in Seq(LoopTypes)
  <2> DEFINE S == {m \in Nat : m \in DOMAIN nest => R[m] \in Seq(LoopTypes)}
  <2>1. 1 \in S
    BY <1>2, EmptySeq
  <2>2. ASSUME NEW m \in DOMAIN nest, m # 1, nest[m].parent \in S PROVE m \in S
    <3>1. R[nest[m].parent] \in Seq(LoopTypes)
      BY <2>2, NodeOfNest
    <3>2. Append(R[nest[m].parent], Above(m)) \in Seq(LoopTypes)
      BY <1>3, <2>2, <3>1, AppendProperties
    <3>3. m \in Nat
      BY <1>1
    <3> QED
      BY <1>2, <2>2, <3>2, <3>3
  <2> HIDE DEF S
  <2>3. DOMAIN nest \subseteq S
    BY <2>1, <2>2, NodeInduction
  <2> QED
    BY <2>3 DEF S
<1>5. \A m \in DOMAIN nest : m # 1 => R[nest[m].parent] \in Seq(LoopTypes)
  BY <1>4, NodeOfNest
<1>6. \A s, t \in Seq(LoopTypes) : \A e, g \in LoopTypes :
        Append(s, e) # << >> /\ (Append(s, e) = Append(t, g) => s = t /\ e = g)
  BY AppendProperties, AppendInjective
<1>7. \A m \in DOMAIN nest : m = 1 <=> R[m] = << >>
  BY <1>2, <1>3, <1>5, <1>6
<1>8. \A m \in DOMAIN nest : \A x \in DOMAIN nest : R[m] = R[x] => m = x
  <2> DEFINE S == {m \in Nat : \A x \in DOMAIN nest : R[m] = R[x] => m = x}
  <2>1. 1 \in S
    <3> SUFFICES ASSUME NEW x \in DOMAIN nest, R[1] = R[x], x # 1 PROVE FALSE
      OBVIOUS
    <3>1. 1 \in DOMAIN nest
      BY <1>1
    <3> QED
      BY <1>7, <3>1
  <2>2. ASSUME NEW m \in DOMAIN nest, m # 1, nest[m].parent \in S PROVE m \in S
    <3> SUFFICES ASSUME NEW x \in DOMAIN nest, R[m] = R[x] PROVE m = x
      BY <1>1
    <3>1. x # 1
      BY <1>7, <2>2
    <3>2. R[nest[m].parent] = R[nest[x].parent] /\ Above(m) = Above(x)
      <4>1. /\ R[nest[m].parent] \in Seq(LoopTypes) /\ R[nest[x].parent] \in Seq(LoopTypes)
            /\ Above(m) \in LoopTypes /\ Above(x) \in LoopTypes
        BY <1>3, <1>5, <2>2, <3>1
      <4>2. Append(R[nest[m].parent], Above(m)) = Append(R[nest[x].parent], Above(x))
        BY <1>2, <2>2, <3>1
      <4> DEFINE p == R[nest[m].parent]
                 q == R[nest[x].parent]
                 l == Above(m)
                 k == Above(x)
      <4> HIDE DEF p, q, l, k
      <4>3. p = q /\ l = k
        <5>1. p \in Seq(LoopTypes) /\ q \in Seq(LoopTypes) /\ l \in LoopTypes /\ k \in LoopTypes
          BY <4>1 DEF p, q, l, k
        <5>2. Append(p, l) = Append(q, k)
          BY <4>2 DEF p, q, l, k
        <5> QED
          BY <5>1, <5>2, AppendInjective
      <4> QED
        BY <4>3 DEF p, q, l, k
    <3>3. nest[m].parent = nest[x].parent
      BY <2>2, <3>1, <3>2, NodeOfNest
    <3>4. nest[m].origin.axis = nest[x].origin.axis /\ nest[m].segment = nest[x].segment
      BY <3>2 DEF Above, SplitLoop
    <3>5. Place(m) = Place(x)
      BY <3>3, <3>4 DEF Place
    <3> QED
      BY <3>5 DEF Branches
  <2> HIDE DEF S
  <2>3. DOMAIN nest \subseteq S
    BY <2>1, <2>2, NodeInduction
  <2> QED
    BY <2>3 DEF S
<1> QED
  BY <1>2, <1>3, <1>4, <1>7, <1>8 DEF Above, SplitLoop

-----------------------------------------------------------------------------
(* What the calls for one node leave in the dictionaries. *)

\* Two functions on the subsets of a finite set are the same there when each takes its value
\* on a set from the value on the set without one of its elements.
LEMMA SameFold ==
  ASSUME NEW S, IsFiniteSet(S), NEW h, NEW g, h[{}] = g[{}],
         \A T \in SUBSET S : T # {} => \E x \in T : h[T \ {x}] = g[T \ {x}] => h[T] = g[T]
  PROVE  h[S] = g[S]
<1> DEFINE K == {n \in Nat : \A T \in SUBSET S : Cardinality(T) = n => h[T] = g[T]}
<1>1. \A T \in SUBSET S : IsFiniteSet(T) /\ Cardinality(T) \in Nat
  BY FS_Subset, FS_CardinalityType
<1>2. 0 \in K
  BY <1>1, FS_EmptySet
<1>3. ASSUME NEW n \in Nat, n \in K PROVE n + 1 \in K
  <2> SUFFICES ASSUME NEW T \in SUBSET S, Cardinality(T) = n + 1 PROVE h[T] = g[T]
    OBVIOUS
  <2> HIDE DEF K
  <2>1. Cardinality({}) = 0
    BY FS_EmptySet
  <2>2. T # {}
    BY <2>1
  <2>3. PICK x \in T : h[T \ {x}] = g[T \ {x}] => h[T] = g[T]
    BY <2>2
  <2>4. T \ {x} \in SUBSET S /\ Cardinality(T \ {x}) = n
    <3>1. IsFiniteSet(T)
      BY <1>1
    <3>2. Cardinality(T \ {x}) = Cardinality(T) - 1
      BY <3>1, FS_RemoveElement
    <3> QED
      BY <3>2
  <2> QED
    BY <1>3, <2>3, <2>4 DEF K
<1> HIDE DEF K
<1>4. Cardinality(S) \in K
  BY <1>1, <1>2, <1>3, Induction
<1> QED
  BY <1>4 DEF K

\* The names of the axes of T that field has something for.
Named(root, field, T) == {LoopName(root, AxisLoop(a)) : a \in {b \in T : field[b] # << >>}}

\* A dictionary in which these are put.
With(dict, root, field, T) ==
  [k \in DOMAIN dict \cup Named(root, field, T) |->
     IF k \in Named(root, field, T) THEN field[k.loop.axis] ELSE dict[k]]

\* What a scheduler keeps when nothing is vectorized or unrolled.
Dicts(splits, tiles, permutation) ==
  [splits |-> splits, tiles |-> tiles, permutation |-> permutation,
   vectorization |-> << >>, unrolling |-> << >>]

\* Another axis is put.
LEMMA PutOne ==
  ASSUME NEW dict, NEW root, NEW field, NEW T, NEW x \in T, field[x] # << >>
  PROVE  Put(With(dict, root, field, T \ {x}), LoopName(root, AxisLoop(x)), field[x])
           = With(dict, root, field, T)
<1> DEFINE key   == LoopName(root, AxisLoop(x))
           names == Named(root, field, T)
           less  == Named(root, field, T \ {x})
<1>1. names = less \cup {key}
  BY DEF Named
<1>2. key.loop.axis = x
  BY DEF LoopName, AxisLoop
<1> HIDE DEF key, names, less
<1>3. With(dict, root, field, T) =
        [k \in DOMAIN dict \cup names |-> IF k \in names THEN field[k.loop.axis] ELSE dict[k]]
  BY DEF With, names
<1> DEFINE prior == With(dict, root, field, T \ {x})
<1>4. prior = [k \in DOMAIN dict \cup less |-> IF k \in less THEN field[k.loop.axis] ELSE dict[k]]
  BY DEF With, less
<1> HIDE DEF prior
<1>5. DOMAIN prior \cup {key} = DOMAIN dict \cup names
  BY <1>1, <1>4
<1>6. ASSUME NEW k \in DOMAIN dict \cup names
      PROVE  (IF k = key THEN field[x] ELSE prior[k]) = IF k \in names THEN field[k.loop.axis] ELSE dict[k]
  <2>1. CASE k = key
    BY <1>1, <1>2, <2>1
  <2>2. CASE k # key
    BY <1>1, <1>4, <2>2
  <2> QED
    BY <2>1, <2>2
<1>7. Put(prior, key, field[x]) = [k \in DOMAIN dict \cup names |-> IF k = key THEN field[x] ELSE prior[k]]
  BY <1>5 DEF Put
<1> QED
  BY <1>3, <1>6, <1>7 DEF prior, key

\* An axis that field has nothing for is not put.
LEMMA PutNone ==
  ASSUME NEW dict, NEW root, NEW field, NEW T, NEW x \in T, field[x] = << >>
  PROVE  With(dict, root, field, T \ {x}) = With(dict, root, field, T)
<1>1. Named(root, field, T \ {x}) = Named(root, field, T)
  BY DEF Named
<1> QED
  BY <1>1 DEF With

\* Without axes nothing is put.
LEMMA PutNothing ==
  ASSUME NEW dict, dict = [k \in DOMAIN dict |-> dict[k]], NEW root, NEW field
  PROVE  With(dict, root, field, {}) = dict
<1>1. Named(root, field, {}) = {}
  BY DEF Named
<1> QED
  BY <1>1 DEF With

\* The calls of split for a node.
AfterSplits(s, n, root) ==
  LET Splits(a, acc) == IF n.splits[a] = << >> THEN acc ELSE split(acc, a, n.splits[a], root)
  IN FoldSet(Splits, s, Dims)

\* They put the axes that have segments.
LEMMA SplitsPut ==
  ASSUME NEW n, NEW root, NEW sp, sp = [k \in DOMAIN sp |-> sp[k]], NEW ti, NEW pe
  PROVE  AfterSplits(Dicts(sp, ti, pe), n, root) = Dicts(With(sp, root, n.splits, Dims), ti, pe)
<1> DEFINE E(f, T) ==
             IF T = {} THEN Dicts(sp, ti, pe)
             ELSE LET x == CHOOSE x \in T : TRUE
                  IN IF n.splits[x] = << >> THEN f[T \ {x}] ELSE split(f[T \ {x}], x, n.splits[x], root)
           Is(f) == f = [T \in SUBSET Dims |-> E(f, T)]
           h == CHOOSE f : Is(f)
           g == [T \in SUBSET Dims |-> Dicts(With(sp, root, n.splits, T), ti, pe)]
<1>1. AfterSplits(Dicts(sp, ti, pe), n, root) = h[Dims]
  BY DEF AfterSplits, FoldSet, MapThenFoldSet
<1>2. ASSUME NEW T \in SUBSET Dims PROVE g[T] = E(g, T)
  <2>1. CASE T = {}
    BY <2>1, PutNothing
  <2>2. CASE T # {}
    <3> DEFINE x == CHOOSE x \in T : TRUE
    <3>1. x \in T
      BY <2>2
    <3> HIDE DEF x
    <3>2. /\ g[T \ {x}] = Dicts(With(sp, root, n.splits, T \ {x}), ti, pe)
          /\ g[T] = Dicts(With(sp, root, n.splits, T), ti, pe)
      BY <3>1
    <3> HIDE DEF g
    <3>3. CASE n.splits[x] = << >>
      <4>1. With(sp, root, n.splits, T \ {x}) = With(sp, root, n.splits, T)
        <5> DEFINE field == n.splits
        <5> HIDE DEF field
        <5>1. field[x] = << >>
          BY <3>3 DEF field
        <5>2. With(sp, root, field, T \ {x}) = With(sp, root, field, T)
          BY <3>1, <5>1, PutNone
        <5> QED
          BY <5>2 DEF field
      <4>2. g[T \ {x}] = g[T]
        BY <3>2, <4>1
      <4> QED
        BY <2>2, <3>3, <4>2 DEF x
    <3>4. CASE n.splits[x] # << >>
      <4>1. split(g[T \ {x}], x, n.splits[x], root)
              = Dicts(Put(With(sp, root, n.splits, T \ {x}), LoopName(root, AxisLoop(x)), n.splits[x]), ti, pe)
        BY <3>2 DEF split, Dicts
      <4>2. Put(With(sp, root, n.splits, T \ {x}), LoopName(root, AxisLoop(x)), n.splits[x])
              = With(sp, root, n.splits, T)
        <5> DEFINE field == n.splits
        <5> HIDE DEF field
        <5>1. field[x] # << >>
          BY <3>4 DEF field
        <5>2. Put(With(sp, root, field, T \ {x}), LoopName(root, AxisLoop(x)), field[x])
                = With(sp, root, field, T)
          BY <3>1, <5>1, PutOne
        <5> QED
          BY <5>2 DEF field
      <4>3. split(g[T \ {x}], x, n.splits[x], root) = g[T]
        BY <3>2, <4>2, <4>1
      <4> QED
        BY <2>2, <3>4, <4>3 DEF x
    <3> QED
      BY <3>3, <3>4
  <2> QED
    BY <2>1, <2>2
<1>3. Is(g)
  <2> HIDE DEF E
  <2>1. g = [T \in SUBSET Dims |-> g[T]]
    OBVIOUS
  <2> HIDE DEF g
  <2> QED
    BY <1>2, <2>1
<1>4. Is(h)
  <2> HIDE DEF Is, g
  <2> QED
    BY <1>3
<1> HIDE DEF h
<1>5. ASSUME NEW T \in SUBSET Dims PROVE h[T] = E(h, T)
  <2> HIDE DEF E
  <2> QED
    BY <1>4
<1> HIDE DEF Is
<1>6. h[{}] = g[{}]
  <2> HIDE DEF g
  <2> QED
    BY <1>2, <1>5
<1>7. ASSUME NEW T \in SUBSET Dims, T # {}
      PROVE  \E x \in T : h[T \ {x}] = g[T \ {x}] => h[T] = g[T]
  <2> HIDE DEF g
  <2>1. (CHOOSE x \in T : TRUE) \in T
    BY <1>7
  <2> WITNESS (CHOOSE x \in T : TRUE) \in T
  <2> QED
    BY <1>2, <1>5, <1>7
<1>8. h[Dims] = g[Dims]
  <2> HIDE DEF g
  <2> QED
    BY <1>6, <1>7, SameFold, SchedulingAssumption
<1> QED
  BY <1>1, <1>8

\* The tiles of an axis that has none yet are kept as they are.
LEMMA TilesKept ==
  ASSUME NEW s \in Seq(Nat)
  PROVE  s \o SubSeq(<< >>, Len(s) + 1, Len(<< >>)) = s
<1>1. Len(s) \in Nat /\ Len(<< >>) = 0
  BY LenProperties
<1>2. Len(s) + 1 \in Int /\ 0 \in Int /\ 0 < Len(s) + 1
  BY <1>1
<1>3. SubSeq(<< >>, Len(s) + 1, 0) = << >>
  BY <1>2, SubSeqEmpty
<1>4. s \o << >> = s
  BY ConcatEmptySeq
<1> QED
  BY <1>1, <1>3, <1>4

\* The calls of tile for a node.
AfterTiles(s, n, root) ==
  LET Tiles(a, acc) == tile(acc, a, n.tiles[a], root)
  IN FoldSet(Tiles, s, Dims)

\* They put the axes that have tiles, when there are none yet.
LEMMA TilesPut ==
  ASSUME NEW n, \A a \in Dims : n.tiles[a] \in Seq(Nat), NEW root,
         NEW ti, ti = [k \in DOMAIN ti |-> ti[k]],
         \A a \in Dims : LoopName(root, AxisLoop(a)) \notin DOMAIN ti,
         NEW sp, NEW pe
  PROVE  AfterTiles(Dicts(sp, ti, pe), n, root) = Dicts(sp, With(ti, root, n.tiles, Dims), pe)
<1> DEFINE E(f, T) ==
             IF T = {} THEN Dicts(sp, ti, pe)
             ELSE LET x == CHOOSE x \in T : TRUE IN tile(f[T \ {x}], x, n.tiles[x], root)
           Is(f) == f = [T \in SUBSET Dims |-> E(f, T)]
           h == CHOOSE f : Is(f)
           g == [T \in SUBSET Dims |-> Dicts(sp, With(ti, root, n.tiles, T), pe)]
<1>1. AfterTiles(Dicts(sp, ti, pe), n, root) = h[Dims]
  BY DEF AfterTiles, FoldSet, MapThenFoldSet
<1>2. ASSUME NEW T \in SUBSET Dims PROVE g[T] = E(g, T)
  <2>1. CASE T = {}
    BY <2>1, PutNothing
  <2>2. CASE T # {}
    <3> DEFINE x == CHOOSE x \in T : TRUE
               field == n.tiles
               key == LoopName(root, AxisLoop(x))
               prior == With(ti, root, n.tiles, T \ {x})
    <3>1. x \in T
      BY <2>2
    <3> HIDE DEF x
    <3>2. g[T \ {x}] = Dicts(sp, prior, pe) /\ g[T] = Dicts(sp, With(ti, root, n.tiles, T), pe)
      BY <3>1
    <3> HIDE DEF g
    <3>3. key \notin DOMAIN prior
      <4>1. key \notin Named(root, n.tiles, T \ {x})
        BY DEF Named, LoopName, AxisLoop
      <4>2. key \notin DOMAIN ti
        BY <3>1
      <4> QED
        BY <4>1, <4>2 DEF With
    <3> HIDE DEF prior, key
    <3>4. CASE n.tiles[x] = << >>
      <4> HIDE DEF field
      <4>1. field[x] = << >>
        BY <3>4 DEF field
      <4>2. With(ti, root, field, T \ {x}) = With(ti, root, field, T)
        BY <3>1, <4>1, PutNone
      <4>3. g[T \ {x}] = g[T]
        BY <3>2, <4>2 DEF field, prior
      <4>4. tile(g[T \ {x}], x, n.tiles[x], root) = g[T \ {x}]
        BY <3>4 DEF tile
      <4> QED
        BY <2>2, <4>3, <4>4 DEF x
    <3>5. CASE n.tiles[x] # << >>
      <4> HIDE DEF field
      <4>1. field[x] # << >>
        BY <3>5 DEF field
      <4>2. Put(With(ti, root, field, T \ {x}), LoopName(root, AxisLoop(x)), field[x])
              = With(ti, root, field, T)
        BY <3>1, <4>1, PutOne
      <4>3. Put(prior, key, n.tiles[x]) = With(ti, root, n.tiles, T)
        BY <4>2 DEF field, prior, key
      <4>4. n.tiles[x] \o SubSeq(<< >>, Len(n.tiles[x]) + 1, Len(<< >>)) = n.tiles[x]
        BY <3>1, TilesKept
      <4>5. At(prior, key) = << >>
        BY <3>3 DEF At
      <4>6. tile(Dicts(sp, prior, pe), x, n.tiles[x], root)
              = Dicts(sp, Put(prior, key, n.tiles[x] \o SubSeq(At(prior, key), Len(n.tiles[x]) + 1, Len(At(prior, key)))), pe)
        BY <3>5 DEF tile, Dicts, key
      <4>7. tile(g[T \ {x}], x, n.tiles[x], root) = g[T]
        BY <3>2, <4>3, <4>4, <4>5, <4>6
      <4> QED
        BY <2>2, <4>7 DEF x
    <3> QED
      BY <3>4, <3>5
  <2> QED
    BY <2>1, <2>2
<1>3. Is(g)
  <2> HIDE DEF E
  <2>1. g = [T \in SUBSET Dims |-> g[T]]
    OBVIOUS
  <2> HIDE DEF g
  <2> QED
    BY <1>2, <2>1
<1>4. Is(h)
  <2> HIDE DEF Is, g
  <2> QED
    BY <1>3
<1> HIDE DEF h
<1>5. ASSUME NEW T \in SUBSET Dims PROVE h[T] = E(h, T)
  <2> HIDE DEF E
  <2> QED
    BY <1>4
<1> HIDE DEF Is
<1>6. h[{}] = g[{}]
  <2> HIDE DEF g
  <2> QED
    BY <1>2, <1>5
<1>7. ASSUME NEW T \in SUBSET Dims, T # {}
      PROVE  \E x \in T : h[T \ {x}] = g[T \ {x}] => h[T] = g[T]
  <2> HIDE DEF g
  <2>1. (CHOOSE x \in T : TRUE) \in T
    BY <1>7
  <2> WITNESS (CHOOSE x \in T : TRUE) \in T
  <2> QED
    BY <1>2, <1>5, <1>7
<1>8. h[Dims] = g[Dims]
  <2> HIDE DEF g
  <2> QED
    BY <1>6, <1>7, SameFold, SchedulingAssumption
<1> QED
  BY <1>1, <1>8

\* All calls for a node that has no tiles yet.
LEMMA NodePut ==
  ASSUME NEW n \in NodeTypes, NEW root,
         NEW sp, sp = [k \in DOMAIN sp |-> sp[k]], NEW ti, ti = [k \in DOMAIN ti |-> ti[k]], NEW pe,
         \A a \in Dims : LoopName(root, AxisLoop(a)) \notin DOMAIN ti
  PROVE  ApplyNode(Dicts(sp, ti, pe), n, root)
           = Dicts(With(sp, root, n.splits, Dims), With(ti, root, n.tiles, Dims), Put(pe, root, n.interchange))
<1>1. \A a \in Dims : n.tiles[a] \in Seq(Nat)
  BY NodeShape
<1>2. AfterSplits(Dicts(sp, ti, pe), n, root) = Dicts(With(sp, root, n.splits, Dims), ti, pe)
  BY SplitsPut
<1>3. AfterTiles(Dicts(With(sp, root, n.splits, Dims), ti, pe), n, root)
        = Dicts(With(sp, root, n.splits, Dims), With(ti, root, n.tiles, Dims), pe)
  BY <1>1, TilesPut
<1>4. ApplyNode(Dicts(sp, ti, pe), n, root)
        = interchange(AfterTiles(AfterSplits(Dicts(sp, ti, pe), n, root), n, root), n.interchange, root)
  BY DEF ApplyNode, AfterTiles, AfterSplits, FoldSet, MapThenFoldSet
<1>5. ApplyNode(Dicts(sp, ti, pe), n, root)
        = interchange(Dicts(With(sp, root, n.splits, Dims), With(ti, root, n.tiles, Dims), pe), n.interchange, root)
  BY <1>4, <1>2, <1>3
<1> QED
  BY <1>5 DEF interchange, Dicts

-----------------------------------------------------------------------------
(* What a nest leaves in the dictionaries. *)

\* The node a name is that of.
Called(R, r) == CHOOSE m \in DOMAIN nest : R[m] = r

\* A dictionary with what fields has for the nodes of T.
Kept(R, fields, T) ==
  [k \in UNION {Named(R[m], fields[m], Dims) : m \in T} |-> fields[Called(R, k.root)][k.loop.axis]]

Orders(R, T) == [r \in {R[m] : m \in T} |-> nest[Called(R, r)].interchange]

SplitsOf == [m \in DOMAIN nest |-> nest[m].splits]
TileSizesOf == [m \in DOMAIN nest |-> nest[m].tiles]

\* A name is that of its node.
LEMMA CalledIs ==
  ASSUME IInv, Branches, NEW R, R = RootOf(nest), NEW m \in DOMAIN nest
  PROVE  Called(R, R[m]) = m
<1>1. Called(R, R[m]) \in DOMAIN nest /\ R[Called(R, R[m])] = R[m]
  BY DEF Called
<1> QED
  BY <1>1, RootsDiffer

\* The dictionaries of another node are put.
LEMMA KeptOne ==
  ASSUME IInv, Branches, NEW R, R = RootOf(nest), NEW fields,
         NEW T \in SUBSET DOMAIN nest, NEW x \in T
  PROVE  /\ With(Kept(R, fields, T \ {x}), R[x], fields[x], Dims) = Kept(R, fields, T)
         /\ Put(Orders(R, T \ {x}), R[x], nest[x].interchange) = Orders(R, T)
         /\ \A a \in Dims : LoopName(R[x], AxisLoop(a)) \notin DOMAIN Kept(R, fields, T \ {x})
<1> DEFINE names(U) == UNION {Named(R[m], fields[m], Dims) : m \in U}
           own == Named(R[x], fields[x], Dims)
           prior == Kept(R, fields, T \ {x})
<1>1. \A m \in T : m # x => R[m] # R[x]
  BY RootsDiffer
<1>2. \A m : \A k \in Named(R[m], fields[m], Dims) : k.root = R[m]
  BY DEF Named, LoopName
<1>3. names(T) = names(T \ {x}) \cup own
  OBVIOUS
<1>4. Called(R, R[x]) = x
  BY CalledIs
<1>5. prior = [k \in names(T \ {x}) |-> fields[Called(R, k.root)][k.loop.axis]]
  BY DEF Kept
<1>6. With(prior, R[x], fields[x], Dims) = Kept(R, fields, T)
  <2> HIDE DEF prior, own
  <2>1. Kept(R, fields, T) = [k \in names(T) |-> fields[Called(R, k.root)][k.loop.axis]]
    BY DEF Kept
  <2>2. DOMAIN prior = names(T \ {x})
    BY <1>5
  <2>3. With(prior, R[x], fields[x], Dims)
          = [k \in names(T \ {x}) \cup own |-> IF k \in own THEN fields[x][k.loop.axis] ELSE prior[k]]
    BY <2>2 DEF With, own
  <2>4. ASSUME NEW k \in names(T \ {x}) \cup own
        PROVE  (IF k \in own THEN fields[x][k.loop.axis] ELSE prior[k]) = fields[Called(R, k.root)][k.loop.axis]
    <3>1. CASE k \in own
      BY <1>2, <1>4, <3>1 DEF own
    <3>2. CASE k \notin own
      BY <1>5, <2>4, <3>2
    <3> QED
      BY <3>1, <3>2
  <2> HIDE DEF names
  <2> QED
    BY <1>3, <2>1, <2>3, <2>4, ZenonT(60)
<1>7. \A a \in Dims : LoopName(R[x], AxisLoop(a)) \notin DOMAIN prior
  <2> SUFFICES ASSUME NEW a \in Dims, NEW m \in T \ {x},
                      LoopName(R[x], AxisLoop(a)) \in Named(R[m], fields[m], Dims)
               PROVE  FALSE
    BY <1>5
  <2>1. LoopName(R[x], AxisLoop(a)).root = R[x]
    BY DEF LoopName
  <2> QED
    BY <1>1, <1>2, <2>1
<1>8. Put(Orders(R, T \ {x}), R[x], nest[x].interchange) = Orders(R, T)
  <2> DEFINE less == Orders(R, T \ {x})
             roots == {R[m] : m \in T}
  <2>1. less = [r \in {R[m] : m \in T \ {x}} |-> nest[Called(R, r)].interchange]
    BY DEF Orders
  <2>2. Orders(R, T) = [r \in roots |-> nest[Called(R, r)].interchange]
    BY DEF Orders
  <2>3. roots = {R[m] : m \in T \ {x}} \cup {R[x]}
    OBVIOUS
  <2> HIDE DEF less
  <2>4. DOMAIN less \cup {R[x]} = roots
    BY <2>1, <2>3
  <2> HIDE DEF roots
  <2>5. Put(less, R[x], nest[x].interchange)
          = [r \in roots |-> IF r = R[x] THEN nest[x].interchange ELSE less[r]]
    BY <2>4 DEF Put
  <2>6. ASSUME NEW r \in roots
        PROVE  (IF r = R[x] THEN nest[x].interchange ELSE less[r]) = nest[Called(R, r)].interchange
    BY <1>4, <2>1, <2>3, <2>6
  <2> QED
    BY <2>2, <2>5, <2>6 DEF less
<1> QED
  BY <1>6, <1>7, <1>8

\* A set of nodes has a last one.
LEMMA LastNode ==
  ASSUME IInv, NEW T \in SUBSET DOMAIN nest, T # {}
  PROVE  Max(T) \in T
<1>1. Len(nest) \in Nat /\ DOMAIN nest = 1 .. Len(nest)
  BY NestShape DEF IInv
<1>2. \E t \in T : \A u \in T : u <= t
  BY <1>1, GreatestNumber
<1>3. \E t \in T : \A u \in T : t >= u
  BY <1>1, <1>2
<1> QED
  BY <1>3 DEF Max

\* Applying a nest leaves what every node has, under its name.
LEMMA AppliedIs ==
  ASSUME IInv, Branches, NEW R, R = RootOf(nest)
  PROVE  Applied(nest) = Dicts(Kept(R, SplitsOf, DOMAIN nest), Kept(R, TileSizesOf, DOMAIN nest),
                               Orders(R, DOMAIN nest))
<1> DEFINE seq == [m \in DOMAIN nest |-> m]
           E(f, T) == IF T = {} THEN NewScheduler
                      ELSE ApplyNode(f[T \ {Max(T)}], nest[seq[Max(T)]], R[seq[Max(T)]])
           Is(f) == f = [T \in SUBSET DOMAIN seq |-> E(f, T)]
           h == CHOOSE f : Is(f)
           Left(T) == Dicts(Kept(R, SplitsOf, T), Kept(R, TileSizesOf, T), Orders(R, T))
           g == [T \in SUBSET DOMAIN seq |-> Left(T)]
<1>1. Applied(nest) = h[DOMAIN seq]
  BY DEF Applied, FoldLeft, MapThenFoldSet
<1>2. DOMAIN seq = DOMAIN nest /\ \A m \in DOMAIN nest : seq[m] = m
  OBVIOUS
<1> HIDE DEF seq
<1>3. ASSUME NEW T \in SUBSET DOMAIN seq PROVE g[T] = E(g, T)
  <2>1. CASE T = {}
    <3>1. << >> = [k \in {} |-> k]
      OBVIOUS
    <3>2. Kept(R, SplitsOf, {}) = << >> /\ Kept(R, TileSizesOf, {}) = << >> /\ Orders(R, {}) = << >>
      BY DEF Kept, Orders
    <3>3. Left({}) = NewScheduler
      BY <3>2 DEF NewScheduler, Dicts
    <3> HIDE DEF Left
    <3>4. g[T] = Left(T)
      OBVIOUS
    <3> QED
      BY <2>1, <3>3, <3>4
  <2>2. CASE T # {}
    <3> DEFINE x == Max(T)
    <3>1. x \in T /\ x \in DOMAIN nest /\ seq[x] = x /\ T \in SUBSET DOMAIN nest
      BY <1>2, <2>2, LastNode
    <3> HIDE DEF x
    <3>2. T \ {x} \in SUBSET DOMAIN seq
      OBVIOUS
    <3> DEFINE sp == Kept(R, SplitsOf, T \ {x})
               ti == Kept(R, TileSizesOf, T \ {x})
               pe == Orders(R, T \ {x})
    <3>3. g[T \ {x}] = Dicts(sp, ti, pe) /\ g[T] = Left(T)
      BY <3>2
    <3>4. sp = [k \in DOMAIN sp |-> sp[k]] /\ ti = [k \in DOMAIN ti |-> ti[k]]
      BY DEF Kept
    <3>5. \A a \in Dims : LoopName(R[x], AxisLoop(a)) \notin DOMAIN ti
      BY <3>1, KeptOne
    <3>6. SplitsOf[x] = nest[x].splits /\ TileSizesOf[x] = nest[x].tiles /\ nest[x] \in NodeTypes
      BY <3>1, NodeOfNest DEF SplitsOf, TileSizesOf
    <3>7. /\ With(sp, R[x], nest[x].splits, Dims) = Kept(R, SplitsOf, T)
          /\ With(ti, R[x], nest[x].tiles, Dims) = Kept(R, TileSizesOf, T)
          /\ Put(pe, R[x], nest[x].interchange) = Orders(R, T)
      <4>1. With(sp, R[x], SplitsOf[x], Dims) = Kept(R, SplitsOf, T)
        BY <3>1, KeptOne
      <4>2. With(ti, R[x], TileSizesOf[x], Dims) = Kept(R, TileSizesOf, T)
        BY <3>1, KeptOne
      <4>3. Put(pe, R[x], nest[x].interchange) = Orders(R, T)
        BY <3>1, KeptOne
      <4> QED
        BY <3>6, <4>1, <4>2, <4>3
    <3> HIDE DEF sp, ti, pe, g
    <3>8. ApplyNode(Dicts(sp, ti, pe), nest[x], R[x])
            = Dicts(With(sp, R[x], nest[x].splits, Dims), With(ti, R[x], nest[x].tiles, Dims),
                    Put(pe, R[x], nest[x].interchange))
      BY <3>4, <3>5, <3>6, NodePut
    <3>9. ApplyNode(g[T \ {x}], nest[x], R[x]) = g[T]
      BY <3>3, <3>7, <3>8
    <3> QED
      BY <2>2, <3>1, <3>9 DEF x
  <2> QED
    BY <2>1, <2>2
<1>4. Is(g)
  <2> HIDE DEF E, Left
  <2>1. g = [T \in SUBSET DOMAIN seq |-> g[T]]
    OBVIOUS
  <2> HIDE DEF g
  <2> QED
    BY <1>3, <2>1
<1>5. Is(h)
  <2> HIDE DEF Is, g
  <2> QED
    BY <1>4
<1> HIDE DEF h
<1>6. ASSUME NEW T \in SUBSET DOMAIN seq PROVE h[T] = E(h, T)
  <2> HIDE DEF E
  <2> QED
    BY <1>5
<1> HIDE DEF Is
<1>7. h[{}] = g[{}]
  <2> HIDE DEF g
  <2> QED
    BY <1>3, <1>6
<1>8. ASSUME NEW T \in SUBSET DOMAIN seq, T # {}
      PROVE  \E x \in T : h[T \ {x}] = g[T \ {x}] => h[T] = g[T]
  <2> HIDE DEF g
  <2>1. Max(T) \in T
    BY <1>2, <1>8, LastNode
  <2> WITNESS Max(T) \in T
  <2> QED
    BY <1>3, <1>6, <1>8
<1>9. IsFiniteSet(DOMAIN seq)
  BY <1>2, NestShape, FS_Interval DEF IInv
<1>10. h[DOMAIN seq] = g[DOMAIN seq]
  <2> HIDE DEF g
  <2> QED
    BY <1>7, <1>8, <1>9, SameFold
<1>11. g[DOMAIN seq] = Left(DOMAIN seq)
  OBVIOUS
<1> QED
  BY <1>1, <1>2, <1>10, <1>11

-----------------------------------------------------------------------------
(* The nest that is built back. *)

\* What the dictionaries have under the name of a node is the node.
LEMMA SingleNodeIs ==
  ASSUME IInv, Branches, NEW R, R = RootOf(nest), NEW s, s = Applied(nest), NEW m \in DOMAIN nest
  PROVE  /\ SingleNode(s, R[m]).tiles = nest[m].tiles /\ SingleNode(s, R[m]).splits = nest[m].splits
         /\ SingleNode(s, R[m]).interchange = nest[m].interchange
         /\ DOMAIN s.permutation = {R[x] : x \in DOMAIN nest}
<1>1. /\ s.splits = Kept(R, SplitsOf, DOMAIN nest) /\ s.tiles = Kept(R, TileSizesOf, DOMAIN nest)
      /\ s.permutation = Orders(R, DOMAIN nest)
  BY AppliedIs DEF Dicts
<1>2. Called(R, R[m]) = m
  BY CalledIs
<1>3. ASSUME NEW fields, NEW a \in Dims
      PROVE  At(Kept(R, fields, DOMAIN nest), LoopName(R[m], AxisLoop(a))) = fields[m][a]
  <2> DEFINE key   == LoopName(R[m], AxisLoop(a))
             names == UNION {Named(R[x], fields[x], Dims) : x \in DOMAIN nest}
             dict  == Kept(R, fields, DOMAIN nest)
  <2>1. key.root = R[m] /\ key.loop.axis = a
    BY DEF LoopName, AxisLoop
  <2>2. dict = [k \in names |-> fields[Called(R, k.root)][k.loop.axis]]
    BY DEF Kept
  <2>3. CASE fields[m][a] # << >>
    <3>1. key \in Named(R[m], fields[m], Dims)
      BY <2>3 DEF Named
    <3>2. key \in names
      BY <3>1
    <3> HIDE DEF key, names, dict
    <3>3. dict[key] = fields[m][a] /\ key \in DOMAIN dict
      BY <1>2, <2>1, <2>2, <3>2
    <3> QED
      BY <3>3 DEF At, key, dict
  <2>4. CASE fields[m][a] = << >>
    <3>1. ASSUME NEW x \in DOMAIN nest, key \in Named(R[x], fields[x], Dims) PROVE FALSE
      <4>1. PICK b \in Dims : key = LoopName(R[x], AxisLoop(b)) /\ fields[x][b] # << >>
        BY <3>1 DEF Named
      <4>2. R[x] = R[m] /\ b = a
        BY <2>1, <4>1 DEF LoopName, AxisLoop
      <4>3. x = m
        BY <4>2, RootsDiffer
      <4> QED
        BY <2>4, <4>1, <4>2, <4>3
    <3>2. key \notin names
      BY <3>1
    <3> HIDE DEF key, names, dict
    <3>3. key \notin DOMAIN dict
      BY <2>2, <3>2
    <3> QED
      BY <2>4, <3>3 DEF At, key, dict
  <2> QED
    BY <2>3, <2>4
<1>4. /\ SplitsOf[m] = nest[m].splits /\ TileSizesOf[m] = nest[m].tiles
      /\ nest[m].splits \in [Dims -> Seq(Nat)] /\ nest[m].tiles \in [Dims -> Seq(Nat)]
  BY NodeOfNest DEF SplitsOf, TileSizesOf, NodeTypes
<1>5. /\ SingleNode(s, R[m]).tiles = [a \in Dims |-> At(s.tiles, LoopName(R[m], AxisLoop(a)))]
      /\ SingleNode(s, R[m]).splits = [a \in Dims |-> At(s.splits, LoopName(R[m], AxisLoop(a)))]
      /\ SingleNode(s, R[m]).interchange = s.permutation[R[m]]
  BY DEF SingleNode
<1>6. \A a \in Dims : /\ At(s.tiles, LoopName(R[m], AxisLoop(a))) = nest[m].tiles[a]
                      /\ At(s.splits, LoopName(R[m], AxisLoop(a))) = nest[m].splits[a]
  BY <1>1, <1>3, <1>4
<1>7. DOMAIN s.permutation = {R[x] : x \in DOMAIN nest} /\ s.permutation[R[m]] = nest[m].interchange
  BY <1>1, <1>2 DEF Orders
<1>8. SingleNode(s, R[m]).tiles = nest[m].tiles
  BY <1>4, <1>5, <1>6
<1>9. SingleNode(s, R[m]).splits = nest[m].splits
  BY <1>4, <1>5, <1>6
<1> QED
  BY <1>5, <1>7, <1>8, <1>9

\* The children that are built under the name of a node are its nodes.
LEMMA ChildrenAre ==
  ASSUME IInv, Branches, NEW R, R = RootOf(nest), NEW s, s = Applied(nest), NEW m \in DOMAIN nest
  PROVE  /\ Children(s, R[m]) \subseteq {R[x] : x \in DOMAIN nest}
         /\ m # 1 => R[m] \in Children(s, R[nest[m].parent])
<1>1. \A x \in DOMAIN nest :
        Children(s, R[x]) = UNION {{SegmentRoot(R[x], a, k) : k \in DOMAIN nest[x].splits[a]} : a \in Dims}
  BY SingleNodeIs DEF Children
<1>2. \A x \in DOMAIN nest : \A a \in Dims : DOMAIN nest[x].splits[a] = 1 .. Len(nest[x].splits[a])
  <2> TAKE x \in DOMAIN nest
  <2> TAKE a \in Dims
  <2>1. nest[x].splits[a] \in Seq(Nat)
    BY NodeOfNest, NodeShape
  <2> QED
    BY <2>1, LenProperties
<1>3. ASSUME NEW a \in Dims, NEW k \in DOMAIN nest[m].splits[a]
      PROVE  SegmentRoot(R[m], a, k) \in {R[x] : x \in DOMAIN nest}
  <2>1. PICK x \in DOMAIN nest : Place(x) = <<m, a, k>>
    BY <1>2 DEF Branches
  <2>2. nest[x].parent = m /\ nest[x].origin.axis = a /\ nest[x].segment = k
    BY <2>1 DEF Place
  <2>3. x # 1
    BY <2>2, NodeOfNest
  <2>4. R[x] = Append(R[m], SplitLoop(a, k))
    BY <2>2, <2>3, RootsDiffer DEF Above
  <2> QED
    BY <2>4 DEF SegmentRoot
<1>4. ASSUME m # 1 PROVE R[m] \in Children(s, R[nest[m].parent])
  <2> DEFINE p == nest[m].parent
             a == nest[m].origin.axis
             k == nest[m].segment
  <2>1. p \in DOMAIN nest /\ a \in Dims /\ k \in 1 .. Len(nest[p].splits[a])
    BY <1>4, NodeOfNest
  <2>2. R[m] = SegmentRoot(R[p], a, k)
    BY <1>4, RootsDiffer DEF Above, SegmentRoot
  <2> HIDE DEF p, a, k
  <2>3. k \in DOMAIN nest[p].splits[a]
    BY <1>2, <2>1
  <2>4. R[m] \in Children(s, R[p])
    BY <1>1, <2>1, <2>2, <2>3
  <2> QED
    BY <2>4 DEF p
<1> QED
  BY <1>1, <1>3, <1>4

\* The beginnings of a sequence that grew by one element.
LEMMA Beginnings ==
  ASSUME NEW S, NEW s \in Seq(S), NEW e \in S, NEW t, t = Append(s, e)
  PROVE  /\ Len(s) \in Nat /\ Len(t) = Len(s) + 1 /\ t[Len(t)] = e
         /\ SubSeq(t, 1, Len(t)) = t /\ SubSeq(t, 1, Len(s)) = s
         /\ \A n \in 0 .. Len(s) : SubSeq(t, 1, n) = SubSeq(s, 1, n)
<1>1. t \in Seq(S) /\ Len(t) = Len(s) + 1 /\ Len(s) \in Nat /\ t[Len(t)] = e
  BY AppendProperties, LenProperties
<1>2. SubSeq(t, 1, Len(t)) = t /\ SubSeq(s, 1, Len(s)) = s
  BY <1>1, SubSeqFull
<1>3. ASSUME NEW n \in 0 .. Len(s) PROVE SubSeq(t, 1, n) = SubSeq(s, 1, n)
  <2>1. CASE n = 0
    <3>1. SubSeq(t, 1, 0) = << >> /\ SubSeq(s, 1, 0) = << >>
      BY SubSeqEmpty
    <3> QED
      BY <2>1, <3>1
  <2>2. CASE n # 0
    <3>1. n \in 1 .. Len(s) /\ 1 \in 1 .. Len(s)
      BY <1>1, <2>2
    <3>2. t = s \o <<e>> /\ <<e>> \in Seq(S)
      BY AppendIsConcat
    <3>3. SubSeq(s \o <<e>>, 1, n) = SubSeq(s, 1, n)
      BY <3>1, <3>2, SubSeqOfConcat1
    <3> QED
      BY <3>2, <3>3
  <2> QED
    BY <2>1, <2>2
<1> QED
  BY <1>1, <1>2, <1>3

\* Nodes are built down to every node of the nest.
LEMMA ReachedFromRoot ==
  ASSUME IInv, Branches, NEW R, R = RootOf(nest), NEW s, s = Applied(nest)
  PROVE  \A m \in DOMAIN nest : \A n \in 1 .. Len(R[m]) :
           SubSeq(R[m], 1, n) \in Children(s, SubSeq(R[m], 1, n - 1))
<1> DEFINE Reached(m) == \A n \in 1 .. Len(R[m]) : SubSeq(R[m], 1, n) \in Children(s, SubSeq(R[m], 1, n - 1))
           S == {m \in Nat : m \in DOMAIN nest => Reached(m)}
<1>1. 1 \in S
  <2>1. 1 \in DOMAIN nest => R[1] = << >> /\ Len(R[1]) = 0
    BY RootsDiffer
  <2> QED
    BY <2>1
<1>2. ASSUME NEW m \in DOMAIN nest, m # 1, nest[m].parent \in S PROVE m \in S
  <2> DEFINE p == nest[m].parent
             r == R[p]
  <2>1. p \in DOMAIN nest /\ m \in Nat
    BY <1>2, NodeOfNest
  <2>2. r \in Seq(LoopTypes) /\ Above(m) \in LoopTypes /\ R[m] = Append(r, Above(m))
    BY <1>2, <2>1, RootsDiffer
  <2>3. R[m] \in Children(s, r)
    BY <1>2, ChildrenAre
  <2>4. Reached(p)
    BY <1>2, <2>1
  <2> HIDE DEF r, p
  <2>5. /\ Len(r) \in Nat /\ Len(R[m]) = Len(r) + 1
        /\ SubSeq(R[m], 1, Len(R[m])) = R[m] /\ SubSeq(R[m], 1, Len(r)) = r
        /\ \A n \in 0 .. Len(r) : SubSeq(R[m], 1, n) = SubSeq(r, 1, n)
    BY <2>2, Beginnings
  <2>6. ASSUME NEW n \in 1 .. Len(R[m])
        PROVE  SubSeq(R[m], 1, n) \in Children(s, SubSeq(R[m], 1, n - 1))
    <3>1. CASE n = Len(R[m])
      <4>1. n - 1 = Len(r)
        BY <2>5, <3>1
      <4> QED
        BY <2>3, <2>5, <3>1, <4>1
    <3>2. CASE n # Len(R[m])
      <4>1. n \in 1 .. Len(r) /\ n \in 0 .. Len(r) /\ n - 1 \in 0 .. Len(r)
        BY <2>5, <3>2
      <4>2. SubSeq(r, 1, n) \in Children(s, SubSeq(r, 1, n - 1))
        BY <2>4, <4>1 DEF r
      <4>3. SubSeq(R[m], 1, n) = SubSeq(r, 1, n) /\ SubSeq(R[m], 1, n - 1) = SubSeq(r, 1, n - 1)
        BY <2>5, <4>1
      <4> QED
        BY <4>2, <4>3
    <3> QED
      BY <3>1, <3>2
  <2> QED
    BY <2>1, <2>6
<1> HIDE DEF S
<1>3. DOMAIN nest \subseteq S
  BY <1>1, <1>2, NodeInduction
<1> QED
  BY <1>3 DEF S

\* What is built back from an applied nest.
LEMMA BuiltBack ==
  ASSUME IInv, Branches, NEW s, s = Applied(nest)
  PROVE  LET root == RootOf(nest) IN
         /\ ~ Unscheduled(s)
         /\ BuiltRoots(s) = {root[m] : m \in DOMAIN nest}
         /\ \A m \in DOMAIN nest :
              LET built == SingleNode(s, root[m]) IN
              /\ built.tiles = nest[m].tiles /\ built.splits = nest[m].splits
              /\ built.interchange = nest[m].interchange
              /\ ChildOrigin(s, root[m]).axis = nest[m].origin.axis
              /\ ChildOrigin(s, root[m]).start = nest[m].origin.start
<1> DEFINE R == RootOf(nest)
<1>1. R = RootOf(nest)
  OBVIOUS
<1> HIDE DEF R
<1>2. BuiltRoots(s) \subseteq {R[m] : m \in DOMAIN nest}
  <2>1. BuiltRoots(s) \subseteq DOMAIN s.permutation
    BY DEF BuiltRoots
  <2>2. CASE DOMAIN nest = {}
    <3>1. DOMAIN s.permutation = {}
      BY <1>1, <2>2, AppliedIs DEF Dicts, Orders
    <3> QED
      BY <2>1, <3>1
  <2>3. CASE DOMAIN nest # {}
    BY <1>1, <2>1, <2>3, SingleNodeIs
  <2> QED
    BY <2>2, <2>3
<1>3. ASSUME NEW m \in DOMAIN nest PROVE R[m] \in BuiltRoots(s)
  <2>1. R[m] \in DOMAIN s.permutation
    BY <1>1, SingleNodeIs
  <2>2. \A n \in 1 .. Len(R[m]) : SubSeq(R[m], 1, n) \in Children(s, SubSeq(R[m], 1, n - 1))
    BY <1>1, ReachedFromRoot
  <2> QED
    BY <2>1, <2>2 DEF BuiltRoots
<1>4. ~ Unscheduled(s)
  <2> SUFFICES ASSUME NEW r \in BuiltRoots(s), ~ Children(s, r) \subseteq DOMAIN s.permutation PROVE FALSE
    BY DEF Unscheduled
  <2>1. PICK m \in DOMAIN nest : r = R[m]
    BY <1>2
  <2>2. Children(s, R[m]) \subseteq {R[x] : x \in DOMAIN nest}
    BY <1>1, ChildrenAre
  <2>3. DOMAIN s.permutation = {R[x] : x \in DOMAIN nest}
    BY <1>1, SingleNodeIs
  <2> QED
    BY <2>1, <2>2, <2>3
<1>5. ASSUME NEW m \in DOMAIN nest
      PROVE  /\ SingleNode(s, R[m]).tiles = nest[m].tiles /\ SingleNode(s, R[m]).splits = nest[m].splits
             /\ SingleNode(s, R[m]).interchange = nest[m].interchange
  BY <1>1, SingleNodeIs
<1>6. ASSUME NEW m \in DOMAIN nest
      PROVE  ChildOrigin(s, R[m]).axis = nest[m].origin.axis /\ ChildOrigin(s, R[m]).start = nest[m].origin.start
  <2>1. CASE m = 1
    <3>1. R[m] = DefaultRoot /\ nest[m].origin = NoOrigin
      BY <1>1, <2>1, RootsDiffer, NodeOfNest DEF DefaultRoot
    <3> QED
      BY <3>1 DEF ChildOrigin
  <2>2. CASE m # 1
    <3> DEFINE p == nest[m].parent
               r == R[p]
    <3>1. /\ p \in DOMAIN nest
          /\ nest[m].origin.start = nest[p].splits[nest[m].origin.axis][nest[m].segment]
      BY <2>2, NodeOfNest
    <3>2. r \in Seq(LoopTypes) /\ Above(m) \in LoopTypes /\ R[m] = Append(r, Above(m)) /\ R[m] # DefaultRoot
      BY <1>1, <2>2, <3>1, RootsDiffer DEF DefaultRoot
    <3>3. SingleNode(s, r).splits = nest[p].splits
      BY <1>5, <3>1
    <3> HIDE DEF p, r
    <3>4. Len(r) \in Nat /\ Len(R[m]) = Len(r) + 1 /\ R[m][Len(R[m])] = Above(m) /\ SubSeq(R[m], 1, Len(r)) = r
      BY <3>2, Beginnings
    <3>5. Last(R[m]) = Above(m)
      BY <3>4 DEF Last
    <3>6. Front(R[m]) = r
      <4>1. Len(R[m]) - 1 = Len(r)
        BY <3>4
      <4> QED
        BY <3>4, <4>1 DEF Front
    <3>7. Above(m).axis = nest[m].origin.axis /\ Above(m).n = nest[m].segment
      BY DEF Above, SplitLoop
    <3>8. /\ ChildOrigin(s, R[m]).axis = Above(m).axis
          /\ ChildOrigin(s, R[m]).start = SingleNode(s, r).splits[Above(m).axis][Above(m).n]
      BY <3>2, <3>5, <3>6 DEF ChildOrigin
    <3> QED
      BY <3>1, <3>3, <3>7, <3>8
  <2> QED
    BY <2>1, <2>2
<1> QED
  BY <1>2, <1>3, <1>4, <1>5, <1>6 DEF R

-----------------------------------------------------------------------------
(* The steps of the loops MLIR makes. *)

\* A fold over a set, from base on, in the order pick takes its elements away.
FoldsOver(S, V, base, step, pick) ==
  \E g \in [SUBSET S -> V] : \A T \in SUBSET S :
    g[T] = IF T = {} THEN base ELSE step[pick[T]][g[T \ {pick[T]}]]

\* There is one over a finite set.
LEMMA FoldExists ==
  ASSUME NEW S, IsFiniteSet(S), NEW V, NEW base \in V, NEW step \in [S -> [V -> V]],
         NEW pick \in [(SUBSET S) \ {{}} -> S], \A T \in (SUBSET S) \ {{}} : pick[T] \in T
  PROVE  FoldsOver(S, V, base, step, pick)
<1> DEFINE E(g, T) == IF T = {} THEN base ELSE step[pick[T]][g[T \ {pick[T]}]]
           Good(n, g) == \A T \in SUBSET S : Cardinality(T) <= n => g[T] = E(g, T)
           K == {n \in Nat : \E g \in [SUBSET S -> V] : Good(n, g)}
<1>1. \A T \in SUBSET S : IsFiniteSet(T) /\ Cardinality(T) \in Nat /\ Cardinality(T) <= Cardinality(S)
  BY FS_Subset, FS_CardinalityType
<1>2. ASSUME NEW T \in SUBSET S, NEW x \in T PROVE Cardinality(T \ {x}) = Cardinality(T) - 1
  BY <1>1, FS_RemoveElement
<1>3. 0 \in K
  <2> DEFINE g == [T \in SUBSET S |-> base]
  <2>1. ASSUME NEW T \in SUBSET S, Cardinality(T) <= 0 PROVE T = {}
    <3>1. IsFiniteSet(T) /\ Cardinality(T) = 0
      BY <1>1, <2>1
    <3> QED
      BY <3>1, FS_EmptySet
  <2>2. g \in [SUBSET S -> V]
    OBVIOUS
  <2>3. Good(0, g)
    BY <2>1
  <2> HIDE DEF g, Good
  <2> QED
    BY <2>2, <2>3
<1>4. ASSUME NEW n \in Nat, n \in K PROVE n + 1 \in K
  <2>1. PICK f \in [SUBSET S -> V] : Good(n, f)
    BY <1>4
  <2> DEFINE g == [T \in SUBSET S |-> E(f, T)]
  <2>2. \A T \in SUBSET S : T # {} => pick[T] \in T /\ pick[T] \in S /\ T \ {pick[T]} \in SUBSET S
    OBVIOUS
  <2>3. g \in [SUBSET S -> V]
    <3>1. ASSUME NEW T \in SUBSET S PROVE E(f, T) \in V
      BY <2>2
    <3> HIDE DEF E
    <3> QED
      BY <3>1
  <2>4. ASSUME NEW T \in SUBSET S, Cardinality(T) <= n + 1 PROVE g[T] = E(g, T)
    <3>1. CASE T = {}
      BY <3>1
    <3>2. CASE T # {}
      <4> DEFINE U == T \ {pick[T]}
      <4>1. pick[T] \in T /\ U \in SUBSET S
        BY <2>2, <3>2
      <4>2. Cardinality(U) = Cardinality(T) - 1 /\ Cardinality(T) \in Nat
        BY <1>1, <1>2, <4>1
      <4>3. Cardinality(U) <= n
        BY <2>4, <4>2
      <4> HIDE DEF E, U
      <4>4. f[U] = E(f, U)
        BY <2>1, <4>1, <4>3
      <4>5. g[U] = f[U] /\ g[T] = E(f, T)
        BY <4>1, <4>4
      <4> QED
        BY <3>2, <4>5 DEF E, U
    <3> QED
      BY <3>1, <3>2
  <2> HIDE DEF g, E
  <2>5. Good(n + 1, g)
    BY <2>4
  <2> HIDE DEF Good
  <2> QED
    BY <2>3, <2>5
<1> HIDE DEF K
<1>5. Cardinality(S) \in K
  BY <1>1, <1>3, <1>4, Induction
<1>6. PICK g \in [SUBSET S -> V] : Good(Cardinality(S), g)
  BY <1>5 DEF K
<1> HIDE DEF E
<1>7. \A T \in SUBSET S : g[T] = E(g, T)
  BY <1>1, <1>6
<1> QED
  BY <1>7 DEF E, FoldsOver

\* The first of the numbers from p to n.
LEMMA FirstNumber ==
  ASSUME NEW n \in Nat, NEW p \in 1 .. n
  PROVE  /\ p .. n \in SUBSET (1 .. n) /\ p .. n # {}
         /\ Min(p .. n) = p /\ (p .. n) \ {Min(p .. n)} = p + 1 .. n
<1>1. p \in p .. n /\ \A y \in p .. n : p <= y
  OBVIOUS
<1>2. Min(p .. n) \in p .. n /\ \A y \in p .. n : Min(p .. n) <= y
  BY <1>1 DEF Min
<1>3. Min(p .. n) = p
  BY <1>1, <1>2
<1> QED
  BY <1>1, <1>3

\* A set of numbers has a first one.
LEMMA MinOf ==
  ASSUME NEW n \in Nat, NEW T \in SUBSET (1 .. n), T # {}
  PROVE  Min(T) \in T
<1>1. T \in SUBSET Nat
  OBVIOUS
<1>2. \E t \in T : \A u \in T : t <= u
  BY <1>1, LeastNumber
<1> QED
  BY <1>2 DEF Min

\* A fold over the numbers to n, the first of them taken last.
FoldsUp(S, V, base, step) ==
  \E g \in [SUBSET S -> V] : \A T \in SUBSET S :
    g[T] = IF T = {} THEN base ELSE step[Min(T)][g[T \ {Min(T)}]]

LEMMA FoldOfNumbers ==
  ASSUME NEW n \in Nat, NEW V, NEW base \in V, NEW step \in [1 .. n -> [V -> V]]
  PROVE  FoldsUp(1 .. n, V, base, step)
<1> DEFINE S == 1 .. n
           pick == [T \in (SUBSET S) \ {{}} |-> Min(T)]
<1>1. IsFiniteSet(S)
  BY FS_Interval
<1>2. ASSUME NEW T \in (SUBSET S) \ {{}} PROVE Min(T) \in T /\ Min(T) \in S
  BY <1>2, MinOf
<1>3. /\ pick \in [(SUBSET S) \ {{}} -> S] /\ \A T \in (SUBSET S) \ {{}} : pick[T] \in T
      /\ \A T \in SUBSET S : T # {} => pick[T] = Min(T)
  BY <1>2
<1> HIDE DEF S, pick
<1>4. step \in [S -> [V -> V]]
  BY DEF S
<1>5. PICK g \in [SUBSET S -> V] : \A T \in SUBSET S :
        g[T] = IF T = {} THEN base ELSE step[pick[T]][g[T \ {pick[T]}]]
  <2>1. FoldsOver(S, V, base, step, pick)
    BY <1>1, <1>3, <1>4, FoldExists
  <2> QED
    BY <2>1 DEF FoldsOver
<1>6. \A T \in SUBSET S : g[T] = IF T = {} THEN base ELSE step[Min(T)][g[T \ {Min(T)}]]
  BY <1>3, <1>5
<1> QED
  BY <1>6 DEF S, FoldsUp

\* From the end.
LEMMA FromTheEnd ==
  ASSUME NEW x \in Nat, NEW y \in Nat, x + 1 <= y
  PROVE  y - x \in 1 .. y /\ y - x + 1 = y + 1 - x /\ y + 1 - (x + 1) = y - x /\ x <= y
OBVIOUS

\* What strip-mining keeps from loop to loop.
StripTypes == [tile : [Dims -> Nat], steps : Seq(Positions)]

\* The loops of a node, from the inside out, with what is inside it.
Stripped(n, inside) ==
  LET Strip(l, now) == StripMine(n, l, now)
  IN FoldRight(Strip, n.interchange, [tile |-> inside, steps |-> << >>])

\* One loop.
LEMMA StripType ==
  ASSUME NEW n \in NodeTypes, LoopsOf(n), NEW p \in DOMAIN n.interchange, NEW now \in StripTypes,
         NEW l, l = n.interchange[p]
  PROVE  StripMine(n, l, now) \in StripTypes
<1>1. l \in LoopTypes /\ l.axis \in Dims
  <2>1. n.interchange \in Seq(LoopTypes)
    BY DEF NodeTypes
  <2>2. p \in 1 .. Len(n.interchange)
    BY <2>1, LenProperties
  <2>3. n.interchange[p] \in LoopTypes
    BY <2>1, <2>2, ElementOfSeq
  <2> QED
    BY <2>3 DEF LoopTypes
<1>2. now.tile \in [Dims -> Nat] /\ now.steps \in Seq(Positions) /\ now = [tile |-> now.tile, steps |-> now.steps]
  BY DEF StripTypes
<1>3. ASSUME NEW x \in Positions PROVE <<x>> \o now.steps \in Seq(Positions)
  <2>1. <<x>> \in Seq(Positions)
    OBVIOUS
  <2> QED
    BY <1>2, <2>1, ConcatProperties
<1>4. now.tile[l.axis] \in Positions
  BY <1>1, <1>2 DEF Positions
<1>5. CASE l.kind = "split"
  <2>1. <<None>> \o now.steps \in Seq(Positions)
    BY <1>3 DEF Positions
  <2>2. StripMine(n, l, now) = [tile |-> now.tile, steps |-> <<None>> \o now.steps]
    BY <1>2, <1>5 DEF StripMine
  <2> QED
    BY <1>2, <2>1, <2>2 DEF StripTypes
<1>6. CASE l.kind = "axis"
  <2>1. <<now.tile[l.axis]>> \o now.steps \in Seq(Positions)
    BY <1>3, <1>4
  <2>2. StripMine(n, l, now) = [tile |-> now.tile, steps |-> <<now.tile[l.axis]>> \o now.steps]
    BY <1>6 DEF StripMine
  <2> QED
    BY <1>2, <2>1, <2>2 DEF StripTypes
<1>7. CASE l.kind = "tile"
  <2>1. <<now.tile[l.axis]>> \o now.steps \in Seq(Positions)
    BY <1>3, <1>4
  <2>2. LoopSize(n, l) \in Nat
    <3>1. l.n \in 1 .. Len(n.tiles[l.axis]) /\ n.tiles[l.axis] \in Seq(Nat)
      BY <1>1, <1>7 DEF LoopsOf, NodeTypes
    <3>2. n.tiles[l.axis][l.n] \in Nat
      BY <3>1, ElementOfSeq
    <3> QED
      BY <1>7, <3>2 DEF LoopSize
  <2>3. StripMine(n, l, now) = [tile |-> [now.tile EXCEPT ![l.axis] = LoopSize(n, l)],
                                steps |-> <<now.tile[l.axis]>> \o now.steps]
    BY <1>7 DEF StripMine
  <2>4. [now.tile EXCEPT ![l.axis] = LoopSize(n, l)] \in [Dims -> Nat]
    BY <1>1, <1>2, <2>2
  <2> QED
    BY <2>1, <2>3, <2>4 DEF StripTypes
<1> QED
  BY <1>1, <1>5, <1>6, <1>7 DEF LoopTypes

\* The loops of a node one after the other, the last one first.
LEMMA NodeStripped ==
  ASSUME NEW n \in NodeTypes, LoopsOf(n), NEW inside \in [Dims -> Nat],
         NEW L, L = Len(n.interchange)
  PROVE  \E st \in [1 .. L + 1 -> StripTypes] :
           /\ st[L + 1] = [tile |-> inside, steps |-> << >>]
           /\ \A p \in 1 .. L : st[p] = StripMine(n, n.interchange[p], st[p + 1])
           /\ Stripped(n, inside) = st[1]
<1> DEFINE seq  == n.interchange
           S    == DOMAIN n.interchange
           base == [tile |-> inside, steps |-> << >>]
           E(f, T) == IF T = {} THEN base ELSE StripMine(n, seq[Min(T)], f[T \ {Min(T)}])
           Is(f) == f = [T \in SUBSET S |-> E(f, T)]
           h == CHOOSE f : Is(f)
<1>1. Stripped(n, inside) = h[S]
  BY DEF Stripped, FoldRight, MapThenFoldSet
<1>2. L \in Nat /\ S = 1 .. L
  BY LenProperties DEF NodeTypes
<1>3. base \in StripTypes
  <2>1. << >> \in Seq(Positions)
    BY EmptySeq
  <2> QED
    BY <2>1 DEF StripTypes
<1> HIDE DEF base, S
<1>4. ASSUME NEW T \in SUBSET S, T # {} PROVE Min(T) \in T
  BY <1>2, <1>4, MinOf
<1>5. \E g : (\A T \in SUBSET S : g[T] \in StripTypes) /\ Is(g)
  <2> DEFINE step == [p \in S |-> [now \in StripTypes |-> StripMine(n, seq[p], now)]]
  <2>1. step \in [S -> [StripTypes -> StripTypes]]
    BY StripType DEF S
  <2> HIDE DEF step
  <2>2. PICK g \in [SUBSET S -> StripTypes] : \A T \in SUBSET S :
          g[T] = IF T = {} THEN base ELSE step[Min(T)][g[T \ {Min(T)}]]
    <3>1. FoldsUp(S, StripTypes, base, step)
      BY <1>2, <1>3, <2>1, FoldOfNumbers
    <3> QED
      BY <3>1 DEF FoldsUp
  <2>3. ASSUME NEW T \in SUBSET S PROVE g[T] = E(g, T)
    <3>1. CASE T = {}
      BY <2>2, <3>1
    <3>2. CASE T # {}
      <4>1. Min(T) \in S /\ g[T \ {Min(T)}] \in StripTypes
        BY <1>4, <2>2, <3>2
      <4>2. step[Min(T)][g[T \ {Min(T)}]] = StripMine(n, seq[Min(T)], g[T \ {Min(T)}])
        BY <4>1 DEF step
      <4> QED
        BY <2>2, <3>2, <4>1, <4>2
    <3> QED
      BY <3>1, <3>2
  <2> HIDE DEF E
  <2>4. Is(g)
    BY <2>3
  <2> HIDE DEF Is
  <2> QED
    BY <2>4
<1>6. Is(h)
  <2> HIDE DEF Is
  <2> QED
    BY <1>5
<1> HIDE DEF h
<1>7. ASSUME NEW T \in SUBSET S PROVE h[T] = E(h, T)
  <2> HIDE DEF E
  <2> QED
    BY <1>6
<1> HIDE DEF Is
<1> DEFINE st == [p \in 1 .. L + 1 |-> h[p .. L]]
<1>8. st[L + 1] = base
  <2>1. L + 1 .. L = {} /\ L + 1 \in 1 .. L + 1
    BY <1>2
  <2>2. h[{}] = base
    BY <1>7
  <2> QED
    BY <2>1, <2>2
<1>9. ASSUME NEW p \in 1 .. L PROVE st[p] = StripMine(n, seq[p], st[p + 1])
  <2>1. /\ p .. L \in SUBSET S /\ p .. L # {} /\ Min(p .. L) = p
        /\ (p .. L) \ {Min(p .. L)} = p + 1 .. L
    BY <1>2, FirstNumber
  <2>2. p \in 1 .. L + 1 /\ p + 1 \in 1 .. L + 1
    BY <1>2
  <2>3. h[p .. L] = StripMine(n, seq[p], h[p + 1 .. L])
    BY <1>7, <2>1
  <2> QED
    BY <2>2, <2>3
<1>10. st[1] = Stripped(n, inside)
  BY <1>1, <1>2
<1>11. st \in [1 .. L + 1 -> StripTypes]
  <2> HIDE DEF E
  <2> DEFINE T == {k \in Nat : k <= L => st[L + 1 - k] \in StripTypes}
  <2>1. st = [p \in 1 .. L + 1 |-> st[p]]
    OBVIOUS
  <2> HIDE DEF st
  <2>2. 0 \in T
    BY <1>2, <1>3, <1>8
  <2>3. ASSUME NEW k \in Nat, k \in T PROVE k + 1 \in T
    <3>1. ASSUME k + 1 <= L PROVE st[L + 1 - (k + 1)] \in StripTypes
      <4> DEFINE p == L - k
      <4>1. p \in 1 .. L /\ p + 1 = L + 1 - k /\ L + 1 - (k + 1) = p /\ k <= L
        BY <1>2, <3>1, FromTheEnd
      <4>2. st[L + 1 - k] \in StripTypes
        BY <2>3, <4>1
      <4> HIDE DEF p, T
      <4>3. st[p + 1] \in StripTypes /\ p \in DOMAIN n.interchange
        BY <1>2, <4>1, <4>2 DEF S
      <4>4. st[p] \in StripTypes
        BY <1>9, <4>1, <4>3, StripType
      <4> QED
        BY <4>1, <4>4
    <3>2. k + 1 \in Nat
      OBVIOUS
    <3> QED
      BY <3>1, <3>2
  <2> HIDE DEF T
  <2>4. Nat \subseteq T
    BY <2>2, <2>3, Induction
  <2>5. ASSUME NEW p \in 1 .. L + 1 PROVE st[p] \in StripTypes
    <3> DEFINE k == L + 1 - p
    <3>1. k \in Nat /\ k <= L /\ L + 1 - k = p
      BY <1>2
    <3> HIDE DEF k
    <3> QED
      BY <2>4, <3>1 DEF T
  <2> QED
    BY <2>1, <2>5
<1> HIDE DEF st
<1> QED
  BY <1>8, <1>9, <1>10, <1>11 DEF base

\* Elements of A are put in front of a sequence one after the other, the last one first.
Prepends(A, n, x, ss) ==
  /\ x \in [1 .. n -> A] /\ ss \in [1 .. n + 1 -> Seq(A)]
  /\ ss[n + 1] = << >> /\ \A p \in 1 .. n : ss[p] = <<x[p]>> \o ss[p + 1]

\* They are the sequence.
LEMMA Prepended ==
  ASSUME NEW A, NEW n \in Nat, NEW x, NEW ss, Prepends(A, n, x, ss)
  PROVE  \A k \in 1 .. n : ss[1][k] = x[k]
<1> DEFINE Ok(p) == Len(ss[p]) = n + 1 - p /\ \A k \in 1 .. n + 1 - p : ss[p][k] = x[p + k - 1]
           T == {d \in Nat : d <= n => Ok(n + 1 - d)}
<1>1. \A p \in 1 .. n : /\ p + 1 \in 1 .. n + 1 /\ x[p] \in A /\ ss[p + 1] \in Seq(A)
                        /\ ss[p] = <<x[p]>> \o ss[p + 1]
  <2>1. \A p \in 1 .. n : p \in 1 .. n + 1 /\ p + 1 \in 1 .. n + 1
    OBVIOUS
  <2> QED
    BY <2>1 DEF Prepends
<1>2. 0 \in T
  <2>1. n + 1 - 0 = n + 1 /\ n + 1 - (n + 1) = 0 /\ Len(ss[n + 1]) = 0
    BY EmptySeq DEF Prepends
  <2>2. Ok(n + 1)
    BY <2>1
  <2> HIDE DEF Ok
  <2> QED
    BY <2>1, <2>2
<1>3. ASSUME NEW p \in 1 .. n, Ok(p + 1) PROVE Ok(p)
  <2> DEFINE s == ss[p + 1]
  <2>1. s \in Seq(A) /\ x[p] \in A /\ ss[p] = <<x[p]>> \o s
    BY <1>1
  <2>2. <<x[p]>> \in Seq(A) /\ Len(<<x[p]>>) = 1 /\ <<x[p]>>[1] = x[p]
    BY <2>1
  <2>3. Len(s) = n - p /\ \A k \in 1 .. n - p : s[k] = x[p + 1 + k - 1]
    BY <1>3
  <2> HIDE DEF s
  <2>4. Len(ss[p]) = 1 + Len(s) /\ \A k \in 1 .. 1 + Len(s) : ss[p][k] = IF k <= 1 THEN <<x[p]>>[k] ELSE s[k - 1]
    BY <2>1, <2>2, ConcatProperties
  <2>5. Len(ss[p]) = n + 1 - p
    BY <2>3, <2>4
  <2>6. ASSUME NEW k \in 1 .. n + 1 - p PROVE ss[p][k] = x[p + k - 1]
    <3>1. CASE k = 1
      <4>1. p + k - 1 = p /\ k <= 1 /\ k \in 1 .. 1 + Len(s)
        BY <2>3, <3>1
      <4> QED
        BY <2>2, <2>4, <3>1, <4>1
    <3>2. CASE k # 1
      <4>1. k - 1 \in 1 .. n - p /\ ~ (k <= 1) /\ k \in 1 .. 1 + Len(s) /\ p + 1 + (k - 1) - 1 = p + k - 1
        BY <2>3, <3>2
      <4>2. s[k - 1] = x[p + 1 + (k - 1) - 1]
        BY <2>3, <4>1
      <4>3. ss[p][k] = s[k - 1]
        BY <2>4, <4>1
      <4> QED
        BY <4>1, <4>2, <4>3
    <3> QED
      BY <3>1, <3>2
  <2> QED
    BY <2>5, <2>6
<1> HIDE DEF Ok
<1>4. ASSUME NEW d \in Nat, d \in T PROVE d + 1 \in T
  <2>1. ASSUME d + 1 <= n PROVE Ok(n + 1 - (d + 1))
    <3> DEFINE p == n - d
    <3>1. p \in 1 .. n /\ p + 1 = n + 1 - d /\ n + 1 - (d + 1) = p /\ d <= n
      BY <2>1, FromTheEnd
    <3>2. Ok(n + 1 - d)
      BY <1>4, <3>1
    <3> HIDE DEF p, T
    <3>3. Ok(p)
      BY <1>3, <3>1, <3>2
    <3> QED
      BY <3>1, <3>3
  <2>2. d + 1 \in Nat
    OBVIOUS
  <2> QED
    BY <2>1, <2>2
<1> HIDE DEF T
<1>5. n \in T
  BY <1>2, <1>4, Induction
<1>6. Ok(1)
  <2>1. n + 1 - n = 1 /\ n <= n
    OBVIOUS
  <2> QED
    BY <1>5, <2>1 DEF T
<1> QED
  <2>1. n + 1 - 1 = n /\ \A k \in 1 .. n : 1 + k - 1 = k
    OBVIOUS
  <2> QED
    BY <1>6, <2>1 DEF Ok

\* t is the tile of each axis before each loop of a node, from the inside out: the step of a
\* loop is that of its axis when the loops inside are done.
Passes(n, inside, t) ==
  LET L == Len(n.interchange)  done == Stripped(n, inside) IN
  /\ t \in [1 .. L + 1 -> [Dims -> Nat]] /\ t[L + 1] = inside /\ done.tile = t[1]
  /\ \A p \in 1 .. L :
       LET l == n.interchange[p] IN
       /\ t[p] = IF l.kind = "tile" THEN [t[p + 1] EXCEPT ![l.axis] = LoopSize(n, l)]
                 ELSE t[p + 1]
       /\ done.steps[p] = IF l.kind = "split" THEN None ELSE t[p + 1][l.axis]

\* Strip-mining a node goes that way.
LEMMA NodeSteps ==
  ASSUME NEW n \in NodeTypes, LoopsOf(n), NEW inside \in [Dims -> Nat]
  PROVE  \E t : Passes(n, inside, t)
<1> DEFINE L == Len(n.interchange)
<1>1. L \in Nat /\ DOMAIN n.interchange = 1 .. L /\ \A p \in 1 .. L : n.interchange[p] \in LoopTypes
  <2>1. n.interchange \in Seq(LoopTypes)
    BY DEF NodeTypes
  <2> QED
    BY <2>1, LenProperties, ElementOfSeq
<1>2. PICK st \in [1 .. L + 1 -> StripTypes] :
        /\ st[L + 1] = [tile |-> inside, steps |-> << >>]
        /\ \A p \in 1 .. L : st[p] = StripMine(n, n.interchange[p], st[p + 1])
        /\ Stripped(n, inside) = st[1]
  BY NodeStripped
<1> DEFINE t  == [p \in 1 .. L + 1 |-> st[p].tile]
           ss == [p \in 1 .. L + 1 |-> st[p].steps]
           x  == [p \in 1 .. L |-> IF n.interchange[p].kind = "split" THEN None
                                    ELSE t[p + 1][n.interchange[p].axis]]
<1>3. \A p \in 1 .. L + 1 : st[p].tile \in [Dims -> Nat] /\ st[p].steps \in Seq(Positions)
  BY DEF StripTypes
<1>4. 1 \in 1 .. L + 1 /\ L + 1 \in 1 .. L + 1 /\ \A p \in 1 .. L : p \in 1 .. L + 1 /\ p + 1 \in 1 .. L + 1
  BY <1>1
<1>5. t \in [1 .. L + 1 -> [Dims -> Nat]] /\ ss \in [1 .. L + 1 -> Seq(Positions)]
  BY <1>3
<1>6. t[L + 1] = inside /\ ss[L + 1] = << >> /\ t[1] = Stripped(n, inside).tile /\ ss[1] = Stripped(n, inside).steps
  BY <1>2, <1>4
<1>7. \A p \in 1 .. L : /\ t[p] = st[p].tile /\ t[p + 1] = st[p + 1].tile
                        /\ ss[p] = st[p].steps /\ ss[p + 1] = st[p + 1].steps
  BY <1>4
<1>8. x \in [1 .. L -> Positions] /\ \A p \in 1 .. L : x[p] = IF n.interchange[p].kind = "split" THEN None
                                    ELSE t[p + 1][n.interchange[p].axis]
  <2>1. ASSUME NEW p \in 1 .. L PROVE t[p + 1][n.interchange[p].axis] \in Positions
    <3>1. n.interchange[p].axis \in Dims
      BY <1>1 DEF LoopTypes
    <3>2. t[p + 1] \in [Dims -> Nat]
      BY <1>4, <1>5
    <3> HIDE DEF t
    <3> QED
      BY <3>1, <3>2 DEF Positions
  <2> HIDE DEF t
  <2> QED
    BY <2>1 DEF Positions
<1> HIDE DEF t, ss, x
<1>9. ASSUME NEW p \in 1 .. L, NEW l, l = n.interchange[p]
      PROVE  /\ t[p] = IF l.kind = "tile" THEN [t[p + 1] EXCEPT ![l.axis] = LoopSize(n, l)] ELSE t[p + 1]
             /\ ss[p] = <<x[p]>> \o ss[p + 1]
  <2>1. st[p] = StripMine(n, l, st[p + 1]) /\ st[p + 1] \in StripTypes /\ l \in LoopTypes
    BY <1>1, <1>2, <1>4, <1>9
  <2>2. PICK now \in StripTypes : now = st[p + 1]
    BY <2>1
  <2>3. now = [tile |-> now.tile, steps |-> now.steps]
    BY DEF StripTypes
  <2>4. x[p] = IF l.kind = "split" THEN None ELSE now.tile[l.axis]
    BY <1>7, <1>8, <1>9, <2>2
  <2>5. /\ StripMine(n, l, now).tile = IF l.kind = "tile" THEN [now.tile EXCEPT ![l.axis] = LoopSize(n, l)] ELSE now.tile
        /\ StripMine(n, l, now).steps = <<IF l.kind = "split" THEN None ELSE now.tile[l.axis]>> \o now.steps
    <3>1. l.kind \in {"axis", "tile", "split"}
      BY <2>1 DEF LoopTypes
    <3>2. CASE l.kind = "split"
      BY <2>3, <3>2 DEF StripMine
    <3>3. CASE l.kind = "axis"
      BY <3>3 DEF StripMine
    <3>4. CASE l.kind = "tile"
      BY <3>4 DEF StripMine
    <3> QED
      BY <3>1, <3>2, <3>3, <3>4
  <2> QED
    BY <1>7, <2>1, <2>2, <2>4, <2>5
<1>10. \A p \in 1 .. L : ss[1][p] = x[p]
  <2>1. \A p \in 1 .. L : ss[p] = <<x[p]>> \o ss[p + 1]
    BY <1>9
  <2>2. Prepends(Positions, L, x, ss)
    BY <1>5, <1>6, <1>8, <2>1 DEF Prepends
  <2>3. ASSUME NEW y \in Nat, Prepends(Positions, y, x, ss)
        PROVE  \A k \in 1 .. y : ss[1][k] = x[k]
    BY <2>3, Prepended
  <2> QED
    BY <1>1, <2>2, <2>3
<1>11. Passes(n, inside, t)
  BY <1>5, <1>6, <1>8, <1>9, <1>10 DEF Passes
<1> QED
  BY <1>11

\* What is kept from node to node.
NestTypes == [tile : [Dims -> Nat], steps : Seq(Seq(Positions))]

\* One node.
Mined(m, now) ==
  LET done == Stripped(nest[m], Carried(nest, m, now.tile))
  IN [tile |-> done.tile, steps |-> <<done.steps>> \o now.steps]

\* Each node takes over, or begins with 1 for every axis.
LEMMA CarriedType ==
  ASSUME NEW m, NEW sizes \in [Dims -> Nat]
  PROVE  Carried(nest, m, sizes) \in [Dims -> Nat]
BY DEF Carried, UnitTiles

\* The loops of a node leave tiles and steps.
LEMMA StrippedType ==
  ASSUME NEW n \in NodeTypes, LoopsOf(n), NEW inside \in [Dims -> Nat]
  PROVE  Stripped(n, inside).tile \in [Dims -> Nat] /\ Stripped(n, inside).steps \in Seq(Positions)
<1> DEFINE L == Len(n.interchange)
<1>1. PICK st \in [1 .. L + 1 -> StripTypes] : Stripped(n, inside) = st[1]
  BY NodeStripped
<1>2. L \in Nat
  BY LenProperties DEF NodeTypes
<1> HIDE DEF L
<1>3. 1 \in 1 .. L + 1
  BY <1>2
<1>4. Stripped(n, inside) \in StripTypes
  BY <1>1, <1>3
<1> QED
  BY <1>4 DEF StripTypes

LEMMA MinedType ==
  ASSUME IInv, NEW m \in DOMAIN nest, NEW now \in NestTypes
  PROVE  Mined(m, now) \in NestTypes
<1> DEFINE done == Stripped(nest[m], Carried(nest, m, now.tile))
<1>1. nest[m] \in NodeTypes /\ LoopsOf(nest[m])
  BY NestShape DEF IInv, Tree
<1>2. now.tile \in [Dims -> Nat] /\ now.steps \in Seq(Seq(Positions))
  BY DEF NestTypes
<1>3. Carried(nest, m, now.tile) \in [Dims -> Nat]
  BY <1>2, CarriedType
<1>4. done.tile \in [Dims -> Nat] /\ done.steps \in Seq(Positions)
  BY <1>1, <1>3, StrippedType
<1> HIDE DEF done
<1>5. <<done.steps>> \in Seq(Seq(Positions))
  BY <1>4
<1>6. <<done.steps>> \o now.steps \in Seq(Seq(Positions))
  BY <1>2, <1>5, ConcatProperties
<1>7. Mined(m, now) = [tile |-> done.tile, steps |-> <<done.steps>> \o now.steps]
  BY DEF Mined, done
<1> QED
  BY <1>4, <1>6, <1>7 DEF NestTypes

\* The nodes one after the other, the last one first.
LEMMA NestMined ==
  ASSUME IInv
  PROVE  \E all \in [1 .. Len(nest) + 1 -> NestTypes] :
           /\ all[Len(nest) + 1] = [tile |-> UnitTiles, steps |-> << >>]
           /\ \A m \in 1 .. Len(nest) : all[m] = Mined(m, all[m + 1])
           /\ Steps(nest) = all[1].steps
<1> DEFINE N    == Len(nest)
           S    == 1 .. N
           base == [tile |-> UnitTiles, steps |-> << >>]
           seq  == [m \in DOMAIN nest |-> m]
           E(f, T) == IF T = {} THEN base ELSE Mined(seq[Min(T)], f[T \ {Min(T)}])
           Is(f) == f = [T \in SUBSET (DOMAIN seq) |-> E(f, T)]
           h == CHOOSE f : Is(f)
<1>1. Steps(nest) = h[DOMAIN seq].steps
  BY DEF Steps, Mined, Stripped, FoldRight, MapThenFoldSet
<1>2. N \in Nat /\ DOMAIN nest = S /\ DOMAIN seq = S /\ \A m \in S : seq[m] = m
  BY NestShape DEF IInv
<1>3. base \in NestTypes
  <2>1. << >> \in Seq(Seq(Positions))
    BY EmptySeq
  <2> QED
    BY <2>1 DEF NestTypes, UnitTiles
<1> HIDE DEF base, seq
<1>4. ASSUME NEW T \in SUBSET S, T # {} PROVE Min(T) \in T /\ seq[Min(T)] = Min(T)
  BY <1>2, <1>4, MinOf
<1>5. \E g : Is(g)
  <2> DEFINE step == [m \in S |-> [now \in NestTypes |-> Mined(m, now)]]
  <2>1. step \in [S -> [NestTypes -> NestTypes]]
    BY <1>2, MinedType
  <2> HIDE DEF step
  <2>2. PICK g \in [SUBSET S -> NestTypes] : \A T \in SUBSET S :
          g[T] = IF T = {} THEN base ELSE step[Min(T)][g[T \ {Min(T)}]]
    <3>1. FoldsUp(S, NestTypes, base, step)
      BY <1>2, <1>3, <2>1, FoldOfNumbers
    <3> QED
      BY <3>1 DEF FoldsUp
  <2> HIDE DEF S
  <2>3. ASSUME NEW T \in SUBSET S PROVE g[T] = E(g, T)
    <3>1. CASE T = {}
      BY <2>2, <3>1
    <3>2. CASE T # {}
      <4>1. Min(T) \in S /\ g[T \ {Min(T)}] \in NestTypes /\ seq[Min(T)] = Min(T)
        BY <1>4, <2>2, <3>2
      <4>2. step[Min(T)][g[T \ {Min(T)}]] = Mined(seq[Min(T)], g[T \ {Min(T)}])
        BY <4>1 DEF step
      <4> QED
        BY <2>2, <3>2, <4>1, <4>2
    <3> QED
      BY <3>1, <3>2
  <2> HIDE DEF E
  <2>4. Is(g)
    BY <1>2, <2>3
  <2> HIDE DEF Is
  <2> QED
    BY <2>4
<1>6. Is(h)
  <2> HIDE DEF Is
  <2> QED
    BY <1>5
<1> HIDE DEF h, S
<1>7. ASSUME NEW T \in SUBSET S PROVE h[T] = E(h, T)
  <2> HIDE DEF E
  <2> QED
    BY <1>2, <1>6
<1> HIDE DEF Is
<1> DEFINE all == [m \in 1 .. N + 1 |-> h[m .. N]]
<1>8. all[N + 1] = base
  <2>1. N + 1 .. N = {} /\ N + 1 \in 1 .. N + 1
    BY <1>2
  <2>2. h[{}] = base
    BY <1>7
  <2> QED
    BY <2>1, <2>2
<1>9. ASSUME NEW m \in 1 .. N PROVE all[m] = Mined(m, all[m + 1])
  <2>1. /\ m .. N \in SUBSET S /\ m .. N # {} /\ Min(m .. N) = m
        /\ (m .. N) \ {Min(m .. N)} = m + 1 .. N
    BY <1>2, FirstNumber DEF S
  <2>2. m \in 1 .. N + 1 /\ m + 1 \in 1 .. N + 1 /\ seq[m] = m
    BY <1>2 DEF S
  <2>3. h[m .. N] = Mined(m, h[m + 1 .. N])
    BY <1>7, <2>1, <2>2
  <2> QED
    BY <2>2, <2>3
<1>10. Steps(nest) = all[1].steps
  BY <1>1, <1>2 DEF S
<1>11. all \in [1 .. N + 1 -> NestTypes]
  <2> HIDE DEF E
  <2> DEFINE T == {k \in Nat : k <= N => all[N + 1 - k] \in NestTypes}
  <2>1. all = [m \in 1 .. N + 1 |-> all[m]]
    OBVIOUS
  <2> HIDE DEF all
  <2>2. 0 \in T
    BY <1>2, <1>3, <1>8
  <2>3. ASSUME NEW k \in Nat, k \in T PROVE k + 1 \in T
    <3>1. ASSUME k + 1 <= N PROVE all[N + 1 - (k + 1)] \in NestTypes
      <4> DEFINE m == N - k
      <4>1. m \in 1 .. N /\ m + 1 = N + 1 - k /\ N + 1 - (k + 1) = m /\ k <= N
        BY <1>2, <3>1, FromTheEnd
      <4>2. all[N + 1 - k] \in NestTypes
        BY <2>3, <4>1
      <4> HIDE DEF m, T
      <4>3. all[m + 1] \in NestTypes /\ m \in DOMAIN nest
        BY <1>2, <4>1, <4>2 DEF S
      <4>4. all[m] \in NestTypes
        BY <1>9, <4>1, <4>3, MinedType
      <4> QED
        BY <4>1, <4>4
    <3>2. k + 1 \in Nat
      OBVIOUS
    <3> QED
      BY <3>1, <3>2
  <2> HIDE DEF T
  <2>4. Nat \subseteq T
    BY <2>2, <2>3, Induction
  <2>5. ASSUME NEW m \in 1 .. N + 1 PROVE all[m] \in NestTypes
    <3> DEFINE k == N + 1 - m
    <3>1. k \in Nat /\ k <= N /\ N + 1 - k = m
      BY <1>2
    <3> HIDE DEF k
    <3> QED
      BY <2>4, <3>1 DEF T
  <2> QED
    BY <2>1, <2>5
<1> HIDE DEF all
<1> QED
  BY <1>8, <1>9, <1>10, <1>11 DEF base

\* An earlier node that leads to a node is its parent.
LEMMA PathOf ==
  ASSUME IInv, Branches, NEW m \in 1 .. Len(nest), m + 1 \in 1 .. Len(nest)
  PROVE  m \in PathTo(nest, m + 1) <=> nest[m + 1].parent = m
<1> DEFINE N == m + 1
           E(f, x) == IF x = 0 THEN {} ELSE f[nest[x].parent] \cup {x}
           Is(f) == f = [x \in 0 .. N |-> E(f, x)]
           path == CHOOSE f : Is(f)
           S == {n \in Nat : n <= N => \E f : f = [x \in 0 .. n |-> E(f, x)]}
<1>1. Len(nest) \in Nat /\ N \in Nat /\ N <= Len(nest) /\ DOMAIN nest = 1 .. Len(nest)
  BY NestShape DEF IInv
<1>2. ASSUME NEW x \in 1 .. N PROVE nest[x].parent \in 0 .. x - 1
  <2>1. x \in DOMAIN nest
    BY <1>1
  <2>2. nest[x].parent = 0 \/ nest[x].parent \in 1 .. x - 1
    BY <2>1, NodeOfNest
  <2> QED
    BY <2>2
<1>3. 0 \in S
  <2> DEFINE f == [x \in 0 .. 0 |-> {}]
  <2>1. \A x \in 0 .. 0 : x = 0
    OBVIOUS
  <2>2. f = [x \in 0 .. 0 |-> E(f, x)]
    BY <2>1
  <2> HIDE DEF E
  <2> QED
    BY <2>2
<1>4. ASSUME NEW n \in Nat, n \in S PROVE n + 1 \in S
  <2>1. ASSUME n + 1 <= N PROVE \E f : f = [x \in 0 .. n + 1 |-> E(f, x)]
    <3>1. PICK f : f = [x \in 0 .. n |-> E(f, x)]
      <4>1. n <= N
        BY <1>1, <2>1
      <4> HIDE DEF E
      <4> QED
        BY <1>4, <4>1
    <3> DEFINE g == [x \in 0 .. n + 1 |-> E(f, x)]
    <3>2. ASSUME NEW x \in 0 .. n + 1 PROVE E(g, x) = E(f, x)
      <4>1. CASE x = 0
        BY <4>1
      <4>2. CASE x # 0
        <5> DEFINE p == nest[x].parent
        <5>1. x \in 1 .. N
          BY <1>1, <2>1, <4>2
        <5>2. p \in 0 .. n /\ p \in 0 .. n + 1
          <6>1. p \in 0 .. x - 1
            BY <1>2, <5>1
          <6> HIDE DEF p
          <6> QED
            BY <6>1
        <5> HIDE DEF p, E
        <5>3. f[p] = E(f, p)
          BY <3>1, <5>2
        <5>4. g[p] = E(f, p)
          BY <5>2
        <5> HIDE DEF g
        <5> QED
          BY <5>3, <5>4 DEF E, p
      <4> QED
        BY <4>1, <4>2
    <3>3. g = [x \in 0 .. n + 1 |-> E(g, x)]
      <4> HIDE DEF E
      <4>1. g = [x \in 0 .. n + 1 |-> E(f, x)]
        OBVIOUS
      <4> HIDE DEF g
      <4> QED
        BY <3>2, <4>1
    <3> HIDE DEF g, E
    <3> QED
      BY <3>3
  <2>2. n + 1 \in Nat
    OBVIOUS
  <2> HIDE DEF E
  <2> QED
    BY <2>1, <2>2
<1>5. \E f : Is(f)
  <2> HIDE DEF S, E
  <2>1. N \in S
    BY <1>1, <1>3, <1>4, Induction
  <2> QED
    BY <1>1, <2>1 DEF S
<1>6. PathTo(nest, m + 1) = path[N]
  BY DEF PathTo
<1>7. Is(path)
  <2> HIDE DEF Is
  <2> QED
    BY <1>5
<1> HIDE DEF path
<1>8. ASSUME NEW x \in 0 .. N PROVE path[x] = E(path, x)
  <2> HIDE DEF E
  <2> QED
    BY <1>7
<1> HIDE DEF Is, S
<1>9. path[0] = {}
  <2>1. 0 \in 0 .. N
    BY <1>1
  <2>2. path[0] = E(path, 0)
    <3> HIDE DEF E
    <3> QED
      BY <1>8, <2>1
  <2> QED
    BY <2>2
<1>10. ASSUME NEW x \in 1 .. N PROVE path[x] = path[nest[x].parent] \cup {x}
  <2>1. x \in 0 .. N /\ x # 0
    BY <1>1
  <2>2. path[x] = E(path, x)
    <3> HIDE DEF E
    <3> QED
      BY <1>8, <2>1
  <2> QED
    BY <2>1, <2>2
<1> HIDE DEF E
\* A path is of nodes up to its own.
<1>11. ASSUME NEW x \in 0 .. N PROVE path[x] \subseteq 1 .. x
  <2> DEFINE T == {n \in Nat : \A y \in 0 .. N : y <= n => path[y] \subseteq 1 .. y}
  <2>1. 0 \in T
    <3>1. \A y \in 0 .. N : y <= 0 => y = 0
      BY <1>1
    <3> QED
      BY <1>9, <3>1
  <2>2. ASSUME NEW n \in Nat, n \in T PROVE n + 1 \in T
    <3>1. ASSUME NEW y \in 0 .. N, y <= n + 1 PROVE path[y] \subseteq 1 .. y
      <4>1. CASE y <= n
        BY <2>2, <4>1
      <4>2. CASE ~ (y <= n)
        <5> DEFINE p == nest[y].parent
        <5>1. y \in 1 .. N /\ y = n + 1
          BY <1>1, <3>1, <4>2
        <5>2. p \in 0 .. y - 1
          BY <1>2, <5>1
        <5>3. path[y] = path[p] \cup {y}
          BY <1>10, <5>1
        <5> HIDE DEF p
        <5>4. p \in 0 .. N /\ p <= n
          BY <1>1, <5>1, <5>2
        <5>5. path[p] \subseteq 1 .. p
          BY <2>2, <5>4
        <5> HIDE DEF T
        <5>6. \A z \in 1 .. p : z \in 1 .. y
          BY <5>1, <5>2
        <5> QED
          BY <5>1, <5>3, <5>5, <5>6
      <4> QED
        BY <4>1, <4>2
    <3>2. n + 1 \in Nat
      OBVIOUS
    <3> QED
      BY <3>1, <3>2
  <2> HIDE DEF T
  <2>3. Nat \subseteq T
    BY <2>1, <2>2, Induction
  <2>4. x \in Nat /\ x <= x
    BY <1>1
  <2> QED
    BY <2>3, <2>4 DEF T
<1> DEFINE p == nest[N].parent
<1>12. N \in 0 .. N /\ N \in 1 .. N /\ N # m /\ m \in 0 .. N
  BY <1>1
<1>13. p \in 0 .. m
  BY <1>2, <1>12
<1>14. path[N] = path[p] \cup {N}
  BY <1>10, <1>12
<1> HIDE DEF p, N
<1>15. p \in 0 .. N
  BY <1>1, <1>13 DEF N
<1>16. m \in 1 .. N
  BY <1>1 DEF N
<1>17. CASE p = m
  <2>1. path[m] = path[nest[m].parent] \cup {m}
    BY <1>10, <1>16
  <2> QED
    BY <1>6, <1>14, <1>17, <2>1 DEF N, p
<1>18. CASE p # m
  <2>1. m \notin 1 .. p
    BY <1>13, <1>18
  <2>2. m \notin path[p]
    BY <1>11, <1>15, <2>1
  <2> QED
    BY <1>6, <1>12, <1>14, <1>18, <2>2 DEF N, p
<1> QED
  BY <1>17, <1>18

\* The first branch of a node goes on with its first segment, if it has one.
LEMMA BranchOf ==
  ASSUME NEW N \in Nat, N = Len(nest), NEW m \in 1 .. N
  PROVE  /\ m \in FirstBranch(m)
         /\ m < N /\ nest[m + 1].parent = m => FirstBranch(m) = {m} \cup FirstBranch(m + 1)
         /\ ~ (m < N /\ nest[m + 1].parent = m) => FirstBranch(m) = {m}
         /\ \A n \in FirstBranch(m) : n \in m .. N
<1>1. m \in FirstBranch(m) /\ \A n \in FirstBranch(m) : n \in m .. N
  BY DEF FirstBranch
<1>2. ASSUME NEW n \in FirstBranch(m), n # m
      PROVE  m < N /\ nest[m + 1].parent = m /\ n \in FirstBranch(m + 1)
  <2>1. n \in m .. N /\ \A x \in m + 1 .. n : nest[x].parent = x - 1
    BY DEF FirstBranch
  <2>2. m < N /\ m + 1 \in m + 1 .. n /\ n \in m + 1 .. N
    BY <1>2, <2>1
  <2>3. nest[m + 1].parent = m + 1 - 1 /\ \A x \in (m + 1) + 1 .. n : x \in m + 1 .. n
    BY <2>1, <2>2
  <2> QED
    BY <2>1, <2>2, <2>3 DEF FirstBranch
<1>3. ASSUME m < N, nest[m + 1].parent = m, NEW n \in FirstBranch(m + 1)
      PROVE  n \in FirstBranch(m)
  <2>1. n \in m + 1 .. N /\ \A x \in (m + 1) + 1 .. n : nest[x].parent = x - 1
    BY DEF FirstBranch
  <2>2. ASSUME NEW x \in m + 1 .. n PROVE nest[x].parent = x - 1
    <3>1. x = m + 1 \/ x \in (m + 1) + 1 .. n
      BY <2>1
    <3>2. m + 1 - 1 = m
      OBVIOUS
    <3> QED
      BY <1>3, <2>1, <3>1, <3>2
  <2>3. n \in m .. N
    BY <2>1
  <2> QED
    BY <2>2, <2>3 DEF FirstBranch
<1> QED
  BY <1>1, <1>2, <1>3

\* Loop q of node n is a tile of axis a.
IsTile(n, q, a) == nest[n].interchange[q].kind = "tile" /\ nest[n].interchange[q].axis = a

\* v is the size of the first tile of axis a inside loop p of node m, or 1.
Expected(m, p, a, v) ==
  LET tiles == TilesInside(m, p, a)
      First(t) == \A u \in tiles : t[1] < u[1] \/ (t[1] = u[1] /\ t[2] <= u[2])
  IN \/ tiles = {} /\ v = 1
     \/ \E t \in tiles :
          First(t) /\ v = LoopSize(nest[t[1]], nest[t[1]].interchange[t[2]])

\* The tiles of axis a inside loop p of node m.
LEMMA InsideIs ==
  ASSUME NEW m, NEW p, NEW a
  PROVE  \A t : t \in TilesInside(m, p, a) <=>
           \E n \in FirstBranch(m) : \E q \in DOMAIN nest[n].interchange :
             t = <<n, q>> /\ IsTile(n, q, a) /\ (n > m \/ q > p)
BY DEF TilesInside, IsTile

\* Those inside the loop before are these, and the loop itself.
LEMMA OneLoopOut ==
  ASSUME IInv, NEW m \in 1 .. Len(nest), NEW p \in 1 .. Len(nest[m].interchange), NEW a \in Dims
  PROVE  /\ IsTile(m, p, a) => TilesInside(m, p - 1, a) = TilesInside(m, p, a) \cup {<<m, p>>}
         /\ ~ IsTile(m, p, a) => TilesInside(m, p - 1, a) = TilesInside(m, p, a)
         /\ \A u \in TilesInside(m, p, a) : m < u[1] \/ (m = u[1] /\ p <= u[2])
<1> DEFINE N == Len(nest)
           L == Len(nest[m].interchange)
<1>1. N \in Nat /\ nest[m] \in NodeTypes /\ \A n \in 1 .. N : nest[n] \in NodeTypes
  BY NestShape DEF IInv
<1>2. \A n \in 1 .. N : DOMAIN nest[n].interchange = 1 .. Len(nest[n].interchange) /\ Len(nest[n].interchange) \in Nat
  BY <1>1, NodeShape
<1>3. m \in FirstBranch(m) /\ \A n \in FirstBranch(m) : n \in m .. N
  BY <1>1, BranchOf
<1>4. ASSUME NEW n \in FirstBranch(m), NEW q \in DOMAIN nest[n].interchange
      PROVE  /\ n \in Nat /\ q \in Nat /\ m \in Nat /\ p \in Nat /\ n >= m
             /\ (n > m \/ q > p - 1) <=> ((n > m \/ q > p) \/ (n = m /\ q = p))
  <2>1. n \in m .. N /\ n \in 1 .. N
    BY <1>1, <1>3
  <2>2. q \in Nat
    BY <1>2, <2>1
  <2>3. p \in Nat
    BY <1>2
  <2> QED
    BY <2>1, <2>2, <2>3
<1>5. p \in DOMAIN nest[m].interchange
  BY <1>2
<1>6. ASSUME NEW t
      PROVE  t \in TilesInside(m, p - 1, a) <=>
               t \in TilesInside(m, p, a) \/ (t = <<m, p>> /\ IsTile(m, p, a))
  <2>1. ASSUME t \in TilesInside(m, p - 1, a)
        PROVE  t \in TilesInside(m, p, a) \/ (t = <<m, p>> /\ IsTile(m, p, a))
    <3>1. PICK n \in FirstBranch(m) : \E q \in DOMAIN nest[n].interchange :
            t = <<n, q>> /\ IsTile(n, q, a) /\ (n > m \/ q > p - 1)
      BY <2>1, InsideIs
    <3>2. PICK q \in DOMAIN nest[n].interchange : t = <<n, q>> /\ IsTile(n, q, a) /\ (n > m \/ q > p - 1)
      BY <3>1
    <3>3. (n > m \/ q > p) \/ (n = m /\ q = p)
      BY <1>4, <3>2
    <3> QED
      BY <3>2, <3>3, InsideIs
  <2>2. ASSUME t \in TilesInside(m, p, a) PROVE t \in TilesInside(m, p - 1, a)
    <3>1. PICK n \in FirstBranch(m) : \E q \in DOMAIN nest[n].interchange :
            t = <<n, q>> /\ IsTile(n, q, a) /\ (n > m \/ q > p)
      BY <2>2, InsideIs
    <3>2. PICK q \in DOMAIN nest[n].interchange : t = <<n, q>> /\ IsTile(n, q, a) /\ (n > m \/ q > p)
      BY <3>1
    <3>3. n > m \/ q > p - 1
      BY <1>4, <3>2
    <3> QED
      BY <3>2, <3>3, InsideIs
  <2>3. ASSUME t = <<m, p>>, IsTile(m, p, a) PROVE t \in TilesInside(m, p - 1, a)
    <3>1. m > m \/ p > p - 1
      BY <1>3, <1>4, <1>5
    <3> QED
      BY <1>3, <1>5, <2>3, <3>1, InsideIs
  <2> QED
    BY <2>1, <2>2, <2>3
<1>7. ASSUME NEW u \in TilesInside(m, p, a) PROVE m < u[1] \/ (m = u[1] /\ p <= u[2])
  <2>1. PICK n \in FirstBranch(m) : \E q \in DOMAIN nest[n].interchange :
          u = <<n, q>> /\ (n > m \/ q > p)
    BY InsideIs
  <2>2. PICK q \in DOMAIN nest[n].interchange : u = <<n, q>> /\ (n > m \/ q > p)
    BY <2>1
  <2>3. m < n \/ (m = n /\ p <= q)
    BY <1>4, <2>2
  <2> QED
    BY <2>2, <2>3
<1> QED
  BY <1>6, <1>7

\* Those inside the last loop of a node are those of its first segment.
LEMMA OneNodeIn ==
  ASSUME IInv, NEW m \in 1 .. Len(nest), NEW a \in Dims
  PROVE  /\ m < Len(nest) /\ nest[m + 1].parent = m =>
              TilesInside(m, Len(nest[m].interchange), a) = TilesInside(m + 1, 0, a)
         /\ ~ (m < Len(nest) /\ nest[m + 1].parent = m) =>
              TilesInside(m, Len(nest[m].interchange), a) = {}
<1> DEFINE N == Len(nest)
           L == Len(nest[m].interchange)
<1>1. N \in Nat /\ \A n \in 1 .. N : nest[n] \in NodeTypes
  BY NestShape DEF IInv
<1>2. \A n \in 1 .. N : DOMAIN nest[n].interchange = 1 .. Len(nest[n].interchange) /\ Len(nest[n].interchange) \in Nat
  BY <1>1, NodeShape
<1>3. /\ m < N /\ nest[m + 1].parent = m => FirstBranch(m) = {m} \cup FirstBranch(m + 1)
      /\ ~ (m < N /\ nest[m + 1].parent = m) => FirstBranch(m) = {m}
      /\ \A n \in FirstBranch(m) : n \in m .. N
  BY <1>1, BranchOf
<1>4. ASSUME NEW q \in DOMAIN nest[m].interchange PROVE ~ (m > m \/ q > L)
  BY <1>1, <1>2
<1>5. CASE ~ (m < N /\ nest[m + 1].parent = m)
  <2>1. ASSUME NEW t \in TilesInside(m, L, a) PROVE FALSE
    <3>1. PICK n \in FirstBranch(m) : \E q \in DOMAIN nest[n].interchange :
            n > m \/ q > L
      BY InsideIs
    <3>2. PICK q \in DOMAIN nest[n].interchange : n > m \/ q > L
      BY <3>1
    <3> QED
      BY <1>3, <1>4, <1>5, <3>2
  <2> QED
    BY <1>5, <2>1
<1>6. CASE m < N /\ nest[m + 1].parent = m
  <2>1. m + 1 \in 1 .. N
    BY <1>1, <1>6
  <2>2. \A n \in FirstBranch(m + 1) : n \in m + 1 .. N
    BY <1>1, <2>1, BranchOf
  <2>3. ASSUME NEW n \in FirstBranch(m + 1), NEW q \in DOMAIN nest[n].interchange
        PROVE  n > m /\ q > 0 /\ n \in FirstBranch(m)
    <3>1. n \in m + 1 .. N /\ n \in 1 .. N
      BY <1>1, <2>2
    <3>2. q \in 1 .. Len(nest[n].interchange) /\ Len(nest[n].interchange) \in Nat
      BY <1>2, <3>1
    <3> QED
      BY <1>3, <1>6, <3>1, <3>2
  <2>4. ASSUME NEW t
        PROVE  t \in TilesInside(m, L, a) <=> t \in TilesInside(m + 1, 0, a)
    <3>1. ASSUME t \in TilesInside(m, L, a) PROVE t \in TilesInside(m + 1, 0, a)
      <4>1. PICK n \in FirstBranch(m) : \E q \in DOMAIN nest[n].interchange :
              t = <<n, q>> /\ IsTile(n, q, a) /\ (n > m \/ q > L)
        BY <3>1, InsideIs
      <4>2. PICK q \in DOMAIN nest[n].interchange : t = <<n, q>> /\ IsTile(n, q, a) /\ (n > m \/ q > L)
        BY <4>1
      <4>3. n # m
        BY <1>4, <4>2
      <4>4. n \in FirstBranch(m + 1)
        BY <1>3, <1>6, <4>3
      <4>5. q > 0
        BY <2>3, <4>4
      <4> QED
        BY <4>2, <4>4, <4>5, InsideIs
    <3>2. ASSUME t \in TilesInside(m + 1, 0, a) PROVE t \in TilesInside(m, L, a)
      <4>1. PICK n \in FirstBranch(m + 1) : \E q \in DOMAIN nest[n].interchange :
              t = <<n, q>> /\ IsTile(n, q, a)
        BY <3>2, InsideIs
      <4>2. PICK q \in DOMAIN nest[n].interchange : t = <<n, q>> /\ IsTile(n, q, a)
        BY <4>1
      <4>3. n > m /\ n \in FirstBranch(m)
        BY <2>3
      <4> QED
        BY <4>2, <4>3, InsideIs
    <3> QED
      BY <3>1, <3>2
  <2> QED
    BY <1>6, <2>4
<1> QED
  BY <1>5, <1>6

\* From loop to loop.
LEMMA ExpectedOut ==
  ASSUME IInv, NEW m \in 1 .. Len(nest), NEW p \in 1 .. Len(nest[m].interchange), NEW a \in Dims,
         NEW v, Expected(m, p, a, v), NEW w,
         w = IF IsTile(m, p, a) THEN LoopSize(nest[m], nest[m].interchange[p]) ELSE v
  PROVE  Expected(m, p - 1, a, w)
<1>1. CASE ~ IsTile(m, p, a)
  <2>1. TilesInside(m, p - 1, a) = TilesInside(m, p, a) /\ w = v
    BY <1>1, OneLoopOut
  <2> QED
    BY <2>1 DEF Expected
<1>2. CASE IsTile(m, p, a)
  <2> DEFINE t == <<m, p>>
             tiles == TilesInside(m, p - 1, a)
  <2>1. tiles = TilesInside(m, p, a) \cup {t} /\ w = LoopSize(nest[m], nest[m].interchange[p])
    BY <1>2, OneLoopOut
  <2>2. \A u \in TilesInside(m, p, a) : m < u[1] \/ (m = u[1] /\ p <= u[2])
    BY OneLoopOut
  <2>3. p <= p
    <3>1. nest[m] \in NodeTypes
      BY NestShape DEF IInv
    <3>2. Len(nest[m].interchange) \in Nat
      BY <3>1, LenProperties DEF NodeTypes
    <3> QED
      BY <3>2
  <2>4. t[1] = m /\ t[2] = p
    OBVIOUS
  <2> HIDE DEF t, tiles
  <2>5. \A u \in tiles : t[1] < u[1] \/ (t[1] = u[1] /\ t[2] <= u[2])
    BY <2>1, <2>2, <2>3, <2>4
  <2>6. t \in tiles /\ w = LoopSize(nest[t[1]], nest[t[1]].interchange[t[2]])
    BY <2>1, <2>4
  <2> QED
    BY <2>5, <2>6 DEF Expected, tiles
<1> QED
  BY <1>1, <1>2

\* From node to node.
LEMMA ExpectedCarried ==
  ASSUME IInv, Branches, NEW m \in 1 .. Len(nest), NEW sizes \in [Dims -> Nat],
         m < Len(nest) => \A a \in Dims : Expected(m + 1, 0, a, sizes[a]), NEW a \in Dims
  PROVE  Expected(m, Len(nest[m].interchange), a, Carried(nest, m, sizes)[a])
<1>1. Len(nest) \in Nat
  BY NestShape DEF IInv
<1>2. CASE m < Len(nest) /\ nest[m + 1].parent = m
  <2>1. m + 1 \in 1 .. Len(nest)
    BY <1>1, <1>2
  <2>2. m \in PathTo(nest, m + 1)
    BY <1>2, <2>1, PathOf
  <2>3. Carried(nest, m, sizes) = sizes
    BY <1>2, <2>2 DEF Carried
  <2>4. TilesInside(m, Len(nest[m].interchange), a) = TilesInside(m + 1, 0, a)
    BY <1>2, OneNodeIn
  <2> QED
    BY <1>2, <2>3, <2>4 DEF Expected
<1>3. CASE ~ (m < Len(nest) /\ nest[m + 1].parent = m)
  <2>1. ~ (m < Len(nest) /\ m \in PathTo(nest, m + 1))
    <3>1. ASSUME m < Len(nest) PROVE m \notin PathTo(nest, m + 1)
      <4>1. m + 1 \in 1 .. Len(nest)
        BY <1>1, <3>1
      <4> QED
        BY <1>3, <3>1, <4>1, PathOf
    <3> QED
      BY <3>1
  <2>2. Carried(nest, m, sizes)[a] = 1
    BY <2>1 DEF Carried, UnitTiles
  <2>3. TilesInside(m, Len(nest[m].interchange), a) = {}
    BY <1>3, OneNodeIn
  <2> QED
    BY <2>2, <2>3 DEF Expected
<1> QED
  BY <1>2, <1>3

\* Within a node: if what is carried into it is expected at its last loop, so is the step of
\* each of its loops, and what is carried out at its first.
LEMMA NodeExpected ==
  ASSUME IInv, NEW m \in 1 .. Len(nest), NEW inside \in [Dims -> Nat],
         \A a \in Dims : Expected(m, Len(nest[m].interchange), a, inside[a])
  PROVE  /\ \A a \in Dims : Expected(m, 0, a, Stripped(nest[m], inside).tile[a])
         /\ \A p \in 1 .. Len(nest[m].interchange) :
              LET l == nest[m].interchange[p] IN
              l.kind # "split" => Expected(m, p, l.axis, Stripped(nest[m], inside).steps[p])
<1> DEFINE n == nest[m]
           L == Len(n.interchange)
<1>1. n \in NodeTypes /\ LoopsOf(n) /\ L \in Nat /\ \A p \in 1 .. L : n.interchange[p] \in LoopTypes
  <2>1. m \in DOMAIN nest /\ n \in NodeTypes
    BY NestShape DEF IInv
  <2>2. LoopsOf(n)
    BY <2>1 DEF IInv, Tree
  <2>3. n.interchange \in Seq(LoopTypes)
    BY <2>1 DEF NodeTypes
  <2> QED
    BY <2>1, <2>2, <2>3, LenProperties, ElementOfSeq
<1>2. PICK t : Passes(n, inside, t)
  <2> HIDE DEF n
  <2> QED
    BY <1>1, NodeSteps
<1>3. /\ t \in [1 .. L + 1 -> [Dims -> Nat]] /\ t[L + 1] = inside /\ Stripped(n, inside).tile = t[1]
      /\ \A p \in 1 .. L :
           LET l == n.interchange[p] IN
           /\ t[p] = IF l.kind = "tile" THEN [t[p + 1] EXCEPT ![l.axis] = LoopSize(n, l)]
                     ELSE t[p + 1]
           /\ Stripped(n, inside).steps[p] = IF l.kind = "split" THEN None ELSE t[p + 1][l.axis]
  BY <1>2 DEF Passes
<1> DEFINE T == {d \in Nat : d <= L => \A a \in Dims : Expected(m, L - d, a, t[L + 1 - d][a])}
<1>4. 0 \in T
  <2>1. L - 0 = L /\ L + 1 - 0 = L + 1
    BY <1>1
  <2>2. \A a \in Dims : Expected(m, L, a, t[L + 1][a])
    BY <1>3
  <2> HIDE DEF L
  <2> QED
    BY <2>1, <2>2
<1>5. ASSUME NEW d \in Nat, d \in T PROVE d + 1 \in T
  <2>1. ASSUME d + 1 <= L, NEW a \in Dims PROVE Expected(m, L - (d + 1), a, t[L + 1 - (d + 1)][a])
    <3> DEFINE p == L - d
               l == n.interchange[p]
    <3>1. p \in 1 .. L /\ p + 1 = L + 1 - d /\ L + 1 - (d + 1) = p /\ L - (d + 1) = p - 1 /\ d <= L
      <4> HIDE DEF L, T
      <4>1. L - (d + 1) = L - d - 1
        BY <1>1
      <4> QED
        BY <1>1, <2>1, <4>1, FromTheEnd
    <3>2. Expected(m, L - d, a, t[L + 1 - d][a])
      BY <1>5, <3>1
    <3> HIDE DEF T, p
    <3>3. Expected(m, p, a, t[p + 1][a])
      BY <3>1, <3>2 DEF p
    <3>4. t[p] = IF l.kind = "tile" THEN [t[p + 1] EXCEPT ![l.axis] = LoopSize(n, l)] ELSE t[p + 1]
      BY <1>3, <3>1
    <3>5. p + 1 \in 1 .. L + 1
      BY <1>1, <3>1
    <3>6. t[p + 1] \in [Dims -> Nat]
      BY <1>3, <3>5
    <3>7. t[p][a] = IF IsTile(m, p, a) THEN LoopSize(n, l) ELSE t[p + 1][a]
      BY <3>4, <3>6 DEF IsTile
    <3>8. Expected(m, p - 1, a, t[p][a])
      BY <3>1, <3>3, <3>7, ExpectedOut
    <3> HIDE DEF L, n
    <3> QED
      BY <3>1, <3>8
  <2>2. d + 1 \in Nat
    OBVIOUS
  <2> HIDE DEF L
  <2> QED
    BY <2>1, <2>2
<1> HIDE DEF T
<1>6. Nat \subseteq T
  BY <1>4, <1>5, Induction
<1>7. ASSUME NEW p \in 0 .. L, NEW a \in Dims PROVE Expected(m, p, a, t[p + 1][a])
  <2> DEFINE d == L - p
  <2>1. d \in Nat /\ d <= L /\ L - d = p /\ L + 1 - d = p + 1
    BY <1>1
  <2> HIDE DEF d, L
  <2>2. Expected(m, L - d, a, t[L + 1 - d][a])
    BY <1>6, <2>1 DEF T
  <2> QED
    BY <2>1, <2>2
<1> HIDE DEF L
<1>8. \A a \in Dims : Expected(m, 0, a, Stripped(n, inside).tile[a])
  <2>1. 0 \in 0 .. L /\ 0 + 1 = 1
    BY <1>1
  <2> QED
    BY <1>3, <1>7, <2>1
<1>9. ASSUME NEW p \in 1 .. L, NEW l, l = n.interchange[p], l.kind # "split"
      PROVE  Expected(m, p, l.axis, Stripped(n, inside).steps[p])
  <2>1. p \in 0 .. L /\ l.axis \in Dims
    BY <1>1, <1>9 DEF LoopTypes
  <2>2. Stripped(n, inside).steps[p] = t[p + 1][l.axis]
    BY <1>3, <1>9
  <2> QED
    BY <1>7, <2>1, <2>2
<1> QED
  BY <1>8, <1>9 DEF L

\* Every step is the expected one.
LEMMA StepsHold ==
  ASSUME IInv, Branches
  PROVE  StepsAreInnerTiles
<1> DEFINE N == Len(nest)
<1>1. N \in Nat /\ DOMAIN nest = 1 .. N /\ \A m \in 1 .. N : nest[m] \in NodeTypes /\ LoopsOf(nest[m])
  BY NestShape DEF IInv, Tree
<1>2. PICK all \in [1 .. N + 1 -> NestTypes] :
        /\ all[N + 1] = [tile |-> UnitTiles, steps |-> << >>]
        /\ \A m \in 1 .. N : all[m] = Mined(m, all[m + 1])
        /\ Steps(nest) = all[1].steps
  BY NestMined
<1> HIDE DEF N
<1>3. \A m \in 1 .. N : m + 1 \in 1 .. N + 1
  BY <1>1
<1>4. \A m \in 1 .. N + 1 : all[m].tile \in [Dims -> Nat] /\ all[m].steps \in Seq(Seq(Positions))
  BY <1>2 DEF NestTypes
<1> DEFINE inside(m) == Carried(nest, m, all[m + 1].tile)
           done(m) == Stripped(nest[m], inside(m))
<1>5. ASSUME NEW m \in 1 .. N
      PROVE  /\ inside(m) \in [Dims -> Nat] /\ done(m).steps \in Seq(Positions)
             /\ all[m].tile = done(m).tile /\ all[m].steps = <<done(m).steps>> \o all[m + 1].steps
  <2>1. all[m + 1].tile \in [Dims -> Nat]
    BY <1>3, <1>4
  <2>2. inside(m) \in [Dims -> Nat]
    BY <2>1, CarriedType
  <2>3. all[m] = Mined(m, all[m + 1])
    BY <1>2
  <2>4. Mined(m, all[m + 1]) = [tile |-> done(m).tile, steps |-> <<done(m).steps>> \o all[m + 1].steps]
    BY DEF Mined
  <2>5. done(m).steps \in Seq(Positions)
    <3> HIDE DEF inside
    <3> QED
      BY <1>1, <2>2, StrippedType
  <2> HIDE DEF done, inside
  <2> QED
    BY <2>2, <2>3, <2>4, <2>5
\* From the last node to the first.
<1> DEFINE T == {d \in Nat : (d <= N /\ d # 0) => \A a \in Dims : Expected(N + 1 - d, 0, a, all[N + 1 - d].tile[a])}
           After(m) == m < N => \A a \in Dims : Expected(m + 1, 0, a, all[m + 1].tile[a])
<1> HIDE DEF inside, done
<1>6. ASSUME NEW m \in 1 .. N, After(m)
      PROVE  \A a \in Dims : Expected(m, Len(nest[m].interchange), a, inside(m)[a])
  <2>1. all[m + 1].tile \in [Dims -> Nat] /\ m \in 1 .. Len(nest) /\ N = Len(nest)
    BY <1>3, <1>4 DEF N
  <2> QED
    BY <1>6, <2>1, ExpectedCarried DEF inside
<1>7. ASSUME NEW m \in 1 .. N, After(m)
      PROVE  /\ \A a \in Dims : Expected(m, 0, a, all[m].tile[a])
             /\ \A p \in 1 .. Len(nest[m].interchange) :
                  nest[m].interchange[p].kind # "split"
                    => Expected(m, p, nest[m].interchange[p].axis, done(m).steps[p])
  <2>1. m \in 1 .. Len(nest) /\ inside(m) \in [Dims -> Nat]
    BY <1>5 DEF N
  <2>2. \A a \in Dims : Expected(m, Len(nest[m].interchange), a, inside(m)[a])
    BY <1>6, <1>7
  <2>3. all[m].tile = done(m).tile
    BY <1>5
  <2> HIDE DEF After
  <2> QED
    BY <2>1, <2>2, <2>3, NodeExpected DEF done
<1>8. 0 \in T
  OBVIOUS
<1>9. ASSUME NEW d \in Nat, d \in T PROVE d + 1 \in T
  <2>1. ASSUME d + 1 <= N PROVE \A a \in Dims : Expected(N + 1 - (d + 1), 0, a, all[N + 1 - (d + 1)].tile[a])
    <3> DEFINE m == N - d
    <3>1. m \in 1 .. N /\ m + 1 = N + 1 - d /\ N + 1 - (d + 1) = m /\ d <= N /\ (m < N => d # 0)
      <4> HIDE DEF T
      <4>1. d # 0 \/ ~ (m < N)
        BY <1>1
      <4> HIDE DEF m
      <4>2. m = N - d
        BY DEF m
      <4> QED
        BY <1>1, <2>1, <4>1, <4>2, FromTheEnd
    <3>2. d # 0 => \A a \in Dims : Expected(N + 1 - d, 0, a, all[N + 1 - d].tile[a])
      BY <1>9, <3>1
    <3> HIDE DEF m, T
    <3>3. After(m)
      BY <3>1, <3>2
    <3>4. \A a \in Dims : Expected(m, 0, a, all[m].tile[a])
      BY <1>7, <3>1, <3>3
    <3> QED
      BY <3>1, <3>4
  <2>2. d + 1 \in Nat
    OBVIOUS
  <2> QED
    BY <2>1, <2>2
<1> HIDE DEF T
<1>10. Nat \subseteq T
  BY <1>8, <1>9, Induction
<1>11. ASSUME NEW m \in 1 .. N PROVE After(m)
  <2> SUFFICES ASSUME m < N PROVE \A a \in Dims : Expected(m + 1, 0, a, all[m + 1].tile[a])
    OBVIOUS
  <2> DEFINE d == N - m
  <2>1. d \in Nat /\ d <= N /\ d # 0 /\ N + 1 - d = m + 1
    BY <1>1
  <2> HIDE DEF d
  <2>2. \A a \in Dims : Expected(N + 1 - d, 0, a, all[N + 1 - d].tile[a])
    BY <1>10, <2>1 DEF T
  <2> QED
    BY <2>1, <2>2
<1> HIDE DEF After
\* The steps, node by node.
<1>12. ASSUME NEW m \in 1 .. N PROVE Steps(nest)[m] = done(m).steps
  <2> DEFINE x  == [y \in 1 .. N |-> done(y).steps]
             ss == [y \in 1 .. N + 1 |-> all[y].steps]
  <2>1. x \in [1 .. N -> Seq(Positions)] /\ ss \in [1 .. N + 1 -> Seq(Seq(Positions))]
    BY <1>4, <1>5
  <2>2. N + 1 \in 1 .. N + 1 /\ 1 \in 1 .. N + 1 /\ \A y \in 1 .. N : y \in 1 .. N + 1
    BY <1>1
  <2>3. ss[N + 1] = << >> /\ ss[1] = Steps(nest)
    BY <1>2, <2>2
  <2>4. \A y \in 1 .. N : ss[y] = <<x[y]>> \o ss[y + 1]
    BY <1>3, <1>5, <2>2
  <2>5. x[m] = done(m).steps
    OBVIOUS
  <2> HIDE DEF x, ss
  <2>6. Prepends(Seq(Positions), N, x, ss)
    BY <2>1, <2>3, <2>4 DEF Prepends
  <2>7. \A k \in 1 .. N : ss[1][k] = x[k]
    <3>1. ASSUME NEW n \in Nat, Prepends(Seq(Positions), n, x, ss)
          PROVE  \A k \in 1 .. n : ss[1][k] = x[k]
      BY <3>1, Prepended
    <3> QED
      BY <1>1, <2>6, <3>1
  <2> QED
    BY <2>3, <2>5, <2>7
<1>13. ASSUME NEW m \in 1 .. N, NEW p \in DOMAIN nest[m].interchange,
             nest[m].interchange[p].kind # "split"
       PROVE  Expected(m, p, nest[m].interchange[p].axis, Steps(nest)[m][p])
  <2>1. p \in 1 .. Len(nest[m].interchange)
    <3>1. nest[m].interchange \in Seq(LoopTypes)
      BY <1>1 DEF NodeTypes
    <3> QED
      BY <3>1, LenProperties
  <2> QED
    BY <1>7, <1>11, <1>12, <1>13, <2>1
<1> QED
  BY <1>1, <1>13 DEF StepsAreInnerTiles, Expected

-----------------------------------------------------------------------------
(* The nest under the two clients of the scheduler. *)

\* The calls of the scheduler leave the nest alone.
LEMMA SchedStep ==
  ASSUME NextSched
  PROVE  [Next]_vars
<1>1. CASE Next /\ client = "descript" /\ UNCHANGED schedVars
  BY <1>1
<1>2. CASE Apply
  BY <1>2 DEF Apply
<1>3. CASE Emit
  BY <1>3 DEF Emit
<1>4. ASSUME NEW a \in Dims, NEW sizes, CallTile(a, sizes)
      PROVE  UNCHANGED vars
  BY <1>4 DEF CallTile, Calls
<1>5. ASSUME NEW order, CallInterchange(order)
      PROVE  UNCHANGED vars
  BY <1>5 DEF CallInterchange, Calls
<1>6. ASSUME NEW l, CallVectorize(l) \/ \E f \in UnrollFactors : CallUnroll(l, f)
      PROVE  UNCHANGED vars
  BY <1>6 DEF CallVectorize, CallUnroll, Calls
<1> QED
  BY <1>1, <1>2, <1>3, <1>4, <1>5, <1>6 DEF NextSched

\* A scheduler driven by Descript.apply is driven by the nests of Descript: the specification
\* with the scheduler implements that of Descript alone.
THEOREM Driven == SpecSched => Spec
<1>1. InitSched => Init
  BY DEF InitSched
<1>2. [NextSched]_<<vars, schedVars>> => [Next]_vars
  BY SchedStep
<1> QED
  BY <1>1, <1>2, PTL DEF SpecSched, Spec

\* What is handed over to the scheduler: the segments as written, with tiles that fit.
THEOREM HandedOver == SpecSched => [](SegmentsAsWritten /\ TilesFit)
BY Driven, WrittenSegments, FittingTiles, PTL

\* Descript hands a nest over once it is accepted, and nothing changes after that.
AppliedOnce ==
  client = "descript" => (plain = NewScheduler \/ (stage = "accepted" /\ plain = Applied(nest)))

\* Neither client changes that.
LEMMA AppliedOnceInv ==
  ASSUME AppliedOnce, [NextSched]_<<vars, schedVars>>
  PROVE  AppliedOnce'
<1> SUFFICES ASSUME client' = "descript"
             PROVE  plain' = NewScheduler \/ (stage' = "accepted" /\ plain' = Applied(nest'))
  BY DEF AppliedOnce
<1>1. CASE UNCHANGED <<vars, schedVars>>
  BY <1>1 DEF AppliedOnce, vars, schedVars
<1>2. CASE Next /\ client = "descript" /\ UNCHANGED schedVars
  <2>1. stage # "accepted"
    <3>1. ASSUME Declares PROVE stage = "interpret"
      BY <3>1 DEF Declares
    <3> QED
      BY <1>2, <3>1 DEF Next, Split, SplitRefused, SplitSized, SplitSizedRefused, Tile, TileRefused,
                        Axis, AxisRefused, EndSpec, EndSpecRefused, Check
  <2> QED
    BY <1>2, <2>1 DEF AppliedOnce, schedVars
<1>3. CASE Apply
  BY <1>3 DEF Apply, vars
<1>4. CASE Emit
  BY <1>4 DEF Emit
<1>5. ASSUME Calls PROVE FALSE
  BY <1>5 DEF Calls
<1>6. ASSUME NEW a \in Dims, NEW sizes, CallTile(a, sizes) PROVE FALSE
  BY <1>5, <1>6 DEF CallTile
<1>7. ASSUME NEW order, CallInterchange(order) PROVE FALSE
  BY <1>5, <1>7 DEF CallInterchange
<1>8. ASSUME NEW l, CallVectorize(l) \/ \E f \in UnrollFactors : CallUnroll(l, f) PROVE FALSE
  BY <1>5, <1>8 DEF CallVectorize, CallUnroll
<1> QED
  BY <1>1, <1>2, <1>3, <1>4, <1>6, <1>7, <1>8 DEF NextSched

\* LoopNestBuilder finds the nest that was applied, whatever its nodes, segments and tiles.
THEOREM BuiltBackTheSame == SpecSched => []BuiltBackAsApplied
<1> DEFINE Inv == IInv /\ Branches /\ AppliedOnce
<1>1. InitSched => Inv
  <2>1. InitSched => Init
    BY DEF InitSched
  <2>2. InitSched => AppliedOnce
    BY DEF InitSched, AppliedOnce
  <2> QED
    BY <2>1, <2>2, InitInv, InitBranches
<1>2. Inv /\ [NextSched]_<<vars, schedVars>> => Inv'
  <2>1. [NextSched]_<<vars, schedVars>> => [Next]_vars
    BY SchedStep
  <2> QED
    BY <2>1, NextInv, BranchesInv, AppliedOnceInv
<1>3. Inv => BuiltBackAsApplied
  <2> SUFFICES ASSUME Inv, client = "descript", plain # NewScheduler
               PROVE  LET root == RootOf(nest) IN
                      /\ ~ Unscheduled(plain)
                      /\ BuiltRoots(plain) = {root[m] : m \in DOMAIN nest}
                      /\ \A m \in DOMAIN nest :
                           LET built == SingleNode(plain, root[m]) IN
                           /\ built.tiles = nest[m].tiles /\ built.splits = nest[m].splits
                           /\ built.interchange = nest[m].interchange
                           /\ ChildOrigin(plain, root[m]).axis = nest[m].origin.axis
                           /\ ChildOrigin(plain, root[m]).start = nest[m].origin.start
    BY DEF BuiltBackAsApplied
  <2>1. plain = Applied(nest)
    BY DEF AppliedOnce
  <2> QED
    BY <2>1, BuiltBack
<1> QED
  BY <1>1, <1>2, <1>3, PTL DEF SpecSched

\* The MLIR back end strip-mines every loop of an accepted nest with the size of the tile of
\* its axis that comes next inside, on its first branch, or with 1.
THEOREM StepsOfTheNest == SpecSched => []StepsAreInnerTiles
<1>1. Init => IInv /\ Branches
  BY InitInv, InitBranches
<1>2. IInv /\ Branches /\ [Next]_vars => IInv' /\ Branches'
  BY NextInv, BranchesInv
<1>3. IInv /\ Branches => StepsAreInnerTiles
  BY StepsHold
<1>4. Spec => []StepsAreInnerTiles
  BY <1>1, <1>2, <1>3, PTL DEF Spec
<1> QED
  BY <1>4, Driven, PTL
=============================================================================
