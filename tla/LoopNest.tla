------------------------------ MODULE LoopNest ------------------------------
(***************************************************************************)
(* The tree of loops a schedule describes (schedules/loop_nest.py) and its  *)
(* validation, LoopNest.check.  A nest is the sequence of its nodes in the  *)
(* depth-first order of LoopNest.nodes; the root is the first.  Sizes are   *)
(* integers: Descript instantiates parameters before it validates.          *)
(* Annotations (vectorize, unroll, gpu_*, external_at...) and their checks  *)
(* are left out.                                                            *)
(***************************************************************************)
LOCAL INSTANCE Integers
LOCAL INSTANCE Sequences

CONSTANTS
  Dims,    \* abstract_dims
  None     \* no position, or no size

NoAxis == "no axis"

ASSUME LoopNestAssumption == None \notin Int /\ NoAxis \notin Dims

\* Loops are named after their axis: i, then i0, i1... and i[0], i[1]...
AxisLoop(a)     == [kind |-> "axis",  axis |-> a, n |-> 0]
TileLoop(a, n)  == [kind |-> "tile",  axis |-> a, n |-> n]
SplitLoop(a, n) == [kind |-> "split", axis |-> a, n |-> n]

\* A LoopNestNode.  segment is the number of the split loop it is the content of;
\* asked and bounded keep the segments as they were written, for the properties:
\* where each ends, and whether it was written axis[start:end] with an end.
Node(parent, segment, origin, interchange) ==
  [parent |-> parent, segment |-> segment, origin |-> origin,
   tiles |-> [a \in Dims |-> << >>], splits |-> [a \in Dims |-> << >>],
   interchange |-> interchange,
   asked |-> [a \in Dims |-> << >>], bounded |-> [a \in Dims |-> << >>]]

NoOrigin == [axis |-> NoAxis, start |-> 0, end |-> None]

\* LoopInfo: segments sorted by their start; each ends where the next one starts,
\* the last one is open.
SegmentEnd(node, a, k) ==
  LET s     == node.splits[a]
      later == {j \in DOMAIN s : s[j] > s[k] \/ (s[j] = s[k] /\ j > k)}
  IN IF later = {} THEN None
     ELSE s[CHOOSE j \in later : \A h \in later : s[j] <= s[h]]

Extent(start, end) == IF end = None THEN None ELSE end - start

SegmentSize(node, a, k) == Extent(node.splits[a][k], SegmentEnd(node, a, k))

\* The size a segment was written with.
Asked(node, a, k) == Extent(node.splits[a][k], node.asked[a][k])

LoopSize(node, l) ==
  CASE l.kind = "tile"  -> node.tiles[l.axis][l.n]
    [] l.kind = "split" -> SegmentSize(node, l.axis, l.n)
    [] l.kind = "axis"  -> None

\* splits_to_sizes is one dictionary for the whole nest: of the nodes that have a
\* segment of this name, the last one counts.
SplitsToSizes(nest, l) ==
  LET m == CHOOSE x \in DOMAIN nest :
             /\ l.n <= Len(nest[x].splits[l.axis])
             /\ \A y \in DOMAIN nest : y > x => l.n > Len(nest[y].splits[l.axis])
  IN SegmentSize(nest[m], l.axis, l.n)

-----------------------------------------------------------------------------
(* LoopNest.check: the first failing check raises. *)

UnusedDim(nest) ==
  \E a \in Dims : \A m \in DOMAIN nest :
    \A p \in DOMAIN nest[m].interchange : nest[m].interchange[p].axis # a

\* seen_axes is kept from node to node.
Unmaterialized(nest) ==
  \E m \in DOMAIN nest : \E p \in DOMAIN nest[m].interchange :
    LET l == nest[m].interchange[p] IN
    /\ l.kind = "tile"
    /\ \A x \in 1 .. m : \A q \in DOMAIN nest[x].interchange :
         (x < m \/ q < p) =>
           \/ nest[x].interchange[q].axis # l.axis
           \/ nest[x].interchange[q].kind = "tile"

\* Mutant: the tiles around are forgotten, only the segment counts.
CheckLoopForgets(nest, node, now, l) ==
  LET size == IF l.kind = "split" THEN SplitsToSizes(nest, l) ELSE LoopSize(node, l)
      old  == now.split[l.axis]
  IN [now EXCEPT !.larger = @ \/ (size # None /\ old # None /\ size > old)]

\* One loop of _check_sizes.  current_size_of_tile hides current_size_of_split.
CheckLoop(nest, node, now, l) ==
  LET size == IF l.kind = "split" THEN SplitsToSizes(nest, l) ELSE LoopSize(node, l)
      old  == IF now.tile[l.axis] # None THEN now.tile[l.axis] ELSE now.split[l.axis]
      kept == CASE l.kind = "axis" \/ size = None -> now
                [] l.kind = "tile"  /\ size # None -> [now EXCEPT !.tile[l.axis] = size]
                [] l.kind = "split" /\ size # None -> [now EXCEPT !.split[l.axis] = size]
  IN [kept EXCEPT !.larger = @ \/ (size # None /\ old # None /\ size > old)]

\* One node: the tiles are forgotten, the axis it splits is as long as the segment.
CheckNode(nest, now, node) ==
  LET o     == node.origin
      start == [now EXCEPT !.tile = [a \in Dims |-> None],
                           !.split = IF o.axis = NoAxis THEN @
                                     ELSE [@ EXCEPT ![o.axis] = Extent(o.start, o.end)]]
      after[p \in 0 .. Len(node.interchange)] ==
        IF p = 0 THEN start ELSE CheckLoop(nest, node, after[p - 1], node.interchange[p])
  IN after[Len(node.interchange)]

TooLarge(nest) ==
  LET unknown == [a \in Dims |-> None]
      after[m \in 0 .. Len(nest)] ==
        IF m = 0 THEN [tile |-> unknown, split |-> unknown, larger |-> FALSE]
        ELSE CheckNode(nest, after[m - 1], nest[m])
  IN after[Len(nest)].larger

Verdict(nest) ==
  IF      UnusedDim(nest)      THEN "unused dimension"
  ELSE IF Unmaterialized(nest) THEN "unmaterialized axis"
  ELSE IF TooLarge(nest)       THEN "larger inner loop"
  ELSE "accepted"

-----------------------------------------------------------------------------
(* What the checks are about, stated on the tree itself. *)

\* The nodes from the root to m.
PathTo(nest, m) ==
  LET path[x \in 0 .. m] == IF x = 0 THEN {} ELSE path[nest[x].parent] \cup {x}
  IN path[m]
=============================================================================
