------------------------------ MODULE Descript ------------------------------
(***************************************************************************)
(* Descript.apply (schedules/descript.py): a specification, a dictionary of *)
(* split, tile and axis declarations where a split holds the specification  *)
(* of its segment, is interpreted into a LoopNest, which is then validated. *)
(* The specification is read here one declaration at a time; it may go on   *)
(* as long as MaxItems allows.  Sizes are integers; the constraints on      *)
(* symbolic sizes and the annotations are left out.                         *)
(***************************************************************************)
EXTENDS LoopNest, Integers, Sequences, FiniteSets

CONSTANTS
  DimSizes,   \* sizes abstract_dim_sizes may give every dimension, 0 if it is empty
  Cuts,       \* positions a split may be written with
  TileSizes,  \* sizes a tile or a split of a given size may be written with
  MaxItems    \* bound: declarations of the specification

ASSUME DescriptAssumption ==
  /\ DimSizes \subseteq Nat /\ Cuts \subseteq Nat \ {0} /\ TileSizes \subseteq Nat
  /\ MaxItems \in Nat

VARIABLES
  stage,     \* "interpret", "check", the verdict of check, or "refused"
  nest,      \* the nodes built so far
  frames,    \* calls of _interpret_spec_into_node, the innermost first
  items,     \* declarations read
  dimSize    \* the size abstract_dim_sizes gives, 0 if none: constant

vars == <<stage, nest, frames, items, dimSize>>

\* cut: previous_cut, None when the axis is covered.  sizes: axes, the sizes the
\* axis has had from the outside in.
Frame(node, sizes) ==
  [node |-> node, cut |-> [a \in Dims |-> 0], sizes |-> sizes]

Init ==
  /\ stage = "interpret"
  /\ dimSize \in DimSizes
  /\ nest = <<Node(0, 0, NoOrigin, << >>)>>
  /\ frames = <<Frame(1, [a \in Dims |-> IF dimSize = 0 THEN << >> ELSE <<dimSize>>])>>
  /\ items = 0

top  == Head(frames)
node == nest[top.node]

\* The next declaration of the innermost dictionary.  The keys of a dictionary are
\* different: tiles and sized splits below are not declared twice alike; a repeated
\* axis[x:y] would be misplaced anyway.
Declares ==
  /\ stage = "interpret" /\ items < MaxItems
  /\ items' = items + 1
  /\ UNCHANGED dimSize

\* An exception leaves apply: what has been built is lost.
Refuse == stage' = "refused" /\ nest' = << >> /\ frames' = << >>

\* current_size of an axis: that of its last tile, or of the dimension.
CurrentSize(a) ==
  IF top.sizes[a] = << >> THEN None ELSE top.sizes[a][Len(top.sizes[a])]

-----------------------------------------------------------------------------
(* _interpret_split. *)

\* ScheduleParser._parse_split_syntax drops a bound that is written 0.
Parsed(x) == IF x = 0 THEN None ELSE x

StartOf(a, x) == IF Parsed(x) = None THEN top.cut[a] ELSE x

\* Mutant: a segment may begin after the previous one ends.
MisplacedButGaps(a, x, y) ==
  top.cut[a] # None =>
    \/ StartOf(a, x) < top.cut[a]
    \/ Parsed(y) # None /\ StartOf(a, x) >= Parsed(y)

\* _check_splitting_intervals: the axis is covered already (no cut), or the segment leaves a
\* gap, overlaps, or is empty.
Misplaced(a, x, y) ==
  top.cut[a] # None =>
    \/ StartOf(a, x) # top.cut[a]
    \/ Parsed(y) # None /\ StartOf(a, x) >= Parsed(y)

\* Records the segment start..cut, adds its node and goes on with its body.
\* nodeEnd is the end the node is given, which is not always cut.
AddSegment(a, start, cut, nodeEnd, bounded) ==
  LET n == Len(node.splits[a]) + 1
      child == Node(top.node, n, [axis |-> a, start |-> start, end |-> nodeEnd],
                    <<AxisLoop(a)>>)
  IN /\ nest' = Append([nest EXCEPT ![top.node] =
                          [node EXCEPT !.splits[a]   = Append(@, start),
                                       !.asked[a]    = Append(@, cut),
                                       !.bounded[a]  = Append(@, bounded),
                                       !.interchange = Append(@, SplitLoop(a, n))]],
                       child)
     /\ frames' = <<Frame(Len(nest) + 1, top.sizes),
                    [top EXCEPT !.cut[a] = cut]>> \o Tail(frames)
     /\ UNCHANGED stage

\* axis[x:y]
Split(a, x, y) ==
  /\ Declares
  /\ ~ Misplaced(a, x, y)
  /\ AddSegment(a, StartOf(a, x), Parsed(y),
                IF Parsed(y) = None THEN CurrentSize(a) ELSE y,
                Parsed(y) # None)

SplitRefused(a, x, y) ==
  /\ Declares
  /\ Misplaced(a, x, y)
  /\ Refuse

\* axis[:z:]  The node is given the size of the whole axis as its end.
SplitSized(a, z) ==
  /\ Declares
  /\ \A k \in DOMAIN node.splits[a] : Asked(node, a, k) # z \/ node.bounded[a][k]
  /\ top.cut[a] # None
  /\ AddSegment(a, top.cut[a], top.cut[a] + z, CurrentSize(a), FALSE)

SplitSizedRefused(a, z) ==
  /\ Declares
  /\ top.cut[a] = None
  /\ Refuse

-----------------------------------------------------------------------------
(* _interpret_tile, _interpret_axis and the end of a specification. *)

Add(l) == [node EXCEPT !.interchange = Append(@, l)]

\* axis#size
Tile(a, s) ==
  /\ Declares
  /\ \A k \in DOMAIN node.tiles[a] : node.tiles[a][k] # s
  /\ s > 0
  /\ nest' = [nest EXCEPT ![top.node] =
                [Add(TileLoop(a, Len(node.tiles[a]) + 1)) EXCEPT !.tiles[a] = Append(@, s)]]
  /\ frames' = <<[top EXCEPT !.sizes[a] = Append(@, s)]>> \o Tail(frames)
  /\ UNCHANGED stage

TileRefused(a, s) ==
  /\ Declares
  /\ s <= 0
  /\ Refuse

\* axis
Scheduled(a) == AxisLoop(a) \in {node.interchange[p] : p \in DOMAIN node.interchange}

Axis(a) ==
  /\ Declares
  /\ ~ Scheduled(a)
  /\ nest' = [nest EXCEPT ![top.node] = Add(AxisLoop(a))]
  /\ UNCHANGED <<stage, frames>>

\* The body of a segment begins with its axis, which cannot be scheduled again.
AxisRefused(a) ==
  /\ Declares
  /\ node.origin.axis = a
  /\ Refuse

\* Mutant: the last check forgotten.
AnyEnd == FALSE

\* Some axis is split up to a point that is neither its end nor its beginning.
Unachieved ==
  \E a \in Dims : top.cut[a] \notin {None, 0, dimSize}

EndSpec ==
  /\ stage = "interpret"
  /\ ~ Unachieved
  /\ frames' = Tail(frames)
  /\ stage' = IF Tail(frames) = << >> THEN "check" ELSE stage
  /\ UNCHANGED <<nest, items, dimSize>>

EndSpecRefused ==
  /\ stage = "interpret"
  /\ Unachieved
  /\ Refuse
  /\ UNCHANGED <<items, dimSize>>

\* LoopNest.check raises at the first failing check.
Check ==
  /\ stage = "check"
  /\ stage' = Verdict(nest)
  /\ UNCHANGED <<nest, frames, items, dimSize>>

Bounds == {None, 0} \cup Cuts

Next ==
  \/ \E a \in Dims : \E x, y \in Bounds : Split(a, x, y) \/ SplitRefused(a, x, y)
  \/ \E a \in Dims, z \in TileSizes : SplitSized(a, z) \/ SplitSizedRefused(a, z)
  \/ \E a \in Dims, s \in TileSizes : Tile(a, s) \/ TileRefused(a, s)
  \/ \E a \in Dims : Axis(a) \/ AxisRefused(a)
  \/ EndSpec \/ EndSpecRefused \/ Check

Spec == Init /\ [][Next]_vars

-----------------------------------------------------------------------------
(* Properties. *)

\* The scheduler is given the starts of the segments only, and LoopInfo finds their
\* ends again by sorting them.  In a nest that is accepted this gives the segments
\* as they were written, one after the other from 0: the interpreter refused gaps,
\* overlaps, and a last segment that stops short of the axis.  Segments written
\* with the size 0 are left aside: `i[:0:]` alone becomes the whole axis.
SegmentsAsWritten ==
  stage = "accepted" =>
    \A m \in DOMAIN nest, a \in Dims :
      LET n == nest[m] IN
      (\A k \in DOMAIN n.splits[a] : Asked(n, a, k) # 0) =>
        \A k \in DOMAIN n.splits[a] :
          /\ k = 1 => n.splits[a][k] = 0
          /\ IF k < Len(n.splits[a]) THEN SegmentEnd(n, a, k) = n.asked[a][k]
             ELSE n.asked[a][k] \in {None, dimSize}

\* In a nest that is accepted the tiles of an axis do not grow inwards within a
\* node, and those in a segment written axis[x:y] are not larger than it.
TilesFit ==
  stage = "accepted" =>
    \A m \in DOMAIN nest, a \in Dims :
      LET n == nest[m]
          s == nest[n.parent]
      IN /\ \A k \in 1 .. Len(n.tiles[a]) - 1 : n.tiles[a][k] >= n.tiles[a][k + 1]
         /\ (n.origin.axis = a /\ s.bounded[a][n.segment] /\ n.tiles[a] # << >>) =>
              n.tiles[a][1] <= Asked(s, a, n.segment)
=============================================================================
