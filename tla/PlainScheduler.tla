--------------------------- MODULE PlainScheduler ---------------------------
(***************************************************************************)
(* What scheduler calls leave behind (schedules/plain_schedule.py), and the *)
(* loop nest that is built back from it (schedules/loop_nest_builder.py),   *)
(* which the TVM back end compiles.  A scheduler keeps one flat dictionary  *)
(* per primitive, under the names of loops; which node a loop is in can be  *)
(* read from its name only.  The MLIR and TVM schedulers add nothing to it. *)
(* Parallel loops, buffers, packing, fusion, distribution and GPU mapping   *)
(* are left out: they are kept and read back in the same way.               *)
(***************************************************************************)
EXTENDS LoopNest, SequencesExt

\* A root is the path of segments that leads to a node, DEFAULT_ROOT is empty.
DefaultRoot == << >>

\* make_loop_name(root, name)
LoopName(root, l) == [root |-> root, loop |-> l]

\* The root that is the content of a segment.
SegmentRoot(root, a, k) == Append(root, SplitLoop(a, k))

Put(dict, key, val) ==
  [k \in DOMAIN dict \cup {key} |-> IF k = key THEN val ELSE dict[k]]

At(dict, key) == IF key \in DOMAIN dict THEN dict[key] ELSE << >>

NewScheduler ==
  [splits |-> << >>, tiles |-> << >>, permutation |-> << >>,
   vectorization |-> << >>, unrolling |-> << >>]

\* Segments and tiles are numbered in the order of their dictionary.
split(s, a, segments, root) ==
  [s EXCEPT !.splits = Put(@, LoopName(root, AxisLoop(a)), segments)]

\* Mutant: the tiles are kept under the name of the axis alone.
tileAtTheRoot(s, a, sizes, root) ==
  LET key == LoopName(DefaultRoot, AxisLoop(a))
      old == At(s.tiles, key)
      new == sizes \o SubSeq(old, Len(sizes) + 1, Len(old))
  IN IF sizes = << >> THEN s ELSE [s EXCEPT !.tiles = Put(@, key, new)]

\* Tiles are added to those of an earlier call, size by size.
tile(s, a, sizes, root) ==
  LET key == LoopName(root, AxisLoop(a))
      old == At(s.tiles, key)
      new == sizes \o SubSeq(old, Len(sizes) + 1, Len(old))
  IN IF sizes = << >> THEN s ELSE [s EXCEPT !.tiles = Put(@, key, new)]

interchange(s, permutation, root) ==
  [s EXCEPT !.permutation = Put(@, root, permutation)]

vectorize(s, loops, root) ==
  [s EXCEPT !.vectorization = @ \o [k \in DOMAIN loops |-> LoopName(root, loops[k])]]

unroll(s, l, factor, root) ==
  [s EXCEPT !.unrolling = Put(@, LoopName(root, l), factor)]

\* PlainNodeSchedule.__post_init__: without an interchange, the axes in order, each
\* followed by its tiles.
DefaultInterchange(s, dims) ==
  LET Loops(a) == <<AxisLoop(a)>> \o
        [k \in DOMAIN At(s.tiles, LoopName(DefaultRoot, AxisLoop(a))) |-> TileLoop(a, k)]
  IN FlattenSeq([d \in DOMAIN dims |-> Loops(dims[d])])

get_plain_schedule(s, dims) ==
  IF s.permutation # << >> THEN s
  ELSE interchange(s, DefaultInterchange(s, dims), DefaultRoot)

-----------------------------------------------------------------------------
(* Descript._apply_loop_nest: every node under its root, parents first. *)

RootOf(nest) ==
  LET root[m \in DOMAIN nest] ==
        IF nest[m].parent = 0 THEN DefaultRoot
        ELSE SegmentRoot(root[nest[m].parent], nest[m].origin.axis, nest[m].segment)
  IN root

ApplyNode(s, node, root) ==
  LET Splits(a, acc) == IF node.splits[a] = << >> THEN acc
                        ELSE split(acc, a, node.splits[a], root)
      Tiles(a, acc)  == tile(acc, a, node.tiles[a], root)
      tiled == FoldSet(Tiles, FoldSet(Splits, s, Dims), Dims)
  IN interchange(tiled, node.interchange, root)

Applied(nest) ==
  LET root == RootOf(nest)
      Step(s, m) == ApplyNode(s, nest[m], root[m])
  IN FoldLeft(Step, NewScheduler, [m \in DOMAIN nest |-> m])

-----------------------------------------------------------------------------
(* LoopNestBuilder. *)

\* _get_single_node: what the dictionaries have under this root.
SingleNode(s, root) ==
  [tiles |-> [a \in Dims |-> At(s.tiles, LoopName(root, AxisLoop(a)))],
   splits |-> [a \in Dims |-> At(s.splits, LoopName(root, AxisLoop(a)))],
   interchange |-> s.permutation[root]]

\* _get_loop_node: a child for each segment; its end is where the next one starts.
Children(s, root) ==
  UNION {{SegmentRoot(root, a, k) : k \in DOMAIN SingleNode(s, root).splits[a]} : a \in Dims}

ChildOrigin(s, root) ==
  LET l     == Last(root)
      above == SingleNode(s, Front(root))
  IN IF root = DefaultRoot THEN NoOrigin
     ELSE [axis |-> l.axis, start |-> above.splits[l.axis][l.n],
           end |-> SegmentEnd(above, l.axis, l.n)]

\* The roots of the nodes that are built: from the default root down.
BuiltRoots(s) ==
  {root \in DOMAIN s.permutation :
     \A n \in 1 .. Len(root) : SubSeq(root, 1, n) \in Children(s, SubSeq(root, 1, n - 1))}

\* A segment without a permutation of its own raises KeyError.
Unscheduled(s) ==
  \E root \in BuiltRoots(s) : ~ Children(s, root) \subseteq DOMAIN s.permutation
=============================================================================
