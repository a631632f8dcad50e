------------------------------ MODULE MlirNest ------------------------------
(***************************************************************************)
(* What the MLIR back end makes of a loop nest                              *)
(* (backends/mlir/MlirCompilerPasses.py): the step it strip-mines each loop *)
(* with and the chunks it splits a dimension into.  The nest reaches it by  *)
(* way of the scheduler, which keeps it under the names of the nodes, in    *)
(* the order of Descript._apply_node: depth first.                          *)
(***************************************************************************)
EXTENDS LoopNest, Integers, SequencesExt

-----------------------------------------------------------------------------
(* _generate_tiling_insns. *)

\* A loop steps over the tile of its axis that comes next inside; loops are taken
\* from the inside out.  A split loop is not strip-mined.
StripMine(node, l, acc) ==
  IF l.kind = "split" THEN [acc EXCEPT !.steps = <<None>> \o @]
  ELSE [tile  |-> IF l.kind = "axis" THEN acc.tile
                  ELSE [acc.tile EXCEPT ![l.axis] = LoopSize(node, l)],
        steps |-> <<acc.tile[l.axis]>> \o acc.steps]

UnitTiles == [a \in Dims |-> 1]

\* Mutant: tile steps of a sibling's subtree leak.
CarriedAlways(nest, m, tile) == tile

\* The state is carried from a node to the one before it when that is an ancestor.
Carried(nest, m, tile) ==
  IF m < Len(nest) /\ m \in PathTo(nest, m + 1) THEN tile ELSE UnitTiles

\* The steps of all loops, node by node.
Steps(nest) ==
  LET NodeSteps(m, acc) ==
        LET Strip(l, now) == StripMine(nest[m], l, now)
            done == FoldRight(Strip, nest[m].interchange,
                              [tile |-> Carried(nest, m, acc.tile), steps |-> << >>])
        IN [tile |-> done.tile, steps |-> <<done.steps>> \o acc.steps]
  IN FoldRight(NodeSteps, [m \in DOMAIN nest |-> m],
               [tile |-> UnitTiles, steps |-> << >>]).steps

-----------------------------------------------------------------------------
(* SplitState and _split_section. *)

\* The split loops of a node in the order of its dictionaries: axis by axis.
LoopsToSplit(node) ==
  LET firsts == SelectSeq(node.interchange, LAMBDA l : l.kind = "split" /\ l.n = 1)
  IN FlattenSeq([h \in DOMAIN firsts |->
       [k \in DOMAIN node.splits[firsts[h].axis] |-> SplitLoop(firsts[h].axis, k)]])

\* prev_split_size of any loop: a loop only moves its own entry forward, when it is
\* done with it.
PrevSplitSize == 0

\* Every loop but the last is split off what the loops before it have left.
ChunkSize(node, h) ==
  LET next == LoopsToSplit(node)[h + 1] IN node.splits[next.axis][next.n] - PrevSplitSize
=============================================================================
