-------------------------- MODULE BackendSchedules --------------------------
(***************************************************************************)
(* The loops three back ends make of the same scheduler calls on one node:  *)
(* the strip-mining of backends/mlir/MlirCompilerPasses.py, the commands of *)
(* backends/jir/JIRScheduler.py, and the split and reorder of               *)
(* backends/tvm/TVMScheduler.py after its rewriting of unrolled and         *)
(* vectorized loops.  A schedule s is that of PlainScheduler; dims are the  *)
(* axes in order, extent the size of each.  Each back end gives a sequence  *)
(* of <<loop, number of iterations>>, outermost first.                      *)
(***************************************************************************)
EXTENDS PlainScheduler, MlirNest

CeilDiv(x, y) == (x + y - 1) \div y

RootNode(s) == SingleNode(s, DefaultRoot)

Vectorized(s, l) == LoopName(DefaultRoot, l) \in ToSet(s.vectorization)
Unrolled(s, l)   == LoopName(DefaultRoot, l) \in DOMAIN s.unrolling
UnrollFactor(s, l) == s.unrolling[LoopName(DefaultRoot, l)]

TilesOf(tiles, a) == [k \in DOMAIN tiles[a] |-> TileLoop(a, k)]

-----------------------------------------------------------------------------
(* MLIR: _generate_node_scheduling. *)

\* The permutation is followed up to the first vectorized loop: what is left inside
\* is vectorized as a whole.
Materialized(s) ==
  LET perm == RootNode(s).interchange
      stops == {p \in DOMAIN perm : Vectorized(s, perm[p])} \cup {Len(perm) + 1}
  IN Min(stops) - 1

\* Each loop steps over what the loops before it have left of its axis.
MlirLoops(s, extent) ==
  LET node  == RootNode(s)
      steps == Steps(<<node>>)[1]
      Step(acc, p) ==
        LET l == node.interchange[p] IN
        [left  |-> [acc.left EXCEPT ![l.axis] = steps[p]],
         loops |-> Append(acc.loops, <<l, CeilDiv(acc.left[l.axis], steps[p])>>)]
  IN FoldLeft(Step, [left |-> extent, loops |-> << >>],
              [p \in 1 .. Materialized(s) |-> p]).loops

-----------------------------------------------------------------------------
(* JIR: JIRSchedulerAdaptor keeps its own dictionaries; what it keeps of vectorized and
   unrolled loops does not change the loops. *)

NewAdaptor == [tiles |-> [a \in Dims |-> << >>], order |-> << >>, raised |-> FALSE]

\* Every tile divides the one around it.
JirDivides(size, sizes) ==
  \A k \in DOMAIN sizes : (IF k = 1 THEN size ELSE sizes[k - 1]) % sizes[k] = 0

\* The tiles of an earlier call are replaced.
jirTile(j, a, sizes, size) ==
  IF JirDivides(size, sizes) THEN [j EXCEPT !.tiles[a] = sizes] ELSE [j EXCEPT !.raised = TRUE]

jirInterchange(j, order) == [j EXCEPT !.order = order]

\* _update_loops: the loops level by level, the axes first.
LoopsByLevel(j, dims) ==
  LET depth == Max({Len(j.tiles[a]) : a \in Dims})
      Level(k) == [d \in DOMAIN dims |-> IF k = 0 THEN AxisLoop(dims[d]) ELSE TileLoop(dims[d], k)]
      Has(l) == l.kind = "axis" \/ l.n <= Len(j.tiles[l.axis])
  IN FlattenSeq([k \in 1 .. depth + 1 |-> SelectSeq(Level(k - 1), Has)])

WorkingPermutation(j, dims) ==
  j.order \o SelectSeq(LoopsByLevel(j, dims), LAMBDA l : l \notin ToSet(j.order))

\* The order the tile commands leave: every axis with its tiles in it.
TiledOrder(j, dims) ==
  FlattenSeq([d \in DOMAIN dims |-> <<AxisLoop(dims[d])>> \o TilesOf(j.tiles, dims[d])])

\* Mutant: the loops an insertion passes are named from the outermost.
SwapsOutermostFirst(current, order) ==
  LET Bring(acc, p) ==
        LET at == CHOOSE q \in DOMAIN acc.order : acc.order[q] = order[p] IN
        [order |-> InsertAt(RemoveAt(acc.order, at), p, order[p]),
         swaps |-> acc.swaps \o SubSeq(acc.order, p, at - 1)]
  IN FoldLeft(Bring, [order |-> current, swaps |-> << >>], [p \in DOMAIN order |-> p]).swaps

\* generate_inter: each loop in turn is brought outwards to its place; the loops it
\* passes are named, the nearest first.
Swaps(current, order) ==
  LET Bring(acc, p) ==
        LET at == CHOOSE q \in DOMAIN acc.order : acc.order[q] = order[p] IN
        [order |-> InsertAt(RemoveAt(acc.order, at), p, order[p]),
         swaps |-> acc.swaps \o Reverse(SubSeq(acc.order, p, at - 1))]
  IN FoldLeft(Bring, [order |-> current, swaps |-> << >>], [p \in DOMAIN order |-> p]).swaps

\* `interchange target=l`: l and the loop just inside it change places.
Interchanged(order, l) ==
  LET p == CHOOSE q \in DOMAIN order : order[q] = l IN
  [order EXCEPT ![p] = order[p + 1], ![p + 1] = l]

\* An order with a loop that is not there any more raises.
JirRaises(j, dims) ==
  j.raised \/ ~ ToSet(j.order) \subseteq ToSet(TiledOrder(j, dims))

\* _get_transform_dims: a loop has as many iterations as its size has tiles.
JirTrips(j, l, extent) ==
  LET tiles == j.tiles[l.axis]
      size  == IF l.n = 0 THEN extent[l.axis] ELSE tiles[l.n]
  IN IF l.n = Len(tiles) THEN size ELSE size \div tiles[l.n + 1]

JirLoops(j, dims, extent) ==
  LET start == TiledOrder(j, dims)
      order == FoldLeft(Interchanged, start, Swaps(start, WorkingPermutation(j, dims)))
  IN [p \in DOMAIN order |-> <<order[p], JirTrips(j, order[p], extent)>>]

-----------------------------------------------------------------------------
(* TVM: tvm_update_loopnest_for_codegen. *)

\* value & -value
pow2divisor(v) == Max({d \in 1 .. v : v % d = 0 /\ \E k \in 0 .. d : d = 2 ^ k})

LoopSizeOr0(s, l) == IF l.kind = "axis" THEN 0 ELSE RootNode(s).tiles[l.axis][l.n]

\* Mutant: the vectors of a tile are as long as what is left to unroll.
VectorOfTheRest(s, l) ==
  LET size == LoopSizeOr0(s, l) IN
  IF Vectorized(s, l)
  THEN IF size > 0 /\ size > pow2divisor(size) THEN size \div pow2divisor(size) ELSE 0
  ELSE IF Unrolled(s, l) /\ (size = 0 \/ UnrollFactor(s, l) < size) THEN UnrollFactor(s, l) ELSE 0

\* The size of the tile that is added inside a loop, 0 if there is none: the part of an
\* unrolled loop that is unrolled (__u_), the part of a vectorized one that is a power
\* of two (__v_).
AddedTile(s, l) ==
  LET size == LoopSizeOr0(s, l) IN
  IF Vectorized(s, l)
  THEN IF size > 0 /\ size > pow2divisor(size) THEN pow2divisor(size) ELSE 0
  ELSE IF Unrolled(s, l) /\ (size = 0 \/ UnrollFactor(s, l) < size) THEN UnrollFactor(s, l) ELSE 0

\* The tiles of an axis: what they are part of, whether they were added, their size.
TvmTiles(s, a) ==
  LET Entries(l) ==
        (IF l.kind = "axis" THEN << >> ELSE <<[of |-> l, added |-> FALSE, size |-> LoopSizeOr0(s, l)]>>)
        \o (IF AddedTile(s, l) = 0 THEN << >> ELSE <<[of |-> l, added |-> TRUE, size |-> AddedTile(s, l)]>>)
      all == <<AxisLoop(a)>> \o TilesOf(RootNode(s).tiles, a)
  IN FlattenSeq([k \in DOMAIN all |-> Entries(all[k])])

HasAdded(tiles, l) == \E k \in DOMAIN tiles[l.axis] : tiles[l.axis][k].of = l /\ tiles[l.axis][k].added

\* The loop made for l, or for the tile added in it, under its new number.
TvmLoop(tiles, l, added) ==
  IF l.kind = "axis" /\ ~ added THEN l
  ELSE LET t == tiles[l.axis] IN
       TileLoop(l.axis, CHOOSE k \in DOMAIN t : t[k].of = l /\ t[k].added = added)

TvmNodeOf(tiles, order) ==
  [Node(0, 0, NoOrigin, order)
     EXCEPT !.tiles = [a \in Dims |-> [k \in DOMAIN tiles[a] |-> tiles[a][k].size]]]

\* Mutant: an added tile is placed outside the loop it is part of.
AddedOutside(s, tiles) ==
  LET perm == RootNode(s).interchange
      With(l) == (IF HasAdded(tiles, l) THEN <<TvmLoop(tiles, l, TRUE)>> ELSE << >>)
                 \o <<TvmLoop(tiles, l, FALSE)>>
  IN TvmNodeOf(tiles, FlattenSeq([p \in DOMAIN perm |-> With(perm[p])]))

\* The added loops are just inside those they are part of.
TvmNode(s, tiles) ==
  LET perm == RootNode(s).interchange
      With(l) == <<TvmLoop(tiles, l, FALSE)>>
                 \o (IF HasAdded(tiles, l) THEN <<TvmLoop(tiles, l, TRUE)>> ELSE << >>)
  IN TvmNodeOf(tiles, FlattenSeq([p \in DOMAIN perm |-> With(perm[p])]))

\* The loops that are vectorized, and those that are unrolled with their factor.
TvmVectorized(s, tiles) ==
  {TvmLoop(tiles, n.loop, HasAdded(tiles, n.loop)) : n \in ToSet(s.vectorization)}

TvmUnrolled(s, tiles) ==
  {<<TvmLoop(tiles, n.loop, HasAdded(tiles, n.loop)), s.unrolling[n]>> :
     n \in DOMAIN s.unrolling \ ToSet(s.vectorization)}
  \cup {<<TvmLoop(tiles, n.loop, FALSE), LoopSizeOr0(s, n.loop) \div AddedTile(s, n.loop)>> :
          n \in {m \in ToSet(s.vectorization) : HasAdded(tiles, m.loop)}}

\* LoopNest.check of one node with its vectorized and unrolled loops.
Accepted(node, vectors, unrolls) ==
  /\ Verdict(<<node>>) = "accepted"
  /\ \A p, q \in DOMAIN node.interchange :
       (p < q /\ node.interchange[p] \in vectors) => node.interchange[q] \in vectors
  /\ \A u \in unrolls : (u[1].kind = "tile" /\ u[1] \in ToSet(node.interchange)) =>
                          u[2] <= LoopSize(node, u[1])

\* The nest that code is emitted from.
NoCode == [emitted |-> FALSE, tiles |-> << >>, node |-> Node(0, 0, NoOrigin, << >>),
           vectors |-> {}, unrolls |-> {}]

TvmCode(s) ==
  LET tiles == [a \in Dims |-> TvmTiles(s, a)] IN
  [emitted |-> TRUE, tiles |-> tiles, node |-> TvmNode(s, tiles),
   vectors |-> TvmVectorized(s, tiles), unrolls |-> TvmUnrolled(s, tiles)]

\* An unrolled or vectorized loop that is not in the permutation is an assertion error.
TvmTakes(s, code) ==
  /\ \A n \in ToSet(s.vectorization) \cup DOMAIN s.unrolling :
       n.loop \in ToSet(RootNode(s).interchange)
  /\ Accepted(code.node, code.vectors, code.unrolls)

\* _dump_schedule_node: the factors of split, which are those of the tiles in turn, and
\* the order of reorder, which completes the permutation.
Factor(tiles, k) == IF k = Len(tiles) THEN tiles[k] ELSE tiles[k] \div tiles[k + 1]

TvmTrips(node, l, extent) ==
  LET tiles == node.tiles[l.axis] IN
  IF l.kind = "tile" THEN Factor(tiles, l.n)
  ELSE CeilDiv(extent[l.axis],
               FoldLeft(LAMBDA x, y : x * y, 1, [k \in DOMAIN tiles |-> Factor(tiles, k)]))

TvmLoops(node, dims, extent) ==
  LET all   == FlattenSeq([d \in DOMAIN dims |-> <<AxisLoop(dims[d])>> \o TilesOf(node.tiles, dims[d])])
      order == node.interchange \o SelectSeq(all, LAMBDA l : l \notin ToSet(node.interchange))
  IN [p \in DOMAIN order |-> <<order[p], TvmTrips(node, order[p], extent)>>]
=============================================================================
