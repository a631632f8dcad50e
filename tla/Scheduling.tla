----------------------------- MODULE Scheduling -----------------------------
(***************************************************************************)
(* The two ways a scheduler is driven: Descript.apply hands over the nest   *)
(* it has accepted, node by node, or a client (a test, a search strategy)   *)
(* calls the primitives itself, on a kernel without segments, in any order. *)
(* The calls reach the schedulers of the MLIR and TVM back ends, which keep *)
(* the same dictionaries, and that of the JIR back end, which keeps its own.*)
(***************************************************************************)
EXTENDS DescriptMlir, BackendSchedules

CONSTANTS
  AxisSize,         \* size of every axis for a client that calls the primitives itself
  DirectTiles,    \* sizes it tiles with
  UnrollFactors,  \* factors it unrolls with
  MaxLoops,       \* bound: loops after its tilings
  MaxCalls        \* bound: its calls

ASSUME SchedulingAssumption ==
  /\ IsFiniteSet(Dims)
  /\ AxisSize \in Nat \ {0} /\ DirectTiles \subseteq Nat \ {0} /\ UnrollFactors \subseteq Nat \ {0}
  /\ MaxLoops \in Nat /\ MaxCalls \in Nat

VARIABLES
  client,   \* "descript" or "direct": constant
  dims,     \* the axes in order, for a direct client: constant
  plain,    \* the PlainNodeScheduler
  jir,      \* the JIRSchedulerAdaptor of the same calls
  calls,    \* calls made
  retiled,  \* an axis was tiled twice
  code      \* the nest TVM emits its code from

schedVars == <<client, dims, plain, jir, calls, retiled, code>>

InitSched ==
  /\ Init
  /\ client \in {"descript", "direct"}
  /\ dims \in IF client = "descript" THEN {<< >>}
             ELSE {d \in [1 .. Cardinality(Dims) -> Dims] : ToSet(d) = Dims}
  /\ client = "direct" => dimSize = 0
  /\ plain = NewScheduler /\ jir = NewAdaptor
  /\ calls = 0 /\ retiled = FALSE /\ code = NoCode

\* Descript.apply_sample: a nest that is accepted is applied.
Apply ==
  /\ client = "descript" /\ stage = "accepted" /\ plain = NewScheduler
  /\ plain' = Applied(nest)
  /\ UNCHANGED <<vars, client, dims, jir, calls, retiled, code>>

Calls ==
  /\ client = "direct" /\ calls < MaxCalls /\ ~ code.emitted
  /\ calls' = calls + 1
  /\ UNCHANGED <<vars, client, dims, code>>

\* The schedule as schedule() would take it now.
schedule == get_plain_schedule(plain, dims)

Loops == UNION {{AxisLoop(a)} \cup ToSet(TilesOf(RootNode(schedule).tiles, a)) : a \in Dims}

\* One or two tiles of an axis.
CallTile(a, sizes) ==
  /\ Calls
  /\ plain' = tile(plain, a, sizes, DefaultRoot)
  /\ jir' = jirTile(jir, a, sizes, AxisSize)
  /\ retiled' = (retiled \/ RootNode(schedule).tiles[a] # << >>)
  /\ Cardinality(Loops') <= MaxLoops

CallInterchange(order) ==
  /\ Calls
  /\ plain' = interchange(plain, order, DefaultRoot)
  /\ jir' = jirInterchange(jir, order)
  /\ UNCHANGED retiled

\* A loop is vectorized at most once.
CallVectorize(l) ==
  /\ Calls
  /\ ~ Vectorized(plain, l)
  /\ plain' = vectorize(plain, <<l>>, DefaultRoot)
  /\ UNCHANGED <<jir, retiled>>

CallUnroll(l, factor) ==
  /\ Calls
  /\ plain' = unroll(plain, l, factor, DefaultRoot)
  /\ UNCHANGED <<jir, retiled>>

\* schedule() ends the calls.
Emit ==
  /\ client = "direct" /\ ~ code.emitted
  /\ code' = TvmCode(schedule)
  /\ UNCHANGED <<vars, client, dims, plain, jir, calls, retiled>>

NextSched ==
  \/ Next /\ client = "descript" /\ UNCHANGED schedVars
  \/ Apply
  \/ Emit
  \/ \E a \in Dims, sizes \in UNION {[1 .. n -> DirectTiles] : n \in 1 .. 2} : CallTile(a, sizes)
  \/ \E order \in SetToSeqs(Loops) : CallInterchange(order)
  \/ \E l \in Loops : CallVectorize(l) \/ \E f \in UnrollFactors : CallUnroll(l, f)

SpecSched == InitSched /\ [][NextSched]_<<vars, schedVars>>

-----------------------------------------------------------------------------
(* Properties. *)

\* What LoopNestBuilder finds under the names of the scheduler is the nest that was
\* applied: every node with the tiles, the segments and the order it had, none
\* missing and none that was not there.  Segments are given by their starts here; that their
\* extents are the ones written is SegmentsAsWritten.
BuiltBackAsApplied ==
  (client = "descript" /\ plain # NewScheduler) =>
    LET root == RootOf(nest) IN
    /\ ~ Unscheduled(plain)
    /\ BuiltRoots(plain) = {root[m] : m \in DOMAIN nest}
    /\ \A m \in DOMAIN nest :
         LET built == SingleNode(plain, root[m]) IN
         /\ built.tiles = nest[m].tiles /\ built.splits = nest[m].splits
         /\ built.interchange = nest[m].interchange
         /\ ChildOrigin(plain, root[m]).axis = nest[m].origin.axis
         /\ ChildOrigin(plain, root[m]).start = nest[m].origin.start

\* The permutation names every loop, the tiles of an axis in order.
Ordered ==
  LET perm == RootNode(schedule).interchange IN
  /\ ToSet(perm) = Loops
  /\ \A p, q \in DOMAIN perm : (perm[p].axis = perm[q].axis /\ perm[p].n < perm[q].n) => p < q

\* The tiles TVM splits with divide each other.
TvmDivides ==
  \A a \in Dims : LET t == code.node.tiles[a] IN
    \A k \in 1 .. Len(t) - 1 : t[k] % t[k + 1] = 0

\* The loops TVM makes, those of the tiles it has added multiplied into the loop they are
\* part of.
TvmWhole(s, extent) ==
  LET loops == TvmLoops(code.node, dims, extent)
      Iterations(l, added) ==
        IF added /\ ~ HasAdded(code.tiles, l) THEN 1
        ELSE LET p == CHOOSE q \in DOMAIN loops : loops[q][1] = TvmLoop(code.tiles, l, added)
             IN loops[p][2]
      perm == RootNode(s).interchange
  IN [p \in DOMAIN perm |-> <<perm[p], Iterations(perm[p], FALSE) * Iterations(perm[p], TRUE)>>]

extentOf == [a \in Dims |-> AxisSize]

\* Whatever calls are made and in whatever order they come, as long as no axis is tiled
\* twice: where the permutation is complete and TVM and JIR take the schedule, the three
\* back ends make the same loops, in the same order, with as many iterations, down to
\* where MLIR vectorizes what is left.
SameLoops ==
  (code.emitted /\ ~ retiled /\ plain.permutation # << >> /\ Ordered /\ ~ JirRaises(jir, dims)) =>
    LET j == JirLoops(jir, dims, extentOf)
        m == MlirLoops(schedule, extentOf)
    IN /\ m = SubSeq(j, 1, Len(m))
       /\ (TvmTakes(schedule, code) /\ TvmDivides) => TvmWhole(schedule, extentOf) = j

\* A tile that is vectorized is vectorized or unrolled as a whole by TVM, by vectors
\* of a power of two.
VectorizedAsAWhole ==
  (code.emitted /\ TvmTakes(schedule, code) /\ TvmDivides) =>
    LET loops == TvmLoops(code.node, dims, extentOf)
        Iterations(l) == loops[CHOOSE p \in DOMAIN loops : loops[p][1] = l][2]
    IN \A l \in Loops : (Vectorized(schedule, l) /\ l.kind = "tile" /\ l.n = Len(RootNode(schedule).tiles[l.axis])) =>
         LET v == TvmLoop(code.tiles, l, HasAdded(code.tiles, l))
             u == TvmLoop(code.tiles, l, FALSE)
         IN /\ v \in code.vectors
            /\ \E k \in 0 .. AxisSize : Iterations(v) = 2 ^ k
            /\ v # u => <<u, Iterations(u)>> \in code.unrolls
            /\ LoopSizeOr0(schedule, l) = Iterations(v) * (IF v = u THEN 1 ELSE Iterations(u))

\* A schedule that LoopNest.check accepts is one that TVM can make, unless a tile that is
\* not a power of two is vectorized inside another vectorized loop, or a loop is unrolled
\* by less than one of its tiles: the loops TVM adds then break the rules of the check.
ValidIsTaken ==
  LET s == schedule
      perm == RootNode(s).interchange
      Inside(l) == {t \in ToSet(TilesOf(RootNode(s).tiles, l.axis)) : t.n > l.n}
      as1  == [Node(0, 0, NoOrigin, RootNode(s).interchange) EXCEPT !.tiles = RootNode(s).tiles]
  IN (/\ code.emitted
      /\ \A n \in ToSet(s.vectorization) \cup DOMAIN s.unrolling : n.loop \in ToSet(as1.interchange)
      /\ Ordered
      /\ Accepted(as1, {n.loop : n \in ToSet(s.vectorization)}, {<<n.loop, s.unrolling[n]>> : n \in DOMAIN s.unrolling})
      /\ \A p, q \in DOMAIN perm :
           (p < q /\ Vectorized(s, perm[p]) /\ Vectorized(s, perm[q])) => ~ HasAdded(code.tiles, perm[q])
      /\ \A l \in Loops : HasAdded(code.tiles, l) => \A t \in Inside(l) : LoopSizeOr0(s, t) <= AddedTile(s, l))
     => TvmTakes(s, code)

\* TVM makes the schedules the check accepts, with its vectors as they were asked for.
ValidIsMadeByTvm == ValidIsTaken /\ VectorizedAsAWhole
=============================================================================
