--------------------------- MODULE StrategySearch ---------------------------
(***************************************************************************)
(* BaseStrategy (search/strategies.py): a strategy is created for an        *)
(* operation and asked for samples of its space, all of them, some of them  *)
(* through sample_uniques, or a default one; a sample is then turned into a *)
(* schedule.                                                                *)
(***************************************************************************)
EXTENDS SearchSpace, UniqueSampling, FiniteSetsExt, Functions

CONSTANTS
  Strategies,   \* the strategies created, as records of SearchSpace
  OptLevels,    \* optimisation levels asked of default_schedule
  MaxSpace      \* bound: sample is called on spaces of at most this size

VARIABLES
  strategy,     \* the strategy created: constant
  phase,        \* "created", "picked" or "generated"
  origin,       \* the call the sample came from
  sample, schedule

picking == <<strategy, phase, origin, sample, schedule>>

NoSchedule == Bare(<< >>, << >>, << >>, << >>, << >>, {})

SearchInit ==
  /\ strategy \in Strategies
  /\ phase = "created" /\ origin = "none"
  /\ sample = << >> /\ schedule = NoSchedule
  /\ space = Space(strategy)
  /\ Init

Pick(from, x) ==
  /\ phase = "created"
  /\ phase' = "picked" /\ origin' = from /\ sample' = x
  /\ UNCHANGED <<strategy, schedule, sampling>>

Exhaustive == num = 1 /\ stage = "loop" /\ requests = 0 /\ \E x \in space : Pick("exhaustive", x)

Default(opt) == num = 1 /\ stage = "loop" /\ requests = 0 /\ Pick("default", DefaultSchedule(strategy, opt))

\* sample(num): every draw of the product is filtered; draw keeps what Keep keeps.
Sampling ==
  /\ phase = "created" /\ Cardinality(space) <= MaxSpace
  /\ Next
  /\ UNCHANGED picking

Sampled == stage = "done" /\ \E i \in DOMAIN samples : Pick("sample", samples[i])

GenerateSchedule ==
  /\ phase = "picked"
  /\ phase' = "generated" /\ schedule' = Generate(strategy, sample)
  /\ UNCHANGED <<strategy, origin, sample, sampling>>

SearchNext ==
  \/ Exhaustive \/ Sampling \/ Sampled \/ GenerateSchedule
  \/ \E opt \in OptLevels : Default(opt)

SearchSpec == SearchInit /\ [][SearchNext]_<<picking, sampling>> /\ WF_<<picking, sampling>>(Sampling)

-----------------------------------------------------------------------------
(* Properties. *)

axes == ToSet(strategy.axes)

\* What tile sizes a loop steps over: those of the strategy as a chain from the axis in.
Chain(a) == <<strategy.size[a]>> \o schedule.tiles[a]

FromSpace == phase = "generated" /\ origin \in {"exhaustive", "sample"}

\* A call of sample returns, however few samples the filters leave.
SampleReturns == requests > 0 ~> stage = "done"

\* A sample of the space becomes a nest that covers each dimension exactly: every tile
\* divides what it tiles, each axis and tile is one loop, outside its own tiles.
\* GOTO's k1 is kL1 wide, so it divides too.  sizes_to_factors gives the factors back.
NestIsATiling ==
  FromSpace =>
    /\ \A a \in axes :
         /\ \A p \in 1 .. Len(Chain(a)) - 1 : Chain(a)[p] % Chain(a)[p + 1] = 0
         /\ LET loops == SelectSeq(schedule.order, LAMBDA l : l[1] = a)
            IN loops = [p \in 1 .. Len(Chain(a)) |-> <<a, p - 1>>]
    /\ strategy.kind = "prt" =>
         FlattenSeq([p \in DOMAIN strategy.axes |-> SizesToFactors(schedule.tiles[strategy.axes[p]])])
           = SubSeq(sample, 1, XSize(strategy))

Chains(n, levels) ==
  {c \in [1 .. levels -> 1 .. n] :
     \A p \in 1 .. levels : (IF p = 1 THEN n ELSE c[p - 1]) % c[p] = 0}

\* The tile sizes of the samples of a prt scheme are exactly the chains of divisors,
\* whatever flags go with them.
AllTilings ==
  (phase = "created" /\ requests = 0 /\ num = 1 /\ strategy.kind = "prt") =>
    LET all == AllSamples(strategy)
        flags == 2 ^ (Names(strategy) - XSize(strategy))
        chains == [a \in axes |-> Chains(strategy.size[a], Levels(strategy, a) - 1)]
    IN /\ \A a \in axes : chains[a] = {GeneratePrt(strategy, x).tiles[a] : x \in all}
       /\ Cardinality(all) =
            flags * Product([p \in DOMAIN strategy.axes |-> Cardinality(chains[strategy.axes[p]])])

\* The default schedule of an optimisation level is a sample: its tiles stand at the
\* positions of the loops they are meant for and divide the sizes, and there is a flag for
\* every buffer.  It is none where the scheme fuses, since it has no values for the flags of
\* fusions, nor for GOTO, whose untiled default unrolls by 0.
DefaultIsASample ==
  (/\ origin = "default"
   /\ strategy.kind \notin {"goto", "goto_r"}
   /\ Marked(strategy, "F") \o Marked(strategy, "C") = << >>) =>
    sample \in AllSamples(strategy)

\* All tilings are in the space, each once, and default schedules but for fusions and GOTO.
SpaceIsAllTilings == AllTilings /\ DefaultIsASample

TileSize(l) == schedule.tiles[l[1]][l[2]]

\* Elements of the output a block of the last n items of the scheme touches with its
\* reductions: the outermost tile each axis has in them.
Block(n) ==
  LET inner == UNION {ToSet(ItemLoops(strategy, Len(strategy.scheme) - m)) : m \in 0 .. n - 1}
      of(a) == {l \in inner : l[1] = a}
  IN Product([p \in DOMAIN strategy.axes |->
                LET a == strategy.axes[p] IN
                IF of(a) = {} THEN 1
                ELSE TileSize(CHOOSE l \in of(a) : \A m \in of(a) : l[2] <= m[2])])

UnrolledBodyIsBounded ==
  (FromSpace /\ strategy.maxUnroll > 0) =>
    LET body  == DOMAIN schedule.unroll \cup ToSet(schedule.vector)
        times == [l \in body |-> IF l \in DOMAIN schedule.unroll THEN schedule.unroll[l]
                                 ELSE TileSize(l)]
        lanes == IF schedule.vector = << >> THEN 1
                 ELSE MinOf(TileSize(schedule.vector[1]), strategy.vec)
    IN /\ FoldFunction(LAMBDA x, y : x * y, 1, times) <= strategy.maxUnroll * lanes
       /\ strategy.kind \notin {"goto", "goto_r"} =>
            \A l \in DOMAIN schedule.unroll : /\ l[2] = Len(schedule.tiles[l[1]])
                                             /\ schedule.unroll[l] = TileSize(l)

InnerBlocksFit ==
  (FromSpace /\ "caches" \in strategy.filters) =>
    /\ Block(1) <= strategy.vec * strategy.vregs
    /\ Block(2) <= strategy.l1 /\ Block(3) <= strategy.l2

\* The filters speak of positions in a vector; in the schedule they bound loops.  What is
\* unrolled and vectorised is a body of at most maxUnroll vectors, and outside GOTO an
\* unrolled loop is a whole innermost tile; a _vr strategy keeps a schedule only if its
\* inner blocks fit registers and caches.
FiltersHold == UnrolledBodyIsBounded /\ InnerBlocksFit
=============================================================================
