----------------------------- MODULE SearchSpace -----------------------------
(***************************************************************************)
(* The schedule spaces of search/strategies.py: how a strategy turns the    *)
(* dimensions of an operation into a space of integer vectors, which of     *)
(* them its filters keep, and the schedule each one stands for.             *)
(*                                                                          *)
(* A strategy s is a record: kind is its class ("prt" with its scheme,      *)
(* "p1", "goto", and "p1v", "goto_r" with their own filters); filters says  *)
(* what a _v or _vr class adds; axes, par and size come from the operation; *)
(* the rest are its arguments, caches counted in elements.  Loop <<a, 0>>   *)
(* is axis a, <<a, l>> its l-th tile.                                       *)
(***************************************************************************)
LOCAL INSTANCE Integers
LOCAL INSTANCE Sequences
LOCAL INSTANCE FiniteSets
LOCAL INSTANCE FiniteSetsExt
LOCAL INSTANCE SequencesExt
LOCAL INSTANCE Functions
LOCAL INSTANCE TLC

MinOf(a, b) == IF a < b THEN a ELSE b
MaxOf(a, b) == IF a > b THEN a ELSE b

Product(seq) == FoldLeft(LAMBDA x, y : x * y, 1, seq)

-----------------------------------------------------------------------------
(* utils/math.py *)

\* Mutant: the square root itself is never tried.
DivisorsBelow(n) ==
  UNION {{i, n \div i} : i \in {i \in 1 .. n : (i * i < n \/ n = 1) /\ n % i = 0}}

\* Trial division up to the square root, by odd numbers if n is odd.
Divisors(n) ==
  UNION {{i, n \div i} : i \in {i \in 1 .. n : /\ i * i <= n /\ n % i = 0
                                               /\ n % 2 = 1 => i % 2 = 1}}

\* All k factors whose product divides n, one level after the other.
Factorings(n, k) ==
  LET enumerate[l \in 0 .. k, remain \in 1 .. n] ==
        IF l = 0 THEN {<< >>}
        ELSE UNION {{<<f>> \o rest : rest \in enumerate[l - 1, remain \div f]} :
                    f \in Divisors(remain)}
  IN enumerate[k, n]

FactorsToSizes(fs) == [p \in DOMAIN fs |-> Product(SubSeq(fs, p, Len(fs)))]

\* Each size over the product of the factors inside it.
SizesToFactors(sizes) ==
  LET red(fs, x) == <<x \div Product(fs)>> \o fs
  IN FoldLeft(red, << >>, Reverse(sizes))

-----------------------------------------------------------------------------
(* The classes, their names, and a strategy made from a name. *)

Class(kind, scheme, filters) == [kind |-> kind, scheme |-> scheme, filters |-> filters]

\* A scheme without filters, with those of its _v and with those of its _vr class.
Plain(scheme)      == Class("prt", scheme, {})
Vectors(scheme)    == Class("prt", scheme, {"vector"})
Restricted(scheme) == Class("prt", scheme, {"vector", "caches"})

PPRPRP    == <<"P", "P", "R", "P", "R", "P">>
PPWRPRP   == <<"P", "P", "W", "R", "P", "R", "P">>
PFPWRPRP  == <<"P", "F", "P", "W", "R", "P", "R", "P">>
PFPCWRPRP == <<"P", "F", "P", "C", "W", "R", "P", "R", "P">>

TileClasses ==
  [tile_oo |-> Plain(<<"O", "O">>), tile_prp |-> Plain(<<"P", "R", "P">>),
   tile_pprprp |-> Plain(PPRPRP), tile_pprprp_v |-> Vectors(PPRPRP),
   tile_pprprp_vr |-> Restricted(PPRPRP)]

FusingClasses ==
  [tile_pfpwrprp |-> Plain(PFPWRPRP), tile_pfpwrprp_v |-> Vectors(PFPWRPRP),
   tile_pfpwrprp_vr |-> Restricted(PFPWRPRP),
   tile_pfpcwrprp |-> Plain(PFPCWRPRP), tile_pfpcwrprp_v |-> Vectors(PFPCWRPRP),
   tile_pfpcwrprp_vr |-> Restricted(PFPCWRPRP)]

BufferClasses ==
  [tile_ppwrprp |-> Plain(PPWRPRP), tile_ppwrprp_v |-> Vectors(PPWRPRP),
   tile_ppwrprp_vr |-> Restricted(PPWRPRP)]

\* Classes for matmul only.
P1Classes   == [tile_p1 |-> Class("p1", << >>, {}), tile_p1_v |-> Class("p1v", << >>, {})]
GotoClasses == [tile_goto |-> Class("goto", << >>, {}), tile_goto_r |-> Class("goto_r", << >>, {})]

Registered == TileClasses @@ BufferClasses @@ FusingClasses @@ P1Classes @@ GotoClasses

Aliases ==
  [tile1d |-> "tile_oo", tile3d |-> "tile_oo", tile4d |-> "tile_p1", tile4dv |-> "tile_p1_v",
   tile7d |-> "tile_pprprp", tile7dv |-> "tile_pprprp_v", tile7dvr |-> "tile_pprprp_vr",
   tile8d |-> "tile_ppwrprp", tile8dv |-> "tile_ppwrprp_v", tile8dvr |-> "tile_ppwrprp_vr",
   tile9d |-> "tile_pfpwrprp", tile9dv |-> "tile_pfpwrprp_v", tile9dvr |-> "tile_pfpwrprp_vr",
   tile10d |-> "tile_pfpcwrprp", tile10dv |-> "tile_pfpcwrprp_v",
   tile10dvr |-> "tile_pfpcwrprp_vr"]

\* No alias is the name of another.
ResolveName(name) == IF name \in DOMAIN Aliases THEN Aliases[name] ELSE name

\* The arguments of a strategy that its caller leaves out; elements are of 4 bytes.
Defaults ==
  [vec |-> 16, maxUnroll |-> 256, threads |-> 1, maxParallel |-> -1,
   vregs |-> 32, l1 |-> (32 * 1024) \div 4, l2 |-> (1024 * 1024) \div 4]

\* The name "prt" takes its scheme from the caller.
Create(name, op, args) ==
  (IF name = "prt" THEN Plain(args.scheme) ELSE Registered[ResolveName(name)])
    @@ op @@ args @@ Defaults

-----------------------------------------------------------------------------
(* BaseStrategyPRTScheme: the tables computed from the scheme. *)

PAxes(s) == SelectSeq(s.axes, LAMBDA a : a \in s.par)
RAxes(s) == SelectSeq(s.axes, LAMBDA a : a \notin s.par)

ItemAxes(s, item) ==
  CASE item = "P" -> PAxes(s)
    [] item = "R" -> RAxes(s)
    [] item = "T" -> s.axes
    [] item = "O" -> LET p == PAxes(s) IN SubSeq(p, 1, 1) \o RAxes(s) \o SubSeq(p, 2, Len(p))
    [] OTHER      -> << >>      \* W, F and C mark a place

\* How many of the first n items of the scheme hold axis a.
Level(s, n, a) == Cardinality({j \in 1 .. n : a \in ToSet(ItemAxes(s, s.scheme[j]))})

Levels(s, a) == Level(s, Len(s.scheme), a)

ItemLoops(s, n) ==
  LET axes == ItemAxes(s, s.scheme[n])
  IN [p \in DOMAIN axes |-> <<axes[p], Level(s, n - 1, axes[p])>>]

OrderUpTo(s, n) == FlattenSeq([m \in 1 .. n |-> ItemLoops(s, m)])

Order(s) == OrderUpTo(s, Len(s.scheme))

\* The loops before the W, F or C marks.
Marked(s, mark) ==
  LET places == SetToSortSeq({n \in DOMAIN s.scheme : s.scheme[n] = mark}, <)
  IN [i \in DOMAIN places |-> Last(OrderUpTo(s, places[i] - 1))]

\* Where the factors of axis a begin in a sample, and that of one of its loops: an
\* axis shares the place of its first tile.
Offset(s, a) ==
  LET before == {b \in ToSet(s.axes) :
                   \E p, q \in DOMAIN s.axes : p < q /\ s.axes[p] = b /\ s.axes[q] = a}
  IN SumFunctionOnSet([b \in ToSet(s.axes) |-> Levels(s, b) - 1], before)

TileIdx(s, l) == Offset(s, l[1]) + MaxOf(l[2], 1)

XSize(s) == SumFunction([a \in ToSet(s.axes) |-> Levels(s, a) - 1])

Suffix(s, n) == SubSeq(s.scheme, MaxOf(1, Len(s.scheme) - n + 1), Len(s.scheme))

\* The inner loops that are unrolled, innermost first; none is a whole axis.
Unrolled(s) ==
  LET wanted == CASE s.maxUnroll = 0 -> 0
                  [] Suffix(s, 1) \in {<<"T">>, <<"O">>}
                     \/ Suffix(s, 2) \in {<<"P", "R">>, <<"R", "P">>} -> Len(s.axes)
                  [] Suffix(s, 1) = <<"P">> -> Len(PAxes(s))
                  [] Suffix(s, 1) = <<"R">> -> Len(RAxes(s))
                  [] OTHER -> 0
      inner == Reverse(Order(s))
      n == Max({m \in 0 .. MinOf(wanted, Len(inner)) : \A p \in 1 .. m : inner[p][2] > 0})
  IN SubSeq(inner, 1, n)

\* The innermost loop, if it is a tile of the last parallel axis.
Vectorized(s) ==
  LET l == Last(Order(s)) IN
  IF s.vec > 1 /\ l[2] > 0 /\ PAxes(s) # << >> /\ l[1] = Last(PAxes(s)) THEN <<l>> ELSE << >>

\* The outermost loops as long as they are whole parallel axes.
Parallel(s) ==
  LET order == Order(s)
      most == IF s.maxParallel < 0 THEN Len(order) ELSE MinOf(s.maxParallel, Len(order))
      n == Max({m \in 0 .. most :
                  \A p \in 1 .. m : order[p][2] = 0 /\ order[p][1] \in s.par})
  IN IF s.threads > 1 THEN SubSeq(order, 1, n) ELSE << >>

-----------------------------------------------------------------------------
(* _independents, _exhaustive: the space before and after the filters. *)

Names(s) ==
  CASE s.kind = "prt" ->
         XSize(s) + Len(Marked(s, "W")) + Len(Marked(s, "F")) + Len(Marked(s, "C"))
    [] s.kind \in {"p1", "p1v"} -> 4
    [] OTHER -> 8

\* itertools.permutations of i1, j1, k1, and those that end with j1.
Permutations3 ==
  LET i == <<"i", 1>>  j == <<"j", 1>>  k == <<"k", 1>>
  IN <<<<i, j, k>>, <<i, k, j>>, <<j, i, k>>, <<j, k, i>>, <<k, i, j>>, <<k, j, i>>>>

ValidVectorIdx == {n - 1 : n \in {m \in 1 .. 6 : Permutations3[m][3] = <<"j", 1>>}}

Flags(n) == [p \in 1 .. n |-> {<<0>>, <<1>>}]

IndependentsPrt(s) ==
  [p \in DOMAIN s.axes |-> Factorings(s.size[s.axes[p]], Levels(s, s.axes[p]) - 1)]
    \o Flags(Len(Marked(s, "W")) + Len(Marked(s, "F")) + Len(Marked(s, "C")))

IndependentsP1(s) ==
  [p \in 1 .. 3 |-> Factorings(s.size[s.axes[p]], 1)] \o <<{<<o>> : o \in 0 .. 5}>>

IndependentsGoto(s) == [p \in 1 .. 3 |-> Factorings(s.size[s.axes[p]], 2)] \o Flags(2)

Independents(s) ==
  CASE s.kind = "prt" -> IndependentsPrt(s)
    [] s.kind \in {"p1", "p1v"} -> IndependentsP1(s)
    [] OTHER -> IndependentsGoto(s)

AllSamples(s) ==
  LET extend(all, part) == {x \o y : x \in all, y \in part}
  IN FoldLeft(extend, {<< >>}, Independents(s))

Values(x, idx) == Product([p \in DOMAIN idx |-> x[idx[p]]])

Indexes(s, loops) == [p \in DOMAIN loops |-> TileIdx(s, loops[p])]

\* Mutant: a sample that unrolls too much is kept if it fills a vector.
UnrollFilterLoose(s, x) ==
  \/ s.kind = "prt" /\ Unrolled(s) # << >>
  \/ s.maxUnroll < 0
  \/ s.kind # "prt" /\ x[1] * x[2] * x[3] <= s.maxUnroll * s.vec

\* _filter_unroll: what the innermost tiles unroll to, in vectors.
UnrollsAtMost(s, x, indexes, vsize) ==
  s.maxUnroll < 0 \/ Values(x, indexes) <= s.maxUnroll * MinOf(vsize, s.vec)

UnrollFilterPrt(s, x) ==
  UnrollsAtMost(s, x, Indexes(s, Unrolled(s)),
                IF Vectorized(s) = << >> THEN 1 ELSE x[TileIdx(s, Vectorized(s)[1])])

\* j1 is a vector in the permutations that have it inside.
VectorP1(x) == IF x[4] \in ValidVectorIdx THEN x[2] ELSE 1

UnrollFilterP1(s, x) == UnrollsAtMost(s, x, <<1, 2, 3>>, VectorP1(x))

UnrollFilterGoto(s, x) == UnrollsAtMost(s, x, <<2, 4, 6>>, x[4])

UnrollFilter(s, x) ==
  CASE s.kind = "prt" -> UnrollFilterPrt(s, x)
    [] s.kind \in {"p1", "p1v"} -> UnrollFilterP1(s, x)
    [] OTHER -> UnrollFilterGoto(s, x)

VectorFilter(s, x) ==
  LET v == Vectorized(s) IN
  v # << >> /\ s.size[v[1][1]] > s.vec => x[TileIdx(s, v[1])] >= s.vec

\* Mutant: the outermost of the n items is left out.
InnerFilterShort(s, x, n, elements) ==
  LET items == FlattenSeq([p \in 1 .. n - 1 |-> ItemLoops(s, Len(s.scheme) - n + p + 1)])
  IN Values(x, Indexes(s, items)) <= elements

\* The factors of the last n items of the scheme, at most so many elements.
InnerFilter(s, x, n, elements) ==
  LET items == FlattenSeq([p \in 1 .. n |-> ItemLoops(s, Len(s.scheme) - n + p)])
  IN Values(x, Indexes(s, items)) <= elements

\* Strategy_GOTO_R.
GotoFilter(s, x) ==
  /\ x[2] * x[4] < (s.vec * s.vregs) \div 2
  /\ x[2] < 4 /\ x[6] < 4
  /\ 1 < x[1] /\ x[1] < 128 /\ 1 < x[3] /\ x[3] < 128

Keep(s, x) ==
  /\ UnrollFilter(s, x)
  /\ "vector" \in s.filters => VectorFilter(s, x)
  /\ "caches" \in s.filters => /\ InnerFilter(s, x, 1, s.vec * s.vregs)
                               /\ InnerFilter(s, x, 2, s.l1)
                               /\ InnerFilter(s, x, 3, s.l2)
  /\ s.kind = "p1v" => x[4] \in ValidVectorIdx /\ x[2] >= s.vec
  /\ s.kind = "goto_r" => GotoFilter(s, x)

Space(s) == {x \in AllSamples(s) : Keep(s, x)}

-----------------------------------------------------------------------------
(* _generate: the scheduler calls of a sample, as the schedule they leave. *)

\* in_x[-back + i], counted from the end as the code does.
FromEnd(x, back, i) == x[Len(x) - back + i]

\* The marked loops whose flag is set; after is the number of flags behind theirs.
Chosen(s, mark, x, after) ==
  LET loops == Marked(s, mark)
      back == Len(loops) + after
  IN {loops[i] : i \in {j \in DOMAIN loops : FromEnd(x, back, j) # 0}}

GeneratePrt(s, x) ==
  LET w == Marked(s, "W")  f == Marked(s, "F")  c == Marked(s, "C") IN
  [tiles     |-> [a \in ToSet(s.axes) |->
                    FactorsToSizes(SubSeq(x, Offset(s, a) + 1, Offset(s, a) + Levels(s, a) - 1))],
   order     |-> Order(s),
   parallel  |-> Parallel(s),
   vector    |-> Vectorized(s),
   unroll    |-> [l \in ToSet(Unrolled(s)) |-> x[TileIdx(s, l)]],
   buffers   |-> Chosen(s, "W", x, Len(f) + Len(c)),
   producers |-> Chosen(s, "F", x, Len(c)),
   consumers |-> Chosen(s, "C", x, 0),
   packs     |-> {}]

Bare(tiles, order, parallel, vector, unroll, packs) ==
  [tiles |-> tiles, order |-> order, parallel |-> parallel, vector |-> vector,
   unroll |-> unroll, buffers |-> {}, producers |-> {}, consumers |-> {}, packs |-> packs]

GenerateP1(s, x) ==
  LET inner == Permutations3[x[4] + 1]
      tile == [i |-> x[1], j |-> x[2], k |-> x[3]]
  IN Bare([a \in ToSet(s.axes) |-> <<tile[a]>>],
          <<<<"i", 0>>, <<"j", 0>>, <<"k", 0>>>> \o inner,
          IF s.threads > 1 THEN <<<<"i", 0>>, <<"j", 0>>>> ELSE << >>,
          IF inner[3] = <<"j", 1>> THEN <<inner[3]>> ELSE << >>,
          [l \in ToSet(inner) |-> tile[l[1]]], {})

\* Mutant: the outer tiles are not multiplied by the inner ones.
GenerateGotoUnscaled(s, x) ==
  Bare([i |-> <<x[1], x[2]>>, j |-> <<x[3], x[4]>>, k |-> <<x[5]>>],
       <<<<"j", 0>>, <<"k", 0>>, <<"i", 0>>, <<"j", 1>>, <<"i", 1>>, <<"k", 1>>,
         <<"i", 2>>, <<"j", 2>>>>,
       << >>, <<<<"j", 2>>>>, (<<"i", 2>> :> x[2]) @@ (<<"k", 1>> :> x[6]), {})

GenerateGoto(s, x) ==
  Bare([i |-> <<x[2] * x[1], x[2]>>, j |-> <<x[4] * x[3], x[4]>>, k |-> <<x[5]>>],
       <<<<"j", 0>>, <<"k", 0>>, <<"i", 0>>, <<"j", 1>>, <<"i", 1>>, <<"k", 1>>,
         <<"i", 2>>, <<"j", 2>>>>,
       IF s.threads > 1 THEN <<<<"j", 0>>>> ELSE << >>, <<<<"j", 2>>>>,
       (<<"i", 2>> :> x[2]) @@ (<<"k", 1>> :> x[6]),
       (IF x[7] # 0 THEN {<<"k", 1>>} ELSE {}) \cup (IF x[8] # 0 THEN {<<"i", 0>>} ELSE {}))

Generate(s, x) ==
  CASE s.kind = "prt" -> GeneratePrt(s, x)
    [] s.kind \in {"p1", "p1v"} -> GenerateP1(s, x)
    [] OTHER -> GenerateGoto(s, x)

-----------------------------------------------------------------------------
(* _default_schedule *)

\* Mutant: not a factor where most does not divide the size.
MaxAxisFactorCapped(s, a, most) == MinOf(s.size[a], most)

MaxAxisFactor(s, a, most) == Max({f \in Divisors(s.size[a]) : f <= most})

\* 1 where no tile is given.
FromTiles(s, tiles) ==
  LET at(i) == {l \in DOMAIN tiles : TileIdx(s, l) = i}
  IN [i \in 1 .. XSize(s) |-> IF at(i) = {} THEN 1 ELSE tiles[CHOOSE l \in at(i) : TRUE]]

PrtBase(s, v, p, r) ==
  LET first(seq, n) == SubSeq(seq, 1, MinOf(n, Len(seq)))
      vaxes == ToSet(Vectorized(s))
      paxes == ToSet(first(SelectSeq(Unrolled(s), LAMBDA l : l[1] \in s.par), 2)) \ vaxes
      raxes == ToSet(first(SelectSeq(Unrolled(s), LAMBDA l : l[1] \notin s.par), 1))
      most(l) == CASE l \in vaxes -> MaxOf(p, v)
                   [] l \in paxes -> p
                   [] l \in raxes -> r
  IN FromTiles(s, [l \in vaxes \cup paxes \cup raxes |-> MaxAxisFactor(s, l[1], most(l))])

\* The flags of W are appended, those of F and C are not.
DefaultPrt(s, opt) ==
  LET w == Len(Marked(s, "W")) IN
  (CASE opt >= 3 -> PrtBase(s, s.vec, 4, 16)
     [] opt = 2  -> PrtBase(s, s.vec, 2, 1)
     [] OTHER    -> [i \in 1 .. XSize(s) |-> 1])
  \o [i \in 1 .. w |-> IF opt >= 3 \/ (opt = 2 /\ i = w) THEN 1 ELSE 0]

\* Matmul strategies tile by 2 rows and a vector, if those divide the sizes.
Divides(d, n) == n >= d /\ n % d = 0

Tiled(s, opt) == opt >= 3 /\ Divides(2, s.size["i"]) /\ Divides(s.vec, s.size["j"])

DefaultP1(s, opt) ==
  IF Tiled(s, opt) THEN <<2, s.vec, 1, 1>> ELSE <<1, 1, 1, IF opt >= 2 THEN 1 ELSE 0>>

DefaultGoto(s, opt) ==
  IF Tiled(s, opt) THEN <<1, 2, 1, s.vec, 1, 2, 1, 1>> ELSE <<1, 1, 1, 1, 1, 0, 0, 0>>

DefaultSchedule(s, opt) ==
  CASE s.kind = "prt" -> DefaultPrt(s, opt)
    [] s.kind \in {"p1", "p1v"} -> DefaultP1(s, opt)
    [] OTHER -> DefaultGoto(s, opt)
=============================================================================
