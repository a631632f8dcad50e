-------------------------------- MODULE Ttile --------------------------------
(***************************************************************************)
(* Ttile from end to end: microkernels are measured and loaded, a scheme   *)
(* is drawn over them or written by hand, and is then put to one of its    *)
(* three uses: the two cache models, or the specification of a loop nest.  *)
(***************************************************************************)
EXTENDS TtileSearch, TtileSetAssoc

CONSTANTS
  WrittenAtoms, \* [comp -> atoms a hand written scheme may have]
  MaxAtoms,     \* bound: atoms of a hand written scheme
  Beginnings,   \* [comp -> what a hand written scheme begins with]
  Strides,      \* [strx, stry] of the convolutions that are written
  Shipped,      \* databases that come with the program: [comp, rows]
  Caches,       \* cache sizes, in cells
  LineSize,     \* cells of a cache line
  NumSets,      \* sets a footprint is detailed in
  Ways          \* associativities

ASSUME TtileAssumption ==
  /\ \A q \in Shipped : q.comp \in Computations
  /\ LineSize \in Nat \ {0} /\ NumSets \in Nat \ {0} /\ VecSize <= LineSize
  /\ Caches \subseteq Nat /\ Ways \subseteq Nat \ {0}
  /\ \A by \in Strides : DOMAIN by = StrideDims("conv")

VARIABLES
  use,    \* "writing", "waiting" for a draw, "given", then the use made
  scheme, \* the scheme that is used
  prob,   \* the sizes of its problem
  result  \* what the use gives

useVars == <<use, scheme, prob, result>>
vars == <<dbVars, searchVars, useVars>>

Strategies == {"none", "one", "unlimited"}

-----------------------------------------------------------------------------

NothingMeasured ==
  file = <<>> /\ announced = 0 /\ measuring = 0 /\ fresh = <<>> /\ runs = 0

AnyMachine == CHOOSE r \in VecRegs : TRUE

Init ==
  /\ comp \in Computations
  /\ NothingMeasured
  /\ choices = {} /\ parts = NoParts /\ rem = <<>> /\ bag = EmptyBag
  /\ request = NoRequest /\ stage = "idle" /\ prob = <<>> /\ result = <<>>
  /\ \/ /\ known \in {<<>>} \cup {base.rows : base \in {b \in Shipped : b.comp = comp}}
        /\ use = "waiting" /\ scheme = <<>> /\ regs \in VecRegs
     \/ /\ known = <<>> /\ regs = AnyMachine
        /\ use = "writing" /\ scheme \in Beginnings[comp]

\* build_scheme_from_str, an atom at a time.
WriteAtom ==
  /\ use = "writing" /\ Len(scheme) < MaxAtoms
  /\ \E a \in WrittenAtoms[comp] :
       /\ scheme' = Append(scheme, a)
       /\ AtomIsPlaced(scheme', Len(scheme'))
  /\ UNCHANGED <<use, prob, result, dbVars, searchVars>>

\* A written scheme is checked; its problem is of the sizes it makes.
GiveWritten ==
  /\ use = "writing"
  /\ CheckCoherency(scheme) /\ NoBranchOpen(scheme)
  /\ \E by \in IF comp = "conv" THEN Strides ELSE {<<>>} :
       prob' = by @@ PlainSizes(scheme) @@ [d \in AllDims(comp) |-> 1]
  /\ use' = "given"
  /\ UNCHANGED <<scheme, result, dbVars, searchVars>>

GiveDrawn ==
  /\ use = "waiting" /\ stage = "drawn"
  /\ scheme' = InNest(comp, Scheme)
  /\ prob' = IF comp = "conv" THEN RenamedSizes(request.prob) ELSE request.prob
  /\ use' = "given"
  /\ UNCHANGED <<result, dbVars, searchVars>>

\* The fully associative model, for the caches it does not stop on.
UseFullAssoc ==
  /\ use = "given"
  /\ LET fps == FootprintOfLevels(comp, scheme, prob, LineSize)
         Taken(cs) == LET sat == FindSaturation(fps, cs[1])
                      IN  /\ Managed(scheme, sat)
                          /\ BranchesAreFound(comp, scheme, fps, sat, cs[2])
     IN  result' = [footprints |-> fps,
                    misses |-> [cs \in {p \in Caches \X Strategies : Taken(p)} |->
                                  FullAssocMisses(comp, scheme, fps, cs[1], LineSize, cs[2])]]
  /\ use' = "full"
  /\ UNCHANGED <<scheme, prob, dbVars, searchVars>>

\* The set associative model refuses hoisting, partial tiles and ragged rows.
UseSetAssoc ==
  /\ use = "given"
  /\ \A a \in ToSet(scheme) : a.t \notin {"Hoist", "Tpart"}
  /\ RowsAreWholeLines(comp, prob, LineSize)
  /\ \E dfp \in {DetailedFootprint(comp, scheme, prob, NumSets, LineSize)} :
       LET Taken(ws) == SetsAreManaged(comp, scheme, dfp, ws[1], NumSets, LineSize, ws[2]) IN
       result' =
         [counts |-> dfp,
          misses |-> [ws \in {p \in Ways \X Strategies : Taken(p)} |->
                        SetAssocMisses(comp, scheme, dfp, ws[1], NumSets, LineSize, ws[2])]]
  /\ use' = "sets"
  /\ UNCHANGED <<scheme, prob, dbVars, searchVars>>

UseAsNest ==
  /\ use = "given"
  /\ result' = Describe(comp, scheme, VecSize)
  /\ use' = "nest"
  /\ UNCHANGED <<scheme, prob, dbVars, searchVars>>

\* What is measured once a database is loaded changes no draw.
Next ==
  \/ use = "waiting" /\ known = <<>> /\ DatabaseNext /\ UNCHANGED <<searchVars, useVars>>
  \/ use = "waiting" /\ DrawNext /\ UNCHANGED <<dbVars, useVars>>
  \/ WriteAtom \/ GiveWritten \/ GiveDrawn
  \/ UseFullAssoc \/ UseSetAssoc \/ UseAsNest

Spec == Init /\ [][Next]_vars
-----------------------------------------------------------------------------
(* Properties. *)

\* However measuring was interrupted, killed and resumed, a database that loads holds every
\* microkernel of the machine, once and in order, if its rows are microkernels of the
\* machine at all (see PartialIsNotLoaded).
LoadedIsTheSpace ==
  announced # 0 /\ known # <<>> =>
    LET kernels == [n \in DOMAIN known |-> known[n].kernel] IN
    ToSet(kernels) \subseteq ToSet(Space) => kernels = Space

\* A run goes on from the number of lines of the file, and a partial file is refused, so that
\* a database that loads has measured every microkernel.  It has not when a kill cut a line
\* within its first column: that line is counted, the next one is written on its end, and a
\* third run makes up the number of lines with the last microkernel again.
PartialIsNotLoaded ==
  announced # 0 /\ known # <<>> => ToSet(Space) \subseteq {row.kernel : row \in ToSet(known)}

\* The choices are the fast enough microkernels whose sizes divide the problem,
\* and every way to share a dimension between two that differ in it only.
FastKernels ==
  {r.kernel : r \in {row \in ToSet(known) :
                       \A other \in ToSet(known) : row.perf * 100 >= other.perf * 85}}
DividesIn(m, dims) ==
  \A d \in dims :
    request.prob[d] % (m[d] * (IF d = VectorDim(comp) THEN VecSize ELSE 1)) = 0
SelectionIsExact ==
  stage # "idle" =>
    LET d == request.lambda
        size == request.prob[d]
        alone == {s \in choices : Len(s.kernels) = 1}
        Pair(s) == {<<s.kernels[1], s.times[1]>>, <<s.kernels[2], s.times[2]>>}
        alike == {p \in FastKernels \X FastKernels :
                    /\ p[1][d] < p[2][d]
                    /\ \A e \in DOMAIN p[1] \ {d} : p[1][e] = p[2][e]
                    /\ DividesIn(p[1], DOMAIN p[1] \ {d})}
        shared == UNION {{{<<p[1], ab[1]>>, <<p[2], ab[2]>>} :
                            ab \in {h \in (1..size) \X (1..size) :
                                      size % (h[1] * p[1][d] + h[2] * p[2][d]) = 0}} : p \in alike}
    IN  /\ alone = {Single(m) : m \in {k \in FastKernels : DividesIn(k, DOMAIN k)}}
        /\ {Pair(s) : s \in choices \ alone} = IF d = "none" THEN {} ELSE shared

\* A drawn scheme is coherent, of exactly the sizes asked for, and runs as many
\* iterations in parallel as there are threads or all the parallel dimensions have.
SchemesAreExact ==
  stage = "drawn" =>
    /\ CheckCoherency(Scheme) /\ CheckDimCoherency(Scheme, request.prob, {})
    /\ request.threads # 0 =>
         \/ Product([n \in DOMAIN parts.parallel |-> parts.parallel[n].r]) = request.threads
         \/ \A a \in ToSet(parts.middle) : a.d \notin bookable

\* What full_ttile_algorithm draws: all the microkernels that fit, and schemes of the
\* sizes and threads asked for made of them.
DrawnAsAsked == SelectionIsExact /\ SchemesAreExact

\* The branches counted at saturation cover the computation: the points of each
\* tile times its repetitions add up to the points of the problem.
BranchesCountOnce ==
  use = "full" =>
    \A cs \in DOMAIN result.misses :
      LET sat == FindSaturation(result.footprints, cs[1])
          Volume(sizes) == MapThenFoldSet(LAMBDA x, y : x * y, 1, LAMBDA d : sizes[d],
                                          LAMBDA S : CHOOSE d \in S : TRUE, AllDims(comp))
          Points(b) ==
            LET lsizes == SizesAtLevel(comp, scheme, prob, b.level)
                loc == CHOOSE l \in FoundAt([l \in Locations(lsizes) |-> 0], b.loc) : TRUE
            IN  Volume(SizesAt(lsizes, loc)) * NumRepet(scheme, b.level, b.loc)
      IN  HasSaturated(sat) =>
            MapThenSumSet(Points, CountedBranches(scheme, sat)) = Volume(prob)

\* Where strides leave no holes and no window is taken for reuse, a larger cache
\* misses no more, and none misses less than the lines the computation touches.
MissesShrink ==
  use = "full" /\ (\A d \in StrideDims(comp) : prob[d] = 1) =>
    \A cs, ds \in {p \in DOMAIN result.misses : comp = "conv" => p[2] = "none"} :
      /\ cs[2] = ds[2] /\ cs[1] < ds[1] => result.misses[cs] >= result.misses[ds]
      /\ result.misses[cs] >= Total(result.footprints[Len(scheme)][<<>>]) \div LineSize

\* The lines counted in each set are those of the cells the loops of a level
\* reach, and both models agree on their number where no window leaves holes.
PointsOf(sizes, dims) ==
  FoldSet(LAMBDA d, points : {(d :> v) @@ p : v \in 0..(sizes[d] - 1), p \in points},
          {<<>>}, dims)
LinesOf(arr, sizes) ==
  LET exprs == Accesses(comp)[arr]
      strides == AllocStrides(comp, arr, prob)
      dims == UNION {{exprs[e][t].d : t \in DOMAIN exprs[e]} : e \in DOMAIN exprs}
      Cell(p) == LET at == p @@ [d \in StrideDims(comp) |-> prob[d]]
                 IN  MapThenSumSet(LAMBDA e : Index(exprs[e], at) * strides[e], DOMAIN exprs)
  IN  {Cell(p) \div LineSize : p \in PointsOf(sizes, dims)}
HasHoles(arr, sizes) ==
  arr = "I" /\ (sizes["r"] < prob["strx"] \/ sizes["s"] < prob["stry"])

SetsHoldTheirLines ==
  use = "sets" =>
    \A l \in DOMAIN scheme, arr \in Arrays(comp) :
      LET lsizes == SizesAtLevel(comp, scheme, prob, l)
          shift == ShiftOf(comp, arr, prob, NumSets, LineSize)
          whole == FootprintAtLevel(comp, scheme, prob, LineSize, l)
          counts == result.counts[l][arr]
      IN  \A loc \in Locations(lsizes) :
            LET lines == LinesOf(arr, SizesAt(lsizes, loc)) IN
            /\ \A s \in 0..(NumSets - 1) :
                 counts[loc][s] = Cardinality({x \in lines : (x + shift) % NumSets = s})
            /\ ~HasHoles(arr, SizesAt(lsizes, loc)) =>
                 whole[loc][arr] = LineSize * Cardinality(lines)

\* Both cache models count what the computation touches: the fully associative one covers
\* it once, the set associative one finds each line in its set.
FootprintsAreExact == BranchesCountOnce /\ SetsHoldTheirLines

\* Descript takes the specification of a scheme without sequences whose vector
\* dimension has another atom, and its loops are the atoms, outermost first.
SizeOfEntry(entry) == IF entry.key[2] = 0 THEN prob[entry.key[1]] ELSE entry.key[2]
LoopsDescribed ==
  LET Inner(p) == {q \in (p + 1)..Len(result) : result[q].key[1] = result[p].key[1]}
      Step(p) == IF Inner(p) = {} THEN 1 ELSE SizeOfEntry(result[Min(Inner(p))])
  IN  [p \in DOMAIN result |->
         <<result[p].key[1], CeilDiv(SizeOfEntry(result[p]), Step(p))>>]
LoopsOfScheme ==
  LET atoms == Reverse(SelectSeq(scheme, HasDim))
      SizeBelow(n) == SizeIn(SizesOf(Reverse(SubSeq(atoms, n + 1, Len(atoms)))), atoms[n].d)[1]
  IN  [n \in DOMAIN atoms |->
         <<atoms[n].d, IF atoms[n].t = "Tpart" THEN CeilDiv(atoms[n].r, SizeBelow(n)) ELSE atoms[n].r>>]
Iterating(loops) == SelectSeq(loops, LAMBDA l : l[2] > 1)

DescribedAsTiled ==
  /\ use = "nest"
  /\ \A a \in ToSet(scheme) : a.t # "Seq"
  /\ \E n \in 2..Len(scheme) : HasDim(scheme[n]) /\ scheme[n].d = scheme[1].d
  /\ stage = "drawn" \/ Iterating(LoopsOfScheme) = LoopsOfScheme
  => /\ TakenByDescript(comp, result)
     /\ Iterating(LoopsDescribed) = Iterating(LoopsOfScheme)
=============================================================================
