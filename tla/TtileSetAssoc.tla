----------------------------- MODULE TtileSetAssoc -----------------------------
(***************************************************************************)
(* The set associative cache model of Ttile (sarcasm): the lines of each   *)
(* array a prefix of a scheme touches, counted in every cache set.  A loop *)
(* over a dimension repeats what is below it, shifted by the lines it      *)
(* steps over; a sequence adds its branches, each shifted past the ones    *)
(* before.  Dimensions an index adds up (rows of a convolution and of its  *)
(* window) are left out first and then rotated in at each level.  Every    *)
(* set is then a small fully associative cache.                            *)
(* A scheme begins with its vector, of at most a line; partial tiles and   *)
(* hoisting are refused; rows of arrays are whole lines.                   *)
(***************************************************************************)
EXTENDS TtileFullAssoc

\* For each dimension of an access, outermost first, the lines one step moves.
Coefficients(comp, arr, prob, line) ==
  LET exprs == Accesses(comp)[arr]
      strides == AllocStrides(comp, arr, prob)
      InLines(e) == IF e = Len(exprs) THEN strides[e] ELSE strides[e] \div line
      Of(e) == [t \in DOMAIN exprs[e] |->
                  [d |-> exprs[e][t].d,
                   stride |-> InLines(e) * (IF exprs[e][t].by = "" THEN 1
                                            ELSE prob[exprs[e][t].by])]]
  IN  FlattenSeq([e \in DOMAIN exprs |-> Of(e)])

RowsAreWholeLines(comp, prob, line) ==
  \A arr \in Arrays(comp) :
    LET strides == AllocStrides(comp, arr, prob)
    IN  \A e \in 1..(Len(strides) - 1) : strides[e] % line = 0

\* The steps of a tile along a dimension of an array: the innermost one is
\* walked line by line.
Steps(comp, arr, lsizes, loc, d, line) ==
  LET exprs == Accesses(comp)[arr]
      size == lsizes[d][1 + BranchOf(loc, d)]
  IN  IF d = exprs[Len(exprs)][1].d THEN CeilDiv(size, line) ELSE size

StrideOf(coeffs, d) == coeffs[SelectInSeq(coeffs, LAMBDA c : c.d = d)].stride
TouchedDims(coeffs) == {coeffs[k].d : k \in DOMAIN coeffs}

\* The pairs of dimensions an index adds up, with their stride.
CombinedDims(arr) ==
  IF arr = "I" THEN <<[out |-> "h", in |-> "r", by |-> "strx"],
                      [out |-> "w", in |-> "s", by |-> "stry"]>>
  ELSE <<>>
IsCombined(arr, d) ==
  \E k \in DOMAIN CombinedDims(arr) : d \in {CombinedDims(arr)[k].out, CombinedDims(arr)[k].in}

-----------------------------------------------------------------------------
(* Counts of lines by set: a function on 0..(sets - 1). *)

Sum(f, S) == MapThenSumSet(LAMBDA x : f[x], S)
ShiftBy(counts, shift) ==
  LET sets == Cardinality(DOMAIN counts)
  IN  [s \in DOMAIN counts |-> counts[(s - shift) % sets]]
Rotated(counts, ratio, shift) ==
  [s \in DOMAIN counts |->
     MapThenSumSet(LAMBDA i : ShiftBy(counts, i * shift)[s], 0..(ratio - 1))]

FirstLine(comp, arr, prob, sets, line) ==
  [s \in 0..(sets - 1) |-> IF s = ShiftOf(comp, arr, prob, sets, line) THEN 1 ELSE 0]

\* The location below atom a that a location above it comes from; of a
\* sequence, its first branch.
Below(a, loc, locsBelow) ==
  CASE a.t = "Seq" -> (a.d :> 0) @@ loc
    [] a.t # "Seq" /\ loc \notin locsBelow -> WithoutDim(loc, a.d)
    [] a.t # "Seq" /\ loc \in locsBelow -> loc

\* The steps of every dimension, for each location of a level.
Iterations(comp, arr, scheme, prob, line, l) ==
  LET sizes == SizesAtLevel(comp, scheme, prob, l)
  IN  [loc \in Locations(sizes) |->
         [d \in DOMAIN sizes |-> Steps(comp, arr, sizes, loc, d, line)]]

\* A dimension the array does not depend on, or that is left for later: only
\* the locations change.
OverOtherAtom(a, last, here) ==
  [loc \in DOMAIN here |-> last[Below(a, loc, DOMAIN last)]]

OverRatioAtom(a, last, stride, below, here) ==
  [loc \in DOMAIN here |->
     LET from == Below(a, loc, DOMAIN last)
         size == below[from][a.d]
     IN  Rotated(last[from], here[loc][a.d] \div size, stride * size)]

OverSeqAtom(a, last, stride, below, here) ==
  LET Branch(loc, b) == (a.d :> b) @@ loc
      Before(loc, b) ==
        MapThenSumSet(LAMBDA c : stride * below[Branch(loc, c)][a.d], 0..(b - 1))
  IN  [loc \in DOMAIN here |->
         [s \in DOMAIN last[Branch(loc, 0)] |->
            MapThenSumSet(LAMBDA b : ShiftBy(last[Branch(loc, b)], Before(loc, b))[s],
                          0..(BranchesOf(DOMAIN last, a.d) - 1))]]

\* One array at the level of atom a, from the level below.
OverAtom(arr, coeffs, a, last, below, here) ==
  LET alone == a.d \in TouchedDims(coeffs) /\ ~IsCombined(arr, a.d)
  IN  CASE ~alone                 -> OverOtherAtom(a, last, here)
        [] alone /\ a.t = "Seq"   -> OverSeqAtom(a, last, StrideOf(coeffs, a.d), below, here)
        [] alone /\ a.t # "Seq"   -> OverRatioAtom(a, last, StrideOf(coeffs, a.d), below, here)

\* Mutant: a window slides once more.
ArrangedOnceMore(pair, iters, by) ==
  (pair.out :> 1) @@ (pair.in :> by * iters[pair.out] + iters[pair.in])

\* The steps over a window and over its positions: windows that touch or
\* overlap are one run of lines, others leave holes.
Arranged(pair, iters, by) ==
  IF iters[pair.in] >= by
  THEN (pair.out :> 1) @@ (pair.in :> by * (iters[pair.out] - 1) + iters[pair.in])
  ELSE [d \in {pair.out, pair.in} |-> iters[d]]

\* The footprint rotated over some dimensions, outermost first.
DirectFootprint(counts, coeffs, dims, iters) ==
  FoldLeft(LAMBDA c, d : Rotated(c, iters[d], StrideOf(coeffs, d)), counts, dims)

WithCombined(arr, coeffs, prob, iters, counts) ==
  FoldLeft(LAMBDA c, pair :
             DirectFootprint(c, coeffs, <<pair.out, pair.in>>,
                             Arranged(pair, iters, prob[pair.by])),
           counts, CombinedDims(arr))

\* For each level, array and location, the lines in each set.
DetailedFootprint(comp, scheme, prob, sets, line) ==
  LET ForArray(arr) ==
        LET coeffs == Coefficients(comp, arr, prob, line)
            At(l) == Iterations(comp, arr, scheme, prob, line, l)
            first == [loc \in {<<>>} |-> FirstLine(comp, arr, prob, sets, line)]
            Add(levels, l) ==
              Append(levels,
                     OverAtom(arr, coeffs, scheme[l], levels[l - 1], At(l - 1), At(l)))
            alone == FoldLeft(Add, <<first>>, [i \in 1..(Len(scheme) - 1) |-> i + 1])
        IN  [l \in DOMAIN scheme |->
               [loc \in DOMAIN alone[l] |->
                  IF l = 1 THEN alone[l][loc]
                  ELSE WithCombined(arr, coeffs, prob, At(l)[loc], alone[l][loc])]]
      byArray == [arr \in Arrays(comp) |-> ForArray(arr)]
  IN  [l \in DOMAIN scheme |-> [arr \in Arrays(comp) |-> byArray[arr][l]]]

-----------------------------------------------------------------------------
(* Misses. *)

\* The footprint of one set of a cache of fewer sets, in cells.
FoldedOn(dfp, s, sets, line) ==
  [l \in DOMAIN dfp |->
     LET arrays == DOMAIN dfp[l]
         locs == DOMAIN dfp[l][CHOOSE arr \in arrays : TRUE]
     IN  [loc \in locs |->
            [arr \in arrays |->
               LET counts == dfp[l][arr][loc]
               IN  line * Sum(counts, {i \in DOMAIN counts : i % sets = s})]]]

SetAssocMisses(comp, scheme, dfp, assoc, sets, line, strat) ==
  MapThenSumSet(LAMBDA s : FullAssocMisses(comp, scheme, FoldedOn(dfp, s, sets, line),
                                           assoc * line, line, strat),
                0..(sets - 1))

\* No set stops on an assertion of the fully associative model.
SetsAreManaged(comp, scheme, dfp, assoc, sets, line, strat) ==
  \A s \in 0..(sets - 1) :
    LET fps == FoldedOn(dfp, s, sets, line)
        sat == FindSaturation(fps, assoc * line)
    IN  Managed(scheme, sat) /\ BranchesAreFound(comp, scheme, fps, sat, strat)
=============================================================================
