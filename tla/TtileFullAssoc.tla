---------------------------- MODULE TtileFullAssoc ----------------------------
(***************************************************************************)
(* The fully associative cache model of Ttile: the cells each prefix of a  *)
(* scheme touches, rounded to cache lines, the level at which they no      *)
(* longer fit (0: they always do), and from there the lines that are       *)
(* missed: the footprint of a tile times the number of times it is run.    *)
(* Level l of a scheme is its prefix of l atoms.  The model stops on an    *)
(* assertion where Managed or BranchesAreFound is false.                   *)
(***************************************************************************)
EXTENDS TtileComputation, FiniteSetsExt

-----------------------------------------------------------------------------
(* Footprint of each level. *)

\* The sizes of a prefix, with the strides of the problem.
SizesAtLevel(comp, scheme, prob, l) ==
  LET sizes == SizesOf(SubSeq(scheme, 1, l)) IN
  [d \in AllDims(comp) \cup StrideDims(comp) |->
     IF d \in StrideDims(comp) THEN <<prob[d]>> ELSE SizeIn(sizes, d)]

\* A row of an array that does not fill its last cache line takes all of it.
InWholeLines(comp, arr, cells, lsizes, loc, line) ==
  LET exprs == Accesses(comp)[arr]
      d == exprs[Len(exprs)][1].d
      size == lsizes[d][1 + BranchOf(loc, d)]
  IN  IF size % line = 0 THEN cells
      ELSE (cells * (size \div line + 1) * line) \div size

FootprintAtLevel(comp, scheme, prob, line, l) ==
  LET lsizes == SizesAtLevel(comp, scheme, prob, l)
      fp == ComputeFootprint(comp, lsizes)
  IN  [loc \in DOMAIN fp |->
         [arr \in Arrays(comp) |->
            InWholeLines(comp, arr, fp[loc][arr], lsizes, loc, line)]]

FootprintOfLevels(comp, scheme, prob, line) ==
  [l \in DOMAIN scheme |-> FootprintAtLevel(comp, scheme, prob, line, l)]

Total(cells) == MapThenSumSet(LAMBDA arr : cells[arr], DOMAIN cells)

-----------------------------------------------------------------------------
(* Saturation. *)

\* A lambda on a new dimension splits every location in its branches.
Extended(sat, fp) ==
  LET dims == UNION {DOMAIN loc : loc \in DOMAIN fp}
      known == UNION {DOMAIN loc : loc \in DOMAIN sat}
  IN  IF dims \subseteq known THEN sat
      ELSE LET d == CHOOSE e \in dims \ known : TRUE
               split == {(d :> b) @@ loc : b \in 0..(BranchesOf(DOMAIN fp, d) - 1),
                                           loc \in DOMAIN sat}
           IN  [loc \in split |-> sat[WithoutDim(loc, d)]]

SaturatedIn(fp, loc, cache) ==
  \E l \in DOMAIN fp : SubLocation(l, loc) /\ Total(fp[l]) > cache

\* The first level of each branch whose footprint exceeds the cache.
FindSaturation(fps, cache) ==
  LET Pass(sat, l) ==
        LET ext == Extended(sat, fps[l])
        IN  [loc \in DOMAIN ext |->
               IF ext[loc] = 0 /\ SaturatedIn(fps[l], loc, cache) THEN l
               ELSE ext[loc]]
  IN  FoldLeft(Pass, [loc \in {<<>>} |-> 0], [l \in DOMAIN fps |-> l])

HasSaturated(sat) == \A loc \in DOMAIN sat : sat[loc] # 0

\* Mutant: every branch of a sequence below the level is counted.
CountedBranchesAll(scheme, sat) ==
  LET SeqsBelow(l) == {scheme[k].d : k \in {j \in 1..(l - 1) : scheme[j].t = "Seq"}}
  IN  {[loc |-> loc,
        level |-> IF scheme[sat[loc]].t = "Seq" THEN sat[loc] - 1 ELSE sat[loc]] : loc \in DOMAIN sat}

\* The branches that are counted, each at its level: of a sequence below its
\* level only the first branch, of a sequence at its level all, one lower.
CountedBranches(scheme, sat) ==
  LET SeqsBelow(l) == {scheme[k].d : k \in {j \in 1..(l - 1) : scheme[j].t = "Seq"}}
      Kept == {loc \in DOMAIN sat :
                 \A d \in SeqsBelow(sat[loc]) : BranchOf(loc, d) = 0}
  IN  {[loc |-> [d \in DOMAIN loc \ SeqsBelow(sat[loc]) |-> loc[d]],
        level |-> IF scheme[sat[loc]].t = "Seq" THEN sat[loc] - 1 ELSE sat[loc]]
       : loc \in Kept}

-----------------------------------------------------------------------------
(* Reuse. *)

RatioAt(a, loc) ==
  CASE a.t \in Ratioed -> a.r
    [] a.t \in Lambdas -> a.rs[1 + BranchOf(loc, a.d)]
    [] a.t = "Seq" -> 1

IsReuseAtom(comp, arr, a, loc) ==
  \/ a.t = "Hoist"
  \/ a.d \in ReuseDims(comp, arr)
  \/ a.t \in {"T", "U", "Tparal"} \cup Lambdas /\ RatioAt(a, loc) = 1

\* The level from which an array is no longer reused, which may be one above
\* the scheme.
ReuseLevel(comp, scheme, arr, level, loc, strat) ==
  LET reused == {l \in level..Len(scheme) :
                   \A k \in level..l : IsReuseAtom(comp, arr, scheme[k], loc)}
  IN  CASE level = Len(scheme) \/ strat = "none" -> level
        [] level # Len(scheme) /\ strat = "one" ->
             level + (IF level \in reused THEN 1 ELSE 0)
        [] level # Len(scheme) /\ strat = "unlimited" ->
             level + Cardinality(reused)

\* The level whose footprint is taken: below the first sequence met.
FootprintLevel(scheme, level, reuse) ==
  LET top == IF reuse > Len(scheme) THEN Len(scheme) ELSE reuse
      seqs == {l \in level..top : scheme[l].t = "Seq"}
  IN  IF seqs = {} THEN top ELSE Min(seqs) - 1

NumRepet(scheme, reuse, loc) ==
  Product([k \in 1..(Len(scheme) - reuse) |-> RatioAt(scheme[reuse + k], loc)])

-----------------------------------------------------------------------------
(* Misses, in lines. *)

\* The model does not count the repetitions of partial tiles.
Managed(scheme, sat) ==
  /\ HasSaturated(sat) \/ \A loc \in DOMAIN sat : sat[loc] = 0
  /\ HasSaturated(sat) =>
       \A l \in DOMAIN scheme :
         scheme[l].t \in {"Tpart", "Hoist"} =>
           \A loc \in DOMAIN sat : l < sat[loc]

\* Where a branch's footprint is found at a level: of a location the level does
\* not open, in the location it refines.
FoundAt(fp, loc) == IF loc \in DOMAIN fp THEN {loc} ELSE SubLocations(DOMAIN fp, loc)

LevelRead(comp, scheme, arr, branch, strat) ==
  FootprintLevel(scheme, branch.level,
                 ReuseLevel(comp, scheme, arr, branch.level, branch.loc, strat))

\* "Should be satisfied by construction": each branch is found, in one location.
BranchesAreFound(comp, scheme, fps, sat, strat) ==
  HasSaturated(sat) =>
    \A b \in CountedBranches(scheme, sat), arr \in Arrays(comp) :
      Cardinality(FoundAt(fps[LevelRead(comp, scheme, arr, b, strat)], b.loc)) = 1

\* Mutant: the branch repeats as the location its footprint is found in.
BranchMissesAtFound(comp, scheme, fps, line, arr, branch, strat) ==
  LET reuse == ReuseLevel(comp, scheme, arr, branch.level, branch.loc, strat)
      fp == fps[LevelRead(comp, scheme, arr, branch, strat)]
      at == CHOOSE loc \in FoundAt(fp, branch.loc) : TRUE
  IN  (fp[at][arr] \div line) * NumRepet(scheme, reuse, at)

BranchMisses(comp, scheme, fps, line, arr, branch, strat) ==
  LET reuse == ReuseLevel(comp, scheme, arr, branch.level, branch.loc, strat)
      fp == fps[LevelRead(comp, scheme, arr, branch, strat)]
      at == CHOOSE loc \in FoundAt(fp, branch.loc) : TRUE
  IN  (fp[at][arr] \div line) * NumRepet(scheme, reuse, branch.loc)

FullAssocMisses(comp, scheme, fps, cache, line, strat) ==
  LET sat == FindSaturation(fps, cache)
      Misses(arr) ==
        MapThenSumSet(LAMBDA b : BranchMisses(comp, scheme, fps, line, arr, b, strat),
                      CountedBranches(scheme, sat))
  IN  IF HasSaturated(sat) THEN MapThenSumSet(Misses, Arrays(comp))
      ELSE Total(fps[Len(fps)][<<>>]) \div line
=============================================================================
