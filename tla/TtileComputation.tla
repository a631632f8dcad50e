--------------------------- MODULE TtileComputation ---------------------------
(***************************************************************************)
(* The computations of Ttile, a matrix product and a two dimensional       *)
(* convolution: their dimensions, what their arrays are accessed at, how   *)
(* arrays are laid out, and the number of cells of each array a tile       *)
(* touches.  An index of an access is a sum of terms, a dimension times a  *)
(* stride (or 1, written "").                                              *)
(***************************************************************************)
EXTENDS TtileScheme

ParallelDims(comp) ==
  IF comp = "conv" THEN {"n", "h", "w", "f"} ELSE {"i", "j"}
ReductionDims(comp) == IF comp = "conv" THEN {"c", "r", "s"} ELSE {"k"}
AllDims(comp) == ParallelDims(comp) \cup ReductionDims(comp)
StrideDims(comp) == IF comp = "conv" THEN {"strx", "stry"} ELSE {}

Plain(d) == <<[d |-> d, by |-> ""]>>
Strided(d, by, e) == <<[d |-> d, by |-> by], [d |-> e, by |-> ""]>>

\* Outermost index first.
Accesses(comp) ==
  IF comp = "conv"
  THEN [O |-> <<Plain("n"), Plain("h"), Plain("w"), Plain("f")>>,
        I |-> <<Plain("n"), Strided("h", "strx", "r"),
                Strided("w", "stry", "s"), Plain("c")>>,
        K |-> <<Plain("r"), Plain("s"), Plain("c"), Plain("f")>>]
  ELSE [A |-> <<Plain("i"), Plain("k")>>, B |-> <<Plain("k"), Plain("j")>>,
        C |-> <<Plain("i"), Plain("j")>>]

Arrays(comp) == DOMAIN Accesses(comp)
AllocOrder(comp) == IF comp = "conv" THEN <<"O", "I", "K">> ELSE <<"C", "A", "B">>

StrictReuseDims(comp, arr) ==
  CASE arr = "A" -> {"j"} [] arr = "B" -> {"i"} [] arr = "C" -> {"k"}
    [] arr = "O" -> {"r", "s", "c"} [] arr = "I" -> {"f"}
    [] arr = "K" -> {"n", "h", "w"}
\* The window of a convolution is small: its dimensions count as reuse.
ReuseDims(comp, arr) ==
  IF arr = "I" THEN {"r", "s", "f"} ELSE StrictReuseDims(comp, arr)

Index(expr, at) ==
  LET Add(sum, term) == sum + at[term.d] * (IF term.by = "" THEN 1 ELSE at[term.by])
  IN  FoldLeft(Add, 0, expr)

Product(seq) == FoldLeft(LAMBDA p, x : p * x, 1, seq)

\* The strides of the arrays of a problem laid out row by row.
AllocStrides(comp, arr, prob) ==
  LET width == (prob["w"] * prob["stry"] + prob["s"]) - 1
      height == (prob["h"] * prob["strx"] + prob["r"]) - 1
  IN  CASE arr = "A" -> <<prob["k"], 1>>
        [] arr \in {"B", "C"} -> <<prob["j"], 1>>
        [] arr = "O" -> <<prob["h"] * prob["w"] * prob["f"],
                          prob["w"] * prob["f"], prob["f"], 1>>
        [] arr = "I" -> <<height * width * prob["c"], width * prob["c"],
                          prob["c"], 1>>
        [] arr = "K" -> <<prob["s"] * prob["c"] * prob["f"],
                          prob["c"] * prob["f"], prob["f"], 1>>

\* What an index runs up to when each dimension runs over its size.
LastAt(comp, sizes) ==
  [d \in AllDims(comp) \cup StrideDims(comp) |->
     LET size == IF d \in DOMAIN sizes THEN sizes[d] ELSE 1
     IN  IF d \in StrideDims(comp) THEN size ELSE size - 1]

Extent(comp, arr, sizes) ==
  LET last == LastAt(comp, sizes)
      exprs == Accesses(comp)[arr]
  IN  Product([e \in DOMAIN exprs |-> Index(exprs[e], last) + 1])

\* The cache set at which an array starts, the arrays laid out one after the
\* other from set 0.
ShiftOf(comp, arr, prob, sets, line) ==
  LET order == AllocOrder(comp)
      before == SubSeq(order, 1, SelectInSeq(order, LAMBDA a : a = arr) - 1)
      Add(off, a) == (off + Extent(comp, a, prob) \div line) % sets
  IN  FoldLeft(Add, 0, before)

-----------------------------------------------------------------------------
(* Footprint. *)

CeilDiv(a, b) == (a + b - 1) \div b

\* Where a stride jumps over cells that no window covers, the cells of a
\* strided dimension of more than two elements are divided by the stride.
SkipHoles(cells, at, d, by, window) ==
  IF at[window] + 1 < at[by] /\ at[d] > 1 THEN CeilDiv(cells, at[by]) ELSE cells

FootprintOfSizes(comp, arr, sizes) ==
  LET last == LastAt(comp, sizes)
      cells == Extent(comp, arr, sizes)
  IN  IF arr = "I"
      THEN SkipHoles(SkipHoles(cells, last, "h", "strx", "r"),
                     last, "w", "stry", "s")
      ELSE cells

\* The locations of the branches open in some sizes, and the sizes of one.
Locations(lsizes) ==
  LET open == {d \in DOMAIN lsizes : Len(lsizes[d]) > 1}
      most == Max({1} \cup {Len(lsizes[d]) : d \in DOMAIN lsizes})
  IN  {loc \in [open -> 0..(most - 1)] : \A d \in open : loc[d] < Len(lsizes[d])}

SizesAt(lsizes, loc) ==
  [d \in DOMAIN lsizes |-> lsizes[d][1 + BranchOf(loc, d)]]

\* The cells of each array a tile of the given sizes touches, in each branch.
ComputeFootprint(comp, lsizes) ==
  [loc \in Locations(lsizes) |->
     [arr \in Arrays(comp) |->
        FootprintOfSizes(comp, arr, SizesAt(lsizes, loc))]]
=============================================================================
