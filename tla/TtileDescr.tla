------------------------------ MODULE TtileDescr ------------------------------
(***************************************************************************)
(* From a scheme of Ttile to the specification descript reads              *)
(* (schedules/ttile/scheme_to_xtc.py): an entry for each atom, the last    *)
(* atom of a dimension under the bare name of the axis, a sequence as the  *)
(* segments of its branches.  The specification is printed and evaluated   *)
(* as a dictionary, outermost entry first; of two equal keys the first     *)
(* place and the last value remain.                                        *)
(***************************************************************************)
EXTENDS TtileComputation

CONSTANT None   \* the extent of a loop over a whole axis, see LoopNest

DimOrder(comp) ==
  IF comp = "conv" THEN <<"n", "h", "w", "f", "r", "s", "c">> ELSE <<"i", "j", "k">>

\* The other convention for the names of a convolution.
RenamedDim(d) ==
  CASE d = "x" -> "h" [] d = "y" -> "w" [] d = "h" -> "r" [] d = "w" -> "s"
    [] OTHER -> d
Renamed(scheme) ==
  [i \in DOMAIN scheme |->
     IF HasDim(scheme[i]) THEN [scheme[i] EXCEPT !.d = RenamedDim(@)] ELSE scheme[i]]
RenamedSizes(sizes) ==
  LET back == [e \in {RenamedDim(d) : d \in DOMAIN sizes} |->
                 CHOOSE d \in DOMAIN sizes : RenamedDim(d) = e]
  IN  [e \in DOMAIN back |-> sizes[back[e]]]

\* axis#size, or the axis where size is 0, with what annotates it.
Entry(d, size, unroll, par, vec) ==
  [key |-> <<d, size>>, unroll |-> unroll, par |-> par, vec |-> vec]
\* axis[from:to]
Segment(d, from, to, body) == [key |-> <<d, from, to>>, body |-> body]
IsSegment(entry) == Len(entry.key) = 3

Deduped(entries) ==
  LET Same(k) == {j \in DOMAIN entries : entries[j].key = entries[k].key}
      first == SelectSeq([k \in DOMAIN entries |-> k],
                         LAMBDA k : k = CHOOSE j \in Same(k) : \A h \in Same(k) : j <= h)
  IN  [n \in DOMAIN first |->
         entries[CHOOSE j \in Same(first[n]) : \A h \in Same(first[n]) : h <= j]]

\* Dimensions the scheme leaves out come outermost.
Completed(comp, scheme) ==
  scheme \o [k \in DOMAIN SelectSeq(DimOrder(comp), LAMBDA d : d \notin DimsOf(scheme)) |->
               Atom("T", Reverse(SelectSeq(DimOrder(comp),
                                           LAMBDA d : d \notin DimsOf(scheme)))[k], 1)]

\* Mutant: only the outermost atom gets the bare axis.
IsLastOfAll(scheme, i) == i = Len(scheme)

IsLast(scheme, i) ==
  \A j \in (i + 1)..Len(scheme) : ~HasDim(scheme[j]) \/ scheme[j].d # scheme[i].d

AtomEntry(a, last, size) ==
  Entry(a.d, IF last THEN 0 ELSE size, IF a.t \in Unrolls THEN size ELSE 0,
        a.t = "Tparal", FALSE)

\* The branches of a sequence, one segment after the other.
Segments(d, sizes, descr, loc) ==
  LET From(b) == FoldSeq(+, 0, SubSeq(sizes, 1, b - 1))
  IN  [b \in DOMAIN sizes |->
         Segment(d, From(b), From(b) + sizes[b], Deduped(descr[(d :> (b - 1)) @@ loc]))]

\* One atom, from the inside out: the sizes so far, and the entries of each location.
DescribeAtom(now, scheme, i, vecSize) ==
  LET a == scheme[i]
      old == now.sizes[a.d]
      new == IF a.t = "V" THEN <<vecSize>> ELSE Resized(old, a)
      locs == DOMAIN now.descr
      opened == IF a.t \in Lambdas /\ \A loc \in locs : a.d \notin DOMAIN loc
                THEN {(a.d :> (b - 1)) @@ loc : b \in DOMAIN new, loc \in locs}
                ELSE locs
      Inner(loc) == now.descr[IF loc \in locs THEN loc ELSE WithoutDim(loc, a.d)]
  IN  IF ~HasDim(a) THEN now
      ELSE [sizes |-> [now.sizes EXCEPT ![a.d] = new],
            descr |->
              CASE a.t = "V" -> [loc \in {<<>>} |-> <<Entry(a.d, vecSize, 0, FALSE, TRUE)>>]
                [] a.t = "Seq" ->
                     [loc \in {WithoutDim(l, a.d) : l \in locs} |->
                        Segments(a.d, old, now.descr, loc)]
                [] a.t \notin {"V", "Seq"} ->
                     [loc \in opened |->
                        <<AtomEntry(a, IsLast(scheme, i), new[1 + BranchOf(loc, a.d)])>>
                          \o Inner(loc)]]

Describe(comp, scheme, vecSize) ==
  LET whole == Completed(comp, scheme)
      start == [sizes |-> [d \in AllDims(comp) |-> <<1>>],
                descr |-> [loc \in {<<>>} |-> <<>>]]
      Step(now, i) == DescribeAtom(now, whole, i, vecSize)
  IN  Deduped(FoldLeft(Step, start, [i \in DOMAIN whole |-> i]).descr[<<>>])

-----------------------------------------------------------------------------
(* What descript makes of it (build_schedule_from_ttile). *)

Nest(D) == INSTANCE BackendSchedules WITH Dims <- D

\* The tiles of a dimension are numbered as they come.
TileNumber(entries, p) ==
  Cardinality({q \in 1..p : entries[q].key[1] = entries[p].key[1] /\ entries[q].key[2] # 0})
LoopOf(D, entries, p) ==
  IF entries[p].key[2] = 0 THEN Nest(D)!AxisLoop(entries[p].key[1])
  ELSE Nest(D)!TileLoop(entries[p].key[1], TileNumber(entries, p))
NodeOf(D, entries) ==
  LET TilesOfDim(d) ==
        LET own == SelectSeq(entries, LAMBDA e : e.key[1] = d /\ e.key[2] # 0)
        IN  [k \in DOMAIN own |-> own[k].key[2]]
      order == [p \in DOMAIN entries |-> LoopOf(D, entries, p)]
  IN  [Nest(D)!Node(0, 0, Nest(D)!NoOrigin, order) EXCEPT !.tiles = [d \in D |-> TilesOfDim(d)]]

\* Descript is given no sizes: segments that end with a number never reach the end
\* of their axis and are refused.
TakenByDescript(comp, entries) ==
  LET D == AllDims(comp)
      Where(P(_)) == {p \in DOMAIN entries : P(entries[p])}
  IN  /\ Where(IsSegment) = {}
      /\ Nest(D)!Accepted(NodeOf(D, entries),
           {LoopOf(D, entries, p) : p \in Where(LAMBDA e : e.vec)},
           {<<LoopOf(D, entries, p), entries[p].unroll>> :
              p \in Where(LAMBDA e : e.unroll # 0)})
=============================================================================
