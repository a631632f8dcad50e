----------------------------- MODULE TtileScheme -----------------------------
(***************************************************************************)
(* The schemes of Ttile: how a nest is tiled, as a list of atoms from the  *)
(* inside out.  An atom of a type in Ratioed multiplies the size of its    *)
(* dimension by r, a partial tile ("Tpart") brings it to r, a lambda       *)
(* ("UL", "TL") multiplies it by a different ratio in each of the branches *)
(* a sequence ("Seq") above puts one after the other.  A lambda location   *)
(* is the branch taken in some dimensions: the code keeps it as a string   *)
(* in a fixed order of dimensions, which is the partial function itself.   *)
(***************************************************************************)
EXTENDS Integers, Sequences, FiniteSets, SequencesExt, TLC

Ratioed == {"V", "U", "T", "Tparal"}
Lambdas == {"UL", "TL"}
Tiles == {"T", "Tpart", "TL", "Tparal"}
Unrolls == {"U", "UL"}

Atom(t, d, r) == [t |-> t, d |-> d, r |-> r]
Lambda(t, d, rs) == [t |-> t, d |-> d, rs |-> rs]
SeqAtom(d) == [t |-> "Seq", d |-> d]
HoistAtom(vars) == [t |-> "Hoist", vars |-> vars]

HasDim(a) == a.t # "Hoist"
DimsOf(scheme) == {a.d : a \in {b \in ToSet(scheme) : HasDim(b)}}

-----------------------------------------------------------------------------
(* Coherency. *)

LambdaBelow(scheme, i) ==
  \E j \in 1..(i - 1) : scheme[j].t \in Lambdas /\ scheme[j].d = scheme[i].d

AtomIsPlaced(scheme, i) ==
  LET a == scheme[i] IN
  /\ a.t = "V" => i = 1
  /\ a.t \in Unrolls => \A j \in 1..(i - 1) : scheme[j].t \notin Tiles
  /\ a.t = "Seq" =>
       /\ LambdaBelow(scheme, i)
       /\ \A j \in 1..(i - 1) : scheme[j].t = "Seq" => scheme[j].d # a.d
  /\ a.t = "Tpart" => ~LambdaBelow(scheme, i)

CheckCoherency(scheme) ==
  LET lambdas == {a \in ToSet(scheme) : a.t \in Lambdas} IN
  /\ \A i \in DOMAIN scheme : AtomIsPlaced(scheme, i)
  /\ \A a, b \in lambdas : a.d = b.d => Len(a.rs) = Len(b.rs)
  /\ \A a \in lambdas : \E b \in ToSet(scheme) : b.t = "Seq" /\ b.d = a.d

-----------------------------------------------------------------------------
(* Lambda locations. *)

\* The branch a location takes in a dimension: the first, where there is none.
BranchOf(loc, d) == IF d \in DOMAIN loc THEN loc[d] ELSE 0
WithoutDim(loc, d) == [e \in DOMAIN loc \ {d} |-> loc[e]]
SubLocation(loc1, loc2) ==
  \A d \in DOMAIN loc1 : d \in DOMAIN loc2 /\ loc1[d] = loc2[d]
SubLocations(locs, loc) == {l \in locs : SubLocation(l, loc)}
BranchesOf(locs, d) == 1 + Max({0} \cup {BranchOf(l, d) : l \in locs})

-----------------------------------------------------------------------------
(* Sizes: for each dimension, that of each branch still open in it. *)

Resized(sizes, a) ==
  CASE a.t \in Ratioed -> [b \in DOMAIN sizes |-> sizes[b] * a.r]
    [] a.t = "Tpart"   -> <<a.r>>
    [] a.t \in Lambdas -> [b \in DOMAIN a.rs |->
                             a.rs[b] * sizes[IF Len(sizes) = 1 THEN 1 ELSE b]]
    [] a.t = "Seq"     -> <<FoldSeq(+, 0, sizes)>>

SizesOf(scheme) ==
  LET Add(sizes, a) ==
        LET old == IF a.d \in DOMAIN sizes THEN sizes[a.d] ELSE <<1>>
        IN  (a.d :> Resized(old, a)) @@ sizes
  IN  FoldLeft(Add, <<>>, SelectSeq(scheme, HasDim))

SizeIn(sizes, d) == IF d \in DOMAIN sizes THEN sizes[d] ELSE <<1>>

\* get_unlambda_sizes_scheme: the sizes, where no branch is left open.
NoBranchOpen(scheme) ==
  LET sizes == SizesOf(scheme) IN \A d \in DOMAIN sizes : Len(sizes[d]) = 1
PlainSizes(scheme) ==
  LET sizes == SizesOf(scheme) IN [d \in DOMAIN sizes |-> sizes[d][1]]

\* The unrolled part a scheme begins with.
MicrokernelOf(scheme) ==
  LET n == SelectInSeq(scheme, LAMBDA a : a.t \notin {"V"} \cup Unrolls)
  IN  IF n = 0 THEN scheme ELSE SubSeq(scheme, 1, n - 1)

\* A scheme is of the sizes of a problem, and no partial tile cuts what is
\* unrolled (the code stops on a partial tile above a lambda).
CheckDimCoherency(scheme, prob, ignored) ==
  LET sizes == SizesOf(scheme)
      kernel == SizesOf(MicrokernelOf(scheme))
  IN  /\ \A a \in ToSet(scheme) :
           a.t = "Tpart" /\ a.d \in DOMAIN kernel => a.r % kernel[a.d][1] = 0
      /\ \A d \in DOMAIN prob \ ignored : SizeIn(sizes, d) = <<prob[d]>>
      /\ DOMAIN sizes \subseteq DOMAIN prob
=============================================================================
