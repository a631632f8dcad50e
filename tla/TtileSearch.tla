----------------------------- MODULE TtileSearch -----------------------------
(***************************************************************************)
(* The random choice of a scheme (schedules/ttile/search_strat.py): the     *)
(* fast enough microkernels of a database that fit the problem, alone or    *)
(* two of them in turn along one dimension; iterations kept for threads;    *)
(* a loop over the reduction; and the rest of the problem drawn as tiles    *)
(* in any order, with ratios that divide what is left or, for partial       *)
(* tiles, with sizes that only the microkernel divides.                     *)
(***************************************************************************)
EXTENDS TtileMicrokernels

CONSTANT Requests  \* what schemes are asked for

\* A request: its computation, the sizes of the problem, the dimension two
\* microkernels may share ("none"), whether tiles are partial, the threads (0:
\* sequential) and the least length of the loop over the reduction.
ASSUME RequestAssumption ==
  \A q \in Requests :
    /\ q.comp \in Computations /\ q.partial \in BOOLEAN
    /\ q.threads \in Nat /\ q.reuseMin \in Nat \ {0}
    /\ q.partial => q.lambda = "none"
    /\ q.lambda # VectorDim(q.comp)

RECURSIVE Gcd(_, _)
Gcd(a, b) == IF b = 0 THEN a ELSE Gcd(b, a % b)
Divisors(n) == {k \in 1..n : n % k = 0}

-----------------------------------------------------------------------------
(* Microkernels that fit. *)

\* Coefficients of two coprime numbers greater than 1 whose sum is 1.
RECURSIVE Euclid(_, _, _, _)
Euclid(arg1, arg2, c1, c2) ==
  IF arg1 < arg2 THEN Euclid(arg2, arg1, c2, c1)
  ELSE LET q == arg1 \div arg2
           c == <<c1[1] - q * c2[1], c1[2] - q * c2[2]>>
       IN  IF arg1 % arg2 = 1 THEN c ELSE Euclid(arg2, arg1 % arg2, c2, c)

\* The a, b and k such that (a * x1 + b * x2) * k = size, all positive.
AffineCombinations(x1, x2, size) ==
  LET g == Gcd(x1, x2)
      y1 == x1 \div g
      y2 == x2 \div g
      n == size \div g
      one == CASE y1 = 1 -> <<1, 0>>
               [] y1 # 1 /\ y2 = 1 -> <<0, 1>>
               [] y1 # 1 /\ y2 # 1 -> Euclid(y1, y2, <<1, 0>>, <<0, 1>>)
      a == one[1] * n
      b == one[2] * n
      least == IF a % y2 = 0 THEN y2 ELSE a % y2
      most == b + ((a - least) \div y2) * y1
      pairs == {<<least + t * y2, most - t * y1>> :
                  t \in {h \in 0..(IF most > 0 THEN most ELSE 0) : most - h * y1 > 0}}
  IN  IF size % g # 0 THEN {}
      ELSE UNION {{<<ab[1] \div k, ab[2] \div k, k>> : k \in Divisors(Gcd(ab[1], ab[2]))} :
                  ab \in pairs}

\* Mutant: the vector dimension is counted in vectors.
IsCompatibleInVectors(q, m, dims) ==
  \A d \in dims \cap DOMAIN m : m[d] > 1 => q.prob[d] % m[d] = 0

\* The sizes of a microkernel divide those of the problem in some dimensions.
IsCompatible(q, m, dims) ==
  \A d \in dims \cap DOMAIN m :
    LET size == m[d] * (IF d = VectorDim(q.comp) THEN VecSize ELSE 1)
    IN  size > 1 => q.prob[d] % size = 0

FastEnough(database) ==
  LET best == CHOOSE p \in {r.perf : r \in ToSet(database)} :
                \A r \in ToSet(database) : r.perf <= p
      sorted == SortSeq(database, LAMBDA r1, r2 : r1.perf < r2.perf)
  IN  SelectSeq(sorted, LAMBDA r : r.perf * 100 >= best * 85)

\* A strategy: one microkernel, or two with the number of times of each.
Single(m) == [kernels |-> <<m>>, times |-> <<1>>]
InTurn(m1, times1, m2, times2) == [kernels |-> <<m1, m2>>, times |-> <<times1, times2>>]

\* Microkernels that differ along one dimension only.
InOneGroup(m1, m2, lambda) == \A d \in DOMAIN m1 \ {lambda} : m1[d] = m2[d]

SelectMicrokernels(q, database) ==
  LET fast == FastEnough(database)
      Kernel(n) == fast[n].kernel
      Compatible(S(_)) == {n \in DOMAIN fast : IsCompatible(q, Kernel(n), S(Kernel(n)))}
      whole == Compatible(LAMBDA m : DOMAIN m)
      others == Compatible(LAMBDA m : DOMAIN m \ {q.lambda})
      pairs == {p \in others \X others :
                  p[1] < p[2] /\ InOneGroup(Kernel(p[1]), Kernel(p[2]), q.lambda)}
      Shared(p) ==
        {InTurn(Kernel(p[1]), abk[1], Kernel(p[2]), abk[2]) :
           abk \in AffineCombinations(Kernel(p[1])[q.lambda], Kernel(p[2])[q.lambda],
                                      q.prob[q.lambda])}
  IN  {Single(Kernel(n)) : n \in whole}
        \cup (IF q.lambda = "none" THEN {} ELSE UNION {Shared(p) : p \in pairs})

\* The unrolled atom of the shared dimension becomes a lambda.
MicrokernelScheme(q, strat) ==
  LET plain == ToTtileScheme(q.comp, strat.kernels[1], UnrollOrderAll(q.comp))
      both == <<strat.kernels[1][q.lambda], strat.kernels[2][q.lambda]>>
  IN  IF Len(strat.kernels) = 1 THEN plain
      ELSE [n \in DOMAIN plain |->
              IF plain[n].t = "U" /\ plain[n].d = q.lambda THEN Lambda("UL", q.lambda, both)
              ELSE plain[n]]

-----------------------------------------------------------------------------
(* The draws. *)

Remaining(sizes, scheme) ==
  [d \in DOMAIN sizes |-> sizes[d] \div SizeIn(SizesOf(scheme), d)[1]]

RECURSIVE PrimeDivisors(_, _)
PrimeDivisors(n, k) ==
  CASE n = 1 -> <<>>
    [] n > 1 /\ n % k = 0 -> Append(PrimeDivisors(n \div k, k), k)
    [] n > 1 /\ n % k # 0 -> PrimeDivisors(n, k + 1)

ParallelizedDims(c) == IF c = "conv" THEN {"x", "y", "f"} ELSE {"i", "j"}

\* As many iterations as threads, each prime factor from some dimension; none
\* where a factor is found nowhere.
PerfectBookings(rem, dims, threads) ==
  LET Book(schemes, p) ==
        UNION {{Append(s, Atom("Tparal", d, p)) :
                  d \in {e \in dims : Remaining(rem, s)[e] % p = 0}} : s \in schemes}
  IN  FoldLeft(Book, {<<>>}, PrimeDivisors(threads, 2))

VARIABLES
  stage,   \* "idle", then the part being drawn, "drawn", "none", or "stopped"
  request, \* the scheme asked for
  choices, \* the microkernel strategies it was chosen from
  parts,   \* the schemes drawn so far, from the inside out
  rem,     \* d_size_rem: what is left to distribute
  bag      \* the atoms drawn and not placed: sequences to be placed whole

searchVars == <<stage, request, choices, parts, rem, bag>>

NoParts == [kernel |-> <<>>, reuse |-> <<>>, middle |-> <<>>, parallel |-> <<>>]
Scheme == parts.kernel \o parts.reuse \o parts.middle \o parts.parallel

NoRequest == [comp |-> comp, prob |-> <<>>, lambda |-> "none", partial |-> FALSE,
              threads |-> 0, reuseMin |-> 1]

StopDrawing == stage' = "stopped" /\ UNCHANGED <<request, choices, parts, rem, bag>>

\* A scheme is asked for: the database is loaded and filtered.
AskFor(q) ==
  /\ stage = "idle" /\ known # <<>> /\ q.comp = comp
  /\ request' = q
  /\ choices' = SelectMicrokernels(q, known)

NoMicrokernelFits ==
  /\ choices' = {}
  /\ stage' = "none" /\ UNCHANGED <<parts, rem, bag>>

\* The loops above two microkernels wait in the bag.
LoopsAbove(q, strat) ==
  IF Len(strat.kernels) = 1 THEN <<>>
  ELSE <<Lambda("TL", q.lambda, strat.times), SeqAtom(q.lambda)>>

AfterMicrokernel(q) == stage' = IF q.threads = 0 THEN "reuse" ELSE "book"

PickMicrokernel(q) ==
  /\ ~q.partial /\ AskFor(q)
  /\ \/ NoMicrokernelFits
     \/ \E strat \in choices' :
          LET kernel == MicrokernelScheme(q, strat)
              above == LoopsAbove(q, strat)
          IN  /\ parts' = [NoParts EXCEPT !.kernel = kernel]
              /\ rem' = Remaining(q.prob, kernel \o above)
              /\ bag' = IF above = <<>> THEN EmptyBag ELSE SetToBag({above})
              /\ AfterMicrokernel(q)

PickForPartialTiles(q) ==
  /\ q.partial /\ AskFor(q)
  /\ \/ NoMicrokernelFits
     \/ \E strat \in choices' :
          LET kernel == MicrokernelScheme(q, strat)
          IN  /\ parts' = [NoParts EXCEPT !.kernel = kernel]
              /\ rem' = Remaining(q.prob, kernel)
              /\ bag' = EmptyBag
              /\ AfterMicrokernel(q)

bookable == ParallelizedDims(request.comp)

\* Mutant: the booked iterations are drawn again as tiles.
BookPerfectlyTwice ==
  /\ stage = "book"
  /\ \E booked \in PerfectBookings(rem, bookable, request.threads) :
       parts' = [parts EXCEPT !.parallel = booked]
  /\ stage' = "reuse"
  /\ UNCHANGED <<request, choices, bag, rem>>

BookPerfectly ==
  /\ stage = "book"
  /\ \E booked \in PerfectBookings(rem, bookable, request.threads) :
       /\ parts' = [parts EXCEPT !.parallel = booked]
       /\ rem' = Remaining(rem, booked)
  /\ stage' = "reuse"
  /\ UNCHANGED <<request, choices, bag>>

\* Factor after factor: the count that ends the loop early is never updated.
BookAsMuch ==
  /\ stage = "book" /\ PerfectBookings(rem, bookable, request.threads) = {}
  /\ \/ \E d \in bookable : \E p \in ToSet(PrimeDivisors(rem[d], 2)) :
          /\ parts' = [parts EXCEPT !.parallel = Append(@, Atom("Tparal", d, p))]
          /\ rem' = [rem EXCEPT ![d] = @ \div p]
          /\ UNCHANGED stage
     \/ /\ \A d \in bookable : rem[d] = 1
        /\ stage' = "reuse"
        /\ UNCHANGED <<parts, rem>>
  /\ UNCHANGED <<request, choices, bag>>

\* The loop over the reduction, and the hoisting of the output above it.
PlaceReuseLoop ==
  LET d == RepetitionDim(request.comp)
      length == IF rem[d] < request.reuseMin THEN rem[d] ELSE request.reuseMin
      loop == <<Atom("T", d, length), HoistAtom(IF request.comp = "conv" THEN {"O"} ELSE {"C"})>>
  IN  /\ stage = "reuse"
      /\ IF request.prob[d] % length = 0 /\ rem[d] % length = 0
         THEN /\ parts' = [parts EXCEPT !.reuse = loop]
              /\ rem' = [rem EXCEPT ![d] = @ \div length]
              /\ stage' = "draw"
              /\ UNCHANGED <<request, choices, bag>>
         ELSE StopDrawing

NextDim == CHOOSE d \in DOMAIN rem : rem[d] > 1

\* Ratios that divide what is left, until nothing is.
DrawRatio ==
  /\ stage = "draw" /\ ~request.partial
  /\ \E d \in DOMAIN rem : rem[d] > 1
  /\ \E ratio \in Divisors(rem[NextDim]) \ {1} :
       /\ bag' = bag (+) SetToBag({<<Atom("T", NextDim, ratio)>>})
       /\ rem' = [rem EXCEPT ![NextDim] = @ \div ratio]
  /\ UNCHANGED <<stage, request, choices, parts>>

\* Up to four partial tiles in increasing order: the whole and up to three more
\* sizes between 2 and it, in microkernels.
DrawSizes ==
  /\ stage = "draw" /\ request.partial
  /\ \E d \in DOMAIN rem : rem[d] > 1
  /\ \E more \in {S \in SUBSET (2..(rem[NextDim] - 1)) : Cardinality(S) <= 3} :
       LET factors == SetToSortSeq(more \cup {rem[NextDim]}, <)
           below == SizesOf(parts.kernel \o parts.reuse)
           tiles == [n \in DOMAIN factors |->
                       Atom("Tpart", NextDim, factors[n] * below[NextDim][1])]
       IN  /\ bag' = bag (+) SetToBag({tiles})
           /\ rem' = [rem EXCEPT ![NextDim] = 1]
  /\ UNCHANGED <<stage, request, choices, parts>>

\* The bag is emptied in any order; partial tiles of a dimension leave it in turn.
PlaceTiles ==
  /\ stage = "draw" /\ \A d \in DOMAIN rem : rem[d] = 1
  /\ \E atoms \in BagToSet(bag) :
       LET placed == IF request.partial THEN <<Head(atoms)>> ELSE atoms
           left == SubSeq(atoms, Len(placed) + 1, Len(atoms))
       IN  /\ parts' = [parts EXCEPT !.middle = @ \o placed]
           /\ bag' = (bag (-) SetToBag({atoms}))
                       (+) (IF left = <<>> THEN EmptyBag ELSE SetToBag({left}))
  /\ UNCHANGED <<stage, request, choices, rem>>

EndDrawing ==
  /\ stage = "draw" /\ bag = EmptyBag /\ \A d \in DOMAIN rem : rem[d] = 1
  /\ stage' = "drawn"
  /\ UNCHANGED <<request, choices, parts, rem, bag>>

DrawNext ==
  \/ \E q \in Requests : PickMicrokernel(q) \/ PickForPartialTiles(q)
  \/ BookPerfectly \/ BookAsMuch \/ PlaceReuseLoop
  \/ DrawRatio \/ DrawSizes \/ PlaceTiles \/ EndDrawing
=============================================================================
