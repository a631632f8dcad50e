------------------------ MODULE UniqueSamplingProofs ------------------------
(* Theorems about UniqueSampling, for any space, any request and any stop      *)
(* probability below 1.                                                        *)
EXTENDS UniqueSampling, FiniteSetTheorems, TLAPS

IInv == TypeOK /\ UniqueSamples /\ CountsAreDraws /\ RequestsAreBounded /\ LoopKnows

USE SamplingAssumption

LEMMA InitInv == Init => IInv
<1> SUFFICES ASSUME Init PROVE IInv
  OBVIOUS
<1>1. Cardinality({}) = 0 /\ IsFiniteSet({})
  BY FS_EmptySet
<1>2. TypeOK
  BY <1>1 DEF Init, TypeOK
<1>3. UniqueSamples
  BY DEF Init, UniqueSamples, IsInjective, Range
<1>4. CountsAreDraws
  BY <1>1 DEF Init, CountsAreDraws
<1>5. RequestsAreBounded
  BY DEF Init, RequestsAreBounded
<1>6. LoopKnows
  BY <1>1 DEF Init, LoopKnows, Range
<1> QED
  BY <1>2, <1>3, <1>4, <1>5, <1>6 DEF IInv

\* The loop condition bounds what was requested so far.
LEMMA RequestedSoFar ==
  ASSUME NEW o \in Nat, NEW n \in Nat, o + 1 <= n,
         NEW d \in Nat, NEW r \in Nat,
         \/ (o + 1) * PDen > PNum * (d + 1) * (r + 1)
         \/ (o + 1) * PDen * d > PNum * (d + 1) * r
  PROVE  PNum * r <= n * PDen
<1> DEFINE m == (o + 1) * PDen
<1>1. m \in Nat /\ m <= n * PDen
  OBVIOUS
<1>2. CASE m > PNum * (d + 1) * (r + 1)
  <2>1. PNum * (d + 1) * (r + 1) = PNum * r + PNum * d * r + PNum * (d + 1)
    OBVIOUS
  <2>2. PNum * d * r \in Nat /\ PNum * (d + 1) \in Nat /\ PNum * r \in Nat
    OBVIOUS
  <2> QED
    BY <1>1, <1>2, <2>1, <2>2
<1>3. CASE m * d > PNum * (d + 1) * r
  <2>1. PNum * (d + 1) * r = (PNum * r) * d + PNum * r
    OBVIOUS
  <2>2. (m - PNum * r) * d = m * d - (PNum * r) * d
    OBVIOUS
  <2>3. (m - PNum * r) * d > 0
    BY <1>1, <1>3, <2>1, <2>2
  <2>4. m - PNum * r > 0
    BY <1>1, <2>3
  <2> QED
    BY <1>1, <2>4
<1> QED
  BY <1>2, <1>3

\* The account of CountsAreDraws: l draws to come, o, t and s samples seen once, twice
\* and more often.
LEMMA Account ==
  ASSUME NEW d \in Nat, NEW l \in Nat, NEW o \in Nat, NEW t \in Nat, NEW s \in Nat,
         d >= l + o + 2 * t + 3 * s,
         NEW k, NEW p, NEW u, NEW v, k = l - 1,
         \/ p = o + 1 /\ u = t /\ v = s
         \/ p = o - 1 /\ u = t + 1 /\ v = s
         \/ p = o /\ u = t - 1 /\ v = s + 1
         \/ p = o /\ u = t /\ v = s
  PROVE  d >= k + p + 2 * u + 3 * v
  OBVIOUS

\* How the sets of samples grow and shrink: what the steps below need of Cardinality.
LEMMA Sizes ==
  ASSUME TypeOK
  PROVE  /\ IsFiniteSet(once) /\ IsFiniteSet(twice) /\ IsFiniteSet(seen \ (once \cup twice))
         /\ Cardinality(once) \in Nat /\ Cardinality(twice) \in Nat
         /\ Cardinality(seen) \in Nat /\ Cardinality(seen \ (once \cup twice)) \in Nat
         /\ Cardinality(once) <= Cardinality(seen)
  BY FS_Subset, FS_CardinalityType DEF TypeOK

LEMMA DrawInv == ASSUME IInv, NEW drawn \in Seq(space), Draw(drawn) PROVE IInv'
<1> USE DEF IInv
<1>0. Cardinality(once) \in Nat /\ Cardinality(once) <= Cardinality(seen)
  BY Sizes
<1>1. TypeOK'
  BY DEF Draw, TypeOK, args, counters
<1>2. UniqueSamples'
  BY DEF Draw, UniqueSamples, args
<1>3. CountsAreDraws'
  <2>1. batch = << >>
    BY DEF Draw, LoopKnows
  <2> QED
    BY <2>1, Sizes DEF Draw, CountsAreDraws, counters, TypeOK
<1>4. RequestsAreBounded'
  <2>1. Cardinality(once) + 1 <= num
    BY <1>0 DEF Draw, LoopKnows, TypeOK
  <2>2. PNum * requests <= num * PDen
    BY <1>0, <2>1, RequestedSoFar DEF Draw, NextIsLikely, TypeOK
  <2>3. requests + roundNum <= 2 * requests + num
    BY DEF LoopKnows, TypeOK
  <2>4. PNum * (requests + roundNum) <= PNum * (2 * requests + num)
    BY <2>3 DEF TypeOK
  <2>5. PNum * (2 * requests + num) = 2 * (PNum * requests) + PNum * num
    BY DEF TypeOK
  <2>6. requests' = requests + roundNum /\ num' = num
    BY DEF Draw, args
  <2>7. PNum * requests \in Int /\ num * PDen \in Int /\ PNum * num = num * PNum
        /\ 2 * num * PDen = 2 * (num * PDen) /\ num * PNum \in Int
        /\ PNum * (requests + roundNum) \in Int
    BY DEF TypeOK
  <2> QED
    BY <2>2, <2>4, <2>5, <2>6, <2>7 DEF RequestsAreBounded
<1>5. LoopKnows'
  BY DEF Draw, LoopKnows, TypeOK, args, counters
<1> QED
  BY <1>1, <1>2, <1>3, <1>4, <1>5

LEMMA TakeNewInv == ASSUME IInv, TakeNew PROVE IInv'
<1> USE DEF IInv
<1> DEFINE x == Head(batch)
<1>0. batch \in Seq(space) /\ batch # << >> /\ x \in space /\ Tail(batch) \in Seq(space)
      /\ Len(Tail(batch)) = Len(batch) - 1
  BY DEF TakeNew, Take, TypeOK
<1>1. TypeOK'
  <2>1. IsFiniteSet(seen')
    BY FS_AddElement DEF TakeNew, TypeOK
  <2> QED
    BY <1>0, <2>1 DEF TakeNew, Take, TypeOK, args
<1>2. Range(samples') = Range(samples) \cup {x}
  <2>1. samples' = Append(samples, x) /\ samples \in Seq(space) /\ x \in space
    BY <1>0 DEF TakeNew, TypeOK
  <2>2. /\ Len(samples') = Len(samples) + 1 /\ Len(samples) \in Nat
        /\ DOMAIN samples' = 1 .. Len(samples) + 1 /\ DOMAIN samples = 1 .. Len(samples)
        /\ samples'[Len(samples) + 1] = x
        /\ \A k \in 1 .. Len(samples) : samples'[k] = samples[k]
    BY <2>1
  <2> QED
    BY <2>2 DEF Range
<1>3. UniqueSamples'
  <2>1. x \notin Range(samples)
    BY DEF TakeNew, Take, LoopKnows
  <2>2. IsInjective(samples')
    BY <1>0, <2>1 DEF TakeNew, Take, TypeOK, UniqueSamples, IsInjective, Range
  <2> QED
    BY <1>0, <1>2, <2>2 DEF TakeNew, Take, UniqueSamples, args
<1>4. CountsAreDraws'
  <2>1. /\ once' = once \cup {x} /\ x \notin once /\ twice' = twice
        /\ seen' \ (once' \cup twice') = seen \ (once \cup twice)
        /\ once' \cap twice' = {}
    BY DEF TakeNew, TypeOK, CountsAreDraws
  <2>2. Cardinality(once') = Cardinality(once) + 1
    BY <2>1, Sizes, FS_AddElement
  <2>3. /\ Cardinality(twice') = Cardinality(twice)
        /\ Cardinality(seen' \ (once' \cup twice')) = Cardinality(seen \ (once \cup twice))
    BY <2>1
  <2>4. draws' = draws /\ Len(batch') = Len(batch) - 1 /\ Len(batch) \in Nat
        /\ draws \in Nat
    BY <1>0 DEF TakeNew, Take, TypeOK
  <2>5. draws >= Len(batch') + Cardinality(once') + 2 * Cardinality(twice')
                   + 3 * Cardinality(seen' \ (once' \cup twice'))
    BY <2>2, <2>3, <2>4, Sizes, Account DEF CountsAreDraws
  <2> QED
    BY <2>1, <2>4, <2>5 DEF CountsAreDraws
<1>5. RequestsAreBounded'
  BY DEF TakeNew, Take, RequestsAreBounded, args
<1>6. LoopKnows'
  <2>0. seen' = seen \cup {x} /\ x \notin seen
    BY DEF TakeNew
  <2>1. Cardinality(seen') = Cardinality(seen) + 1
    BY <2>0, FS_AddElement DEF TypeOK
  <2>3. Len(samples') = Len(samples) + 1
    BY <1>0 DEF TakeNew, TypeOK
  <2>2. draws # 0
    BY <1>0 DEF LoopKnows
  <2> QED
    BY <1>2, <2>1, <2>2, <2>3, Sizes DEF TakeNew, Take, LoopKnows, TypeOK, args
<1> QED
  BY <1>1, <1>3, <1>4, <1>5, <1>6

LEMMA TakeAgainInv == ASSUME IInv, TakeAgain PROVE IInv'
<1> USE DEF IInv
<1> DEFINE x == Head(batch)
<1> DEFINE rest == seen \ (once \cup twice)
<1>0. batch \in Seq(space) /\ batch # << >> /\ x \in seen /\ Tail(batch) \in Seq(space)
      /\ Len(Tail(batch)) = Len(batch) - 1
  BY DEF TakeAgain, Take, TypeOK
<1>1. TypeOK'
  BY <1>0 DEF TakeAgain, Take, TypeOK, args
<1>2. UniqueSamples'
  BY DEF TakeAgain, Take, UniqueSamples, args
<1>3. CountsAreDraws'
  <2>0. draws' = draws /\ Len(batch') = Len(batch) - 1 /\ Len(batch) \in Nat
        /\ draws \in Nat
    BY <1>0 DEF TakeAgain, Take, TypeOK
  <2>1. CASE x \in once
    <3>1. /\ once' = once \ {x} /\ twice' = twice \cup {x} /\ x \notin twice
          /\ seen' \ (once' \cup twice') = rest /\ once' \cap twice' = {}
      BY <2>1 DEF TakeAgain, CountsAreDraws, TypeOK
    <3>2. /\ Cardinality(once') = Cardinality(once) - 1
          /\ Cardinality(twice') = Cardinality(twice) + 1
          /\ Cardinality(seen' \ (once' \cup twice')) = Cardinality(rest)
      BY <2>1, <3>1, Sizes, FS_AddElement, FS_RemoveElement
    <3>3. draws >= Len(batch') + Cardinality(once') + 2 * Cardinality(twice')
                     + 3 * Cardinality(seen' \ (once' \cup twice'))
      BY <2>0, <3>2, Sizes, Account DEF CountsAreDraws
    <3> QED
      BY <2>0, <3>1, <3>3 DEF CountsAreDraws
  <2>2. CASE x \in twice
    <3>1. /\ once' = once /\ twice' = twice \ {x} /\ x \notin rest
          /\ seen' \ (once' \cup twice') = rest \cup {x} /\ once' \cap twice' = {}
      BY <1>0, <2>2 DEF TakeAgain, CountsAreDraws, TypeOK
    <3>0. IsFiniteSet(rest)
      BY Sizes
    <3>4. Cardinality(rest \cup {x}) = Cardinality(rest) + 1
      BY <3>0, <3>1, FS_AddElement
    <3>5. Cardinality(twice \ {x}) = Cardinality(twice) - 1
      BY <2>2, Sizes, FS_RemoveElement
    <3>2. /\ Cardinality(once') = Cardinality(once)
          /\ Cardinality(twice') = Cardinality(twice) - 1
          /\ Cardinality(seen' \ (once' \cup twice')) = Cardinality(rest) + 1
      BY <3>1, <3>4, <3>5
    <3>3. draws >= Len(batch') + Cardinality(once') + 2 * Cardinality(twice')
                     + 3 * Cardinality(seen' \ (once' \cup twice'))
      BY <2>0, <3>2, Sizes, Account DEF CountsAreDraws
    <3> QED
      BY <2>0, <3>1, <3>3 DEF CountsAreDraws
  <2>3. CASE x \notin once /\ x \notin twice
    <3>1. once' = once /\ twice' = twice /\ seen' = seen
      BY <2>3 DEF TakeAgain
    <3>2. /\ Cardinality(once') = Cardinality(once)
          /\ Cardinality(twice') = Cardinality(twice)
          /\ Cardinality(seen' \ (once' \cup twice')) = Cardinality(rest)
      BY <3>1
    <3>3. draws >= Len(batch') + Cardinality(once') + 2 * Cardinality(twice')
                     + 3 * Cardinality(seen' \ (once' \cup twice'))
      BY <2>0, <3>2, Sizes, Account DEF CountsAreDraws
    <3> QED
      BY <2>0, <3>1, <3>3 DEF CountsAreDraws
  <2> QED
    BY <2>1, <2>2, <2>3
<1>4. RequestsAreBounded'
  BY DEF TakeAgain, Take, RequestsAreBounded, args
<1>5. LoopKnows'
  BY <1>0 DEF TakeAgain, Take, LoopKnows, TypeOK, args
<1> QED
  BY <1>1, <1>2, <1>3, <1>4, <1>5

LEMMA EndRoundInv == ASSUME IInv, EndRound PROVE IInv'
  BY DEF IInv, EndRound, TypeOK, UniqueSamples, CountsAreDraws, RequestsAreBounded,
     LoopKnows, args, counters

LEMMA ReturnInv == ASSUME IInv, Return PROVE IInv'
<1> USE DEF IInv
<1> DEFINE n == IF Len(samples) < num THEN Len(samples) ELSE num
<1>0. /\ samples' = SubSeq(samples, 1, n) /\ n \in Nat /\ n <= Len(samples) /\ n <= num
      /\ samples' \in Seq(space) /\ Len(samples') = n
      /\ \A i \in 1 .. n : samples'[i] = samples[i]
  BY DEF Return, TypeOK
<1>1. TypeOK'
  BY <1>0 DEF Return, TypeOK, args, counters
<1>2. UniqueSamples'
  BY <1>0 DEF Return, TypeOK, UniqueSamples, IsInjective, Range, args
<1>3. CountsAreDraws' /\ RequestsAreBounded' /\ LoopKnows'
  BY DEF Return, CountsAreDraws, RequestsAreBounded, LoopKnows, args, counters
<1> QED
  BY <1>1, <1>2, <1>3

\* The invariant is preserved by every step.
LEMMA NextInv == IInv /\ [Next]_sampling => IInv'
<1> SUFFICES ASSUME IInv, [Next]_sampling PROVE IInv'
  OBVIOUS
<1>1. ASSUME NEW drawn \in BoundedSeq(space, MaxDraw), Draw(drawn) PROVE IInv'
  <2>1. drawn \in Seq(space)
    BY DEF BoundedSeq, SeqOf
  <2> QED
    BY <1>1, <2>1, DrawInv
<1>2. CASE TakeNew
  BY <1>2, TakeNewInv
<1>3. CASE TakeAgain
  BY <1>3, TakeAgainInv
<1>4. CASE EndRound
  BY <1>4, EndRoundInv
<1>5. CASE Return
  BY <1>5, ReturnInv
<1>6. CASE UNCHANGED sampling
  BY <1>6 DEF IInv, TypeOK, UniqueSamples, CountsAreDraws, RequestsAreBounded,
     LoopKnows, sampling, args, counters
<1> QED
  BY <1>1, <1>2, <1>3, <1>4, <1>5, <1>6 DEF Next, Round

\* Every reachable state satisfies the inductive invariant.
THEOREM Invariant == Spec => []IInv
  BY InitInv, NextInv, PTL DEF Spec

\* sample_uniques only collects different samples of its space, and returns at most num.
THEOREM ResultIsUnique == Spec => []UniqueSamples
  BY Invariant, PTL DEF IInv

\* The counters of the Good-Turing estimate never exceed the draws behind them.
THEOREM CountsArePaid == Spec => []CountsAreDraws
  BY Invariant, PTL DEF IInv

\* Fewer than 2 * num / prob + num draws are requested in all, whatever is drawn.
THEOREM RequestsBound == Spec => []RequestsAreBounded
  BY Invariant, PTL DEF IInv
=============================================================================
