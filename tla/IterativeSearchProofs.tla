------------------------ MODULE IterativeSearchProofs ------------------------
(***************************************************************************)
(* Theorems about IterativeSearch, for every design space, batch size,      *)
(* number of trials and update period.                                      *)
(***************************************************************************)
EXTENDS IterativeSearch, TLAPS, SequenceTheorems, FiniteSetTheorems

ResultRecords == [x : Samples, code : {0, 1}, peak : Nat]

TypeOK ==
  /\ pc \in {"suggest", "evaluate", "observe", "finished", "raised"}
  /\ step \in Nat /\ fitted \in Nat /\ perSample \in Nat
  /\ inX \in Seq(Samples) /\ results \in Seq(ResultRecords)
  /\ X \in Seq(Samples) /\ Y \in Seq(Nat) /\ measured \in Seq(Samples \X Nat)
  /\ bestY \in Nat

\* Where a batch stands: what was observed before it is what the trials so far asked for.
BatchInv ==
  /\ pc \in {"suggest", "finished"} => Len(X) = IF step <= Trials THEN step ELSE Trials
  /\ pc \in {"evaluate", "observe"} =>
       step < Trials /\ Len(X) = step /\ Len(inX) = Size
  /\ pc = "finished" => step >= Trials

\* With one result per sample the i-th result of a batch is that of its i-th sample.
ResultsMatch ==
  pc = "observe" /\ perSample = 1 =>
    /\ Len(results) = Len(inX)
    /\ \A i \in 1 .. Len(inX) : results[i].x = inX[i] /\ (results[i].code = 0 => results[i].peak > 0)

BestInv ==
  perSample = 1 =>
    /\ \A i \in 1 .. Len(measured) : measured[i][2] <= bestY
    /\ IF measured = << >> THEN bestY = 0
       ELSE \E i \in 1 .. Len(measured) : measured[i] = <<bestX, bestY>>

\* The forest is the one a refit at every period boundary leaves.
FitInv ==
  pc # "raised" => fitted = IF Len(X) >= UpdateFirst THEN UpdateN(Len(X)) ELSE 0

IInv == TypeOK /\ BatchInv /\ ResultsMatch /\ BestInv /\ FitInv

-----------------------------------------------------------------------------
(* Natural numbers. *)

\* A set of natural numbers that is not empty has a least element.
LEMMA LeastNumber ==
  ASSUME NEW N \in SUBSET Nat, N # {}
  PROVE  \E n \in N : \A m \in N : n <= m
<1> DEFINE Lows == {1 .. n : n \in N}
<1> DEFINE R == StrictSubsetOrdering(Nat)
<1>1. Lows \subseteq FiniteSubsetsOf(Nat) /\ Lows # {}
  <2>1. \A n \in Nat : 1 .. n \in FiniteSubsetsOf(Nat)
    BY FS_Interval DEF FiniteSubsetsOf
  <2> QED
    BY <2>1
<1>2. IsWellFoundedOn(R, FiniteSubsetsOf(Nat))
  BY FS_StrictSubsetOrderingWellFounded
<1>3. \E low \in Lows : \A other \in Lows : ~ (<<other, low>> \in R)
  <2> HIDE DEF Lows, R
  <2> QED
    BY <1>1, <1>2, WFMin
<1>4. PICK n \in N : \A m \in N : ~ (<<1 .. m, 1 .. n>> \in R)
  BY <1>3
<1>5. ASSUME NEW m \in N, m < n PROVE FALSE
  <2>1. 1 .. m \subseteq 1 .. n /\ n \in 1 .. n /\ n \notin 1 .. m
    BY <1>5
  <2>2. 1 .. m \in SUBSET Nat /\ 1 .. n \in SUBSET Nat /\ 1 .. m # 1 .. n
    BY <2>1
  <2>3. \A A, B \in SUBSET Nat : A \subseteq B /\ A # B => <<A, B>> \in R
    BY DEF StrictSubsetOrdering
  <2> QED
    BY <1>4, <2>1, <2>2, <2>3
<1> QED
  BY <1>5

\* Induction, for a set instead of a predicate.
LEMMA Induction ==
  ASSUME NEW S, 0 \in S, \A n \in Nat : n \in S => n + 1 \in S
  PROVE  Nat \subseteq S
<1> SUFFICES ASSUME Nat \ S # {} PROVE FALSE
  OBVIOUS
<1>1. PICK n \in Nat \ S : \A m \in Nat \ S : n <= m
  BY LeastNumber
<1>2. n - 1 \in Nat /\ n - 1 \notin S
  BY <1>1
<1> QED
  BY <1>1, <1>2

\* The two parts of a concatenation.
LEMMA Concatenated ==
  ASSUME NEW S, NEW s \in Seq(S), NEW t \in Seq(S), NEW st, st = s \o t
  PROVE  /\ st \in Seq(S) /\ Len(st) = Len(s) + Len(t)
         /\ \A i \in 1 .. Len(s) : st[i] = s[i]
         /\ \A i \in 1 .. Len(t) : st[Len(s) + i] = t[i]
         /\ \A i \in 1 .. Len(st) :
              i \in 1 .. Len(s) \/ \E j \in 1 .. Len(t) : i = Len(s) + j
<1>1. Len(s) \in Nat /\ Len(t) \in Nat
  BY LenProperties
<1>2. /\ st \in Seq(S) /\ Len(st) = Len(s) + Len(t)
      /\ \A i \in 1 .. Len(s) + Len(t) :
           st[i] = IF i <= Len(s) THEN s[i] ELSE t[i - Len(s)]
  BY ConcatProperties
<1>3. ASSUME NEW i \in 1 .. Len(s) PROVE st[i] = s[i]
  BY <1>1, <1>2
<1>4. ASSUME NEW i \in 1 .. Len(t) PROVE st[Len(s) + i] = t[i]
  <2>1. Len(s) + i \in 1 .. Len(s) + Len(t) /\ ~ (Len(s) + i <= Len(s)) /\ Len(s) + i - Len(s) = i
    BY <1>1
  <2> QED
    BY <1>2, <2>1
<1>5. ASSUME NEW i \in 1 .. Len(s) + Len(t), i \notin 1 .. Len(s)
      PROVE  i - Len(s) \in 1 .. Len(t) /\ i = Len(s) + (i - Len(s))
  BY <1>1, <1>5
<1> QED
  BY <1>2, <1>3, <1>4, <1>5

LEMMA Division ==
  ASSUME NEW a \in Nat, NEW d \in Nat \ {0}
  PROVE  /\ a \div d \in Nat
         /\ (a \div d) * d <= a /\ a < (a \div d) * d + d
  BY SMT

LEMMA Multiples ==
  ASSUME NEW p \in Nat, NEW q \in Nat, NEW d \in Nat \ {0}, p * d < q * d + d
  PROVE  p * d <= q * d
<1>1. p <= q
  <2> SUFFICES ASSUME p >= q + 1 PROVE FALSE
    OBVIOUS
  <2>1. PICK k \in Nat : p = q + 1 + k
    <3>1. p - (q + 1) \in Nat /\ p = q + 1 + (p - (q + 1))
      OBVIOUS
    <3> QED
      BY <3>1
  <2>2. p * d = q * d + d + k * d /\ k * d \in Nat /\ q * d \in Nat
    BY <2>1
  <2> QED
    BY <2>2
<1>2. PICK k \in Nat : q = p + k
  <2>1. q - p \in Nat /\ q = p + (q - p)
    BY <1>1
  <2> QED
    BY <2>1
<1>3. q * d = p * d + k * d /\ k * d \in Nat /\ p * d \in Nat
  BY <1>2
<1> QED
  BY <1>3

\* What is below a multiple has a smaller quotient.
LEMMA QuotientBound ==
  ASSUME NEW a \in Nat, NEW d \in Nat \ {0}, NEW n \in Nat, a < n * d
  PROVE  a \div d \in Nat /\ a \div d < n
<1> DEFINE q == a \div d
<1>1. q \in Nat /\ q * d <= a
  BY Division
<1>2. ASSUME q >= n PROVE FALSE
  <2> HIDE DEF q
  <2>1. PICK k \in Nat : q = n + k
    <3>1. q - n \in Nat /\ q = n + (q - n)
      BY <1>1, <1>2
    <3> QED
      BY <3>1
  <2>2. q * d = n * d + k * d /\ k * d \in Nat /\ n * d \in Nat
    BY <2>1
  <2> QED
    BY <1>1, <2>2
<1> QED
  BY <1>1, <1>2

-----------------------------------------------------------------------------
(* The forest and its updates. *)

LEMMA Updates == UpdateFirst \in Nat \ {0} /\ UpdatePeriod \in Nat \ {0}
  BY IterativeSearchAssumption DEF UpdateFirst, UpdatePeriod

\* update_n is at most one period behind, and never goes back.
LEMMA UpdateBounds ==
  ASSUME NEW n \in Nat, n >= UpdateFirst
  PROVE  /\ UpdateN(n) \in Nat /\ UpdateFirst <= UpdateN(n) /\ UpdateN(n) <= n
         /\ n < UpdateN(n) + UpdatePeriod
<1>1. n - UpdateFirst \in Nat
  BY Updates
<1>2. /\ (n - UpdateFirst) \div UpdatePeriod \in Nat
      /\ ((n - UpdateFirst) \div UpdatePeriod) * UpdatePeriod <= n - UpdateFirst
      /\ n - UpdateFirst < ((n - UpdateFirst) \div UpdatePeriod) * UpdatePeriod + UpdatePeriod
  BY <1>1, Updates, Division
<1>3. ((n - UpdateFirst) \div UpdatePeriod) * UpdatePeriod \in Nat
  BY <1>2, Updates
<1> QED
  BY <1>2, <1>3, Updates DEF UpdateN

LEMMA UpdatesGrow ==
  ASSUME NEW m \in Nat, NEW n \in Nat, UpdateFirst <= m, m <= n
  PROVE  UpdateN(m) <= UpdateN(n)
<1> DEFINE p == (m - UpdateFirst) \div UpdatePeriod
           q == (n - UpdateFirst) \div UpdatePeriod
<1>1. m - UpdateFirst \in Nat /\ n - UpdateFirst \in Nat
  BY Updates
<1>2. /\ p \in Nat /\ p * UpdatePeriod <= m - UpdateFirst
      /\ q \in Nat /\ n - UpdateFirst < q * UpdatePeriod + UpdatePeriod
  BY <1>1, Updates, Division
<1>3. UpdateN(m) = UpdateFirst + p * UpdatePeriod /\ UpdateN(n) = UpdateFirst + q * UpdatePeriod
  BY DEF UpdateN
<1> HIDE DEF p, q
<1>4. p * UpdatePeriod \in Nat /\ q * UpdatePeriod \in Nat
  BY <1>2, Updates
<1>5. p * UpdatePeriod < q * UpdatePeriod + UpdatePeriod
  BY <1>1, <1>2, <1>4, Updates
<1>6. p * UpdatePeriod <= q * UpdatePeriod
  BY <1>2, <1>5, Updates, Multiples
<1> QED
  BY <1>3, <1>4, <1>6, Updates

-----------------------------------------------------------------------------
(* observe(). *)

LEMMA PeaksOfResults ==
  ASSUME TypeOK
  PROVE  /\ peaks \in Seq(Nat) /\ Len(peaks) = Len(results) /\ Len(results) \in Nat
         /\ \A i \in 1 .. Len(results) : peaks[i] = results[i].peak /\ results[i] \in ResultRecords
<1>1. /\ Len(results) \in Nat /\ DOMAIN results = 1 .. Len(results)
      /\ \A i \in 1 .. Len(results) : results[i] \in ResultRecords
  BY LenProperties, ElementOfSeq DEF TypeOK
<1>2. \A i \in 1 .. Len(results) : results[i].peak \in Nat
  BY <1>1 DEF ResultRecords
<1> QED
  BY <1>1, <1>2 DEF peaks

\* If no index improves on the best, no peak is larger.
LEMMA NoneImproves ==
  ASSUME TypeOK, NEW n \in Nat, n <= Len(peaks), \A i \in 1 .. n : ~ Improves(i, n)
  PROVE  \A i \in 1 .. n : peaks[i] <= bestY
<1> DEFINE Done(m) == \/ \E i \in 1 .. m : Improves(i, m)
                      \/ \A j \in 1 .. m : peaks[j] <= bestY
           S == {m \in Nat : m <= n => Done(m)}
<1>1. \A i \in 1 .. n : peaks[i] \in Nat
  BY PeaksOfResults, ElementOfSeq
<1>2. bestY \in Nat
  BY DEF TypeOK
<1>3. 0 \in S
  OBVIOUS
<1>4. ASSUME NEW m \in Nat, m \in S PROVE m + 1 \in S
  <2> SUFFICES ASSUME m + 1 <= n PROVE Done(m + 1)
    OBVIOUS
  <2>1. Done(m) /\ m + 1 \in 1 .. n /\ 1 .. m \subseteq 1 .. n
    BY <1>4
  <2>2. \A j \in 1 .. m + 1 : j \in 1 .. m \/ j = m + 1
    OBVIOUS
  <2>3. CASE \A j \in 1 .. m : peaks[j] <= bestY
    <3>1. CASE peaks[m + 1] <= bestY
      BY <2>2, <2>3, <3>1
    <3>2. CASE peaks[m + 1] > bestY
      <4>1. Improves(m + 1, m + 1)
        BY <1>1, <1>2, <2>1, <2>2, <2>3, <3>2 DEF Improves
      <4> QED
        BY <4>1
    <3> QED
      BY <1>1, <1>2, <2>1, <3>1, <3>2
  <2>4. ASSUME NEW i \in 1 .. m, Improves(i, m) PROVE Done(m + 1)
    <3>0. i \in 1 .. n /\ i \in 1 .. m + 1
      BY <2>1
    <3>1. CASE peaks[m + 1] <= peaks[i]
      <4>1. Improves(i, m + 1)
        BY <2>2, <2>4, <3>1 DEF Improves
      <4> QED
        BY <3>0, <4>1
    <3>2. CASE peaks[m + 1] > peaks[i]
      <4>1. Improves(m + 1, m + 1)
        BY <1>1, <1>2, <2>1, <2>2, <2>4, <3>0, <3>2 DEF Improves
      <4> QED
        BY <4>1
    <3> QED
      BY <1>1, <2>1, <3>0, <3>1, <3>2
  <2> QED
    BY <2>1, <2>3, <2>4
<1>5. n \in S
  <2> HIDE DEF S
  <2> QED
    BY <1>3, <1>4, Induction
<1> QED
  BY <1>5

\* What observe() adds to the observations.
LEMMA Extended ==
  ASSUME TypeOK, Extend
  PROVE  /\ X' \in Seq(Samples) /\ Len(X') = Len(X) + Len(inX)
         /\ Y' \in Seq(Nat)
         /\ measured' \in Seq(Samples \X Nat) /\ Len(measured') = Len(measured) + Len(results)
         /\ \A i \in 1 .. Len(measured) : measured'[i] = measured[i]
         /\ \A i \in 1 .. Len(results) :
              measured'[Len(measured) + i] = <<results[i].x, results[i].peak>>
         /\ \A i \in 1 .. Len(measured') :
              i \in 1 .. Len(measured) \/ \E j \in 1 .. Len(results) : i = Len(measured) + j
<1> DEFINE given == [i \in DOMAIN results |-> <<results[i].x, results[i].peak>>]
<1>1. /\ Len(results) \in Nat /\ DOMAIN results = 1 .. Len(results)
      /\ \A i \in 1 .. Len(results) : results[i] \in ResultRecords
  BY LenProperties, ElementOfSeq DEF TypeOK
<1>2. /\ given \in Seq(Samples \X Nat) /\ Len(given) = Len(results)
      /\ \A i \in 1 .. Len(results) : given[i] = <<results[i].x, results[i].peak>>
  BY <1>1 DEF ResultRecords
<1>3. measured' = measured \o given
  BY DEF Extend
<1>4. X' \in Seq(Samples) /\ Len(X') = Len(X) + Len(inX) /\ Y' \in Seq(Nat)
  BY PeaksOfResults, ConcatProperties DEF Extend, TypeOK
<1> HIDE DEF given
<1> DEFINE Pairs == Samples \X Nat
<1>5. measured \in Seq(Pairs) /\ given \in Seq(Pairs)
  BY <1>2 DEF TypeOK
<1> HIDE DEF Pairs
<1>6. /\ measured' \in Seq(Pairs) /\ Len(measured') = Len(measured) + Len(given)
      /\ \A i \in 1 .. Len(measured) : measured'[i] = measured[i]
      /\ \A i \in 1 .. Len(given) : measured'[Len(measured) + i] = given[i]
      /\ \A i \in 1 .. Len(measured') :
           i \in 1 .. Len(measured) \/ \E j \in 1 .. Len(given) : i = Len(measured) + j
  <2>1. measured' \in Seq(Pairs) /\ Len(measured') = Len(measured) + Len(given)
    BY <1>3, <1>5, Concatenated
  <2>2. \A i \in 1 .. Len(measured) : measured'[i] = measured[i]
    BY <1>3, <1>5, Concatenated
  <2>3. \A i \in 1 .. Len(given) : measured'[Len(measured) + i] = given[i]
    BY <1>3, <1>5, Concatenated
  <2>4. \A i \in 1 .. Len(measured') :
           i \in 1 .. Len(measured) \/ \E j \in 1 .. Len(given) : i = Len(measured) + j
    BY <1>3, <1>5, Concatenated
  <2> QED
    BY <2>1, <2>2, <2>3, <2>4
<1> QED
  BY <1>2, <1>4, <1>6 DEF Pairs

LEMMA BestTracked ==
  ASSUME TypeOK, ResultsMatch, BestInv, Extend, TrackBest(Len(peaks)), UNCHANGED perSample
  PROVE  BestInv'
<1> SUFFICES ASSUME perSample = 1 PROVE BestInv'
  BY DEF BestInv
<1>1. /\ Len(results) \in Nat /\ Len(peaks) = Len(results) /\ Len(measured) \in Nat
      /\ \A i \in 1 .. Len(results) : peaks[i] = results[i].peak /\ results[i].peak \in Nat
  BY PeaksOfResults, LenProperties DEF TypeOK, ResultRecords
<1>2. /\ bestY \in Nat /\ \A i \in 1 .. Len(measured) : measured[i][2] \in Nat
      /\ \A i \in 1 .. Len(measured) : measured[i][2] <= bestY
  <2>1. \A i \in 1 .. Len(measured) : measured[i] \in Samples \X Nat
    BY ElementOfSeq DEF TypeOK
  <2> QED
    BY <2>1 DEF TypeOK, BestInv
<1>3. /\ Len(results) = Len(inX)
      /\ \A i \in 1 .. Len(results) : results[i].x = inX[i] /\ results[i].peak > 0
  BY LenProperties DEF Extend, ResultsMatch, TypeOK
<1>4. /\ Len(measured') = Len(measured) + Len(results) /\ measured' \in Seq(Samples \X Nat)
      /\ \A i \in 1 .. Len(measured) : measured'[i] = measured[i]
      /\ \A i \in 1 .. Len(results) :
           measured'[Len(measured) + i] = <<results[i].x, results[i].peak>>
  BY Extended
<1>5. \A i \in 1 .. Len(measured') :
        i \in 1 .. Len(measured) \/ \E j \in 1 .. Len(results) : i = Len(measured) + j
  BY Extended
<1>6. /\ \A j \in 1 .. Len(results) : Len(measured) + j \in 1 .. Len(measured')
      /\ 1 .. Len(measured) \subseteq 1 .. Len(measured')
  BY <1>1, <1>4
<1>7. ASSUME NEW b \in Nat, bestY <= b, \A i \in 1 .. Len(results) : results[i].peak <= b
      PROVE  \A j \in 1 .. Len(measured') : measured'[j][2] <= b
  <2>1. ASSUME NEW j \in 1 .. Len(measured) PROVE measured'[j][2] <= b
    <3>1. measured'[j] = measured[j]
      BY <1>4
    <3>2. measured[j][2] \in Nat /\ measured[j][2] <= bestY /\ bestY \in Nat
      BY <1>2
    <3>3. measured[j][2] <= b
      BY <1>7, <3>2
    <3> QED
      BY <3>1, <3>3
  <2>2. ASSUME NEW j \in 1 .. Len(results) PROVE measured'[Len(measured) + j][2] <= b
    <3>1. measured'[Len(measured) + j] = <<results[j].x, results[j].peak>>
      BY <1>4
    <3>2. measured'[Len(measured) + j][2] = results[j].peak
      BY <3>1
    <3> QED
      BY <1>7, <3>2
  <2> QED
    BY <1>5, <2>1, <2>2
<1>8. ASSUME NEW i \in 1 .. Len(results), Improves(i, Len(results)),
             bestX' = inX[i], bestY' = peaks[i]
      PROVE  BestInv'
  <2>1. /\ bestY' \in Nat /\ bestY <= bestY'
        /\ \A j \in 1 .. Len(results) : results[j].peak <= bestY'
    BY <1>1, <1>2, <1>8 DEF Improves
  <2>2. \A j \in 1 .. Len(measured') : measured'[j][2] <= bestY'
    BY <1>7, <2>1
  <2>3. measured'[Len(measured) + i] = <<bestX', bestY'>>
    BY <1>1, <1>3, <1>4, <1>8
  <2>4. measured' # << >>
    BY <1>1, <1>4, EmptySeq
  <2> QED
    BY <1>6, <2>2, <2>3, <2>4 DEF BestInv
<1>9. ASSUME \A i \in 1 .. Len(results) : ~ Improves(i, Len(results)), UNCHANGED <<bestX, bestY>>
      PROVE  BestInv'
  <2>1. \A i \in 1 .. Len(results) : results[i].peak <= bestY
    BY <1>1, <1>9, NoneImproves
  <2>2. \A j \in 1 .. Len(measured') : measured'[j][2] <= bestY'
    BY <1>2, <1>9, <1>7, <2>1
  <2>3. CASE measured = << >>
    <3>1. bestY = 0 /\ Len(measured) = 0
      BY <2>3, EmptySeq DEF BestInv
    <3>2. Len(results) = 0
      <4> SUFFICES ASSUME Len(results) > 0 PROVE FALSE
        BY <1>1
      <4>1. 1 \in 1 .. Len(results)
        BY <1>1
      <4> QED
        BY <1>1, <1>3, <2>1, <3>1, <4>1
    <3>3. measured' = << >>
      BY <1>4, <3>1, <3>2, EmptySeq
    <3> QED
      BY <1>9, <2>2, <3>1, <3>3 DEF BestInv
  <2>4. CASE measured # << >>
    <3>1. PICK i \in 1 .. Len(measured) : measured[i] = <<bestX, bestY>>
      BY <2>4 DEF BestInv
    <3>2. measured'[i] = <<bestX', bestY'>> /\ i \in 1 .. Len(measured')
      BY <1>4, <1>6, <1>9, <3>1
    <3>3. measured' # << >>
      BY <1>1, <1>4, <3>1, EmptySeq
    <3> QED
      BY <2>2, <3>2, <3>3 DEF BestInv
  <2> QED
    BY <2>3, <2>4
<1> QED
  BY <1>1, <1>8, <1>9 DEF TrackBest

\* With one result per sample observe() never asks for a sample past the batch.
LEMMA NoOverrun ==
  ASSUME TypeOK, ResultsMatch, pc = "observe", perSample = 1 PROVE ~ Overruns
<1>1. Len(peaks) = Len(inX) /\ Len(inX) \in Nat
  BY PeaksOfResults, LenProperties DEF ResultsMatch, TypeOK
<1> QED
  BY <1>1 DEF Overruns

LEMMA BestTyped ==
  ASSUME TypeOK, NEW n \in 0 .. Len(peaks), TrackBest(n) PROVE bestY' \in Nat
<1>1. /\ Len(peaks) \in Nat /\ \A i \in 1 .. n : peaks[i] \in Nat
  BY PeaksOfResults, ElementOfSeq
<1> QED
  BY <1>1 DEF TrackBest, TypeOK

-----------------------------------------------------------------------------
(* Every step keeps the inductive invariant. *)

LEMMA InitInv == Init => IInv
<1> SUFFICES ASSUME Init PROVE IInv
  OBVIOUS
<1>1. TypeOK
  BY IterativeSearchAssumption, EmptySeq DEF Init, TypeOK
<1>2. Len(X) = 0
  BY DEF Init
<1>3. BatchInv /\ ResultsMatch
  BY <1>2, IterativeSearchAssumption DEF Init, BatchInv, ResultsMatch
<1>4. BestInv
  BY DEF Init, BestInv
<1>5. FitInv
  BY <1>2, Updates DEF Init, FitInv
<1> QED
  BY <1>1, <1>3, <1>4, <1>5 DEF IInv

LEMMA SuggestInv == IInv /\ Suggest => IInv'
<1> SUFFICES ASSUME IInv, Suggest PROVE IInv'
  OBVIOUS
<1>1. PICK s \in Suggestions : inX' = SubSeq(s, 1, Size)
  BY DEF Suggest
<1>2. s \in [1 .. BatchSize -> Samples]
  BY DEF Suggestions
<1>3. step \in Nat /\ step < Trials /\ Size \in 1 .. BatchSize /\ Trials \in Nat
  BY IterativeSearchAssumption DEF IInv, TypeOK, Suggest, Size
<1>4. inX' \in Seq(Samples) /\ Len(inX') = Size
  <2>1. \A i \in 1 .. Size : s[i] \in Samples
    BY <1>2, <1>3, IterativeSearchAssumption
  <2>2. Size \in Int /\ 1 \in Int /\ 1 <= Size
    BY <1>3, IterativeSearchAssumption
  <2>3. Len(SubSeq(s, 1, Size)) = Size - 1 + 1 /\ SubSeq(s, 1, Size) \in Seq(Samples)
    BY <2>1, <2>2, SubSeqProperties
  <2> QED
    BY <1>1, <2>2, <2>3
<1>5. TypeOK'
  BY <1>4 DEF IInv, TypeOK, Suggest, observed
<1>6. Size' = Size
  BY DEF Suggest, Size
<1>7. BatchInv'
  BY <1>3, <1>4, <1>6 DEF IInv, BatchInv, Suggest, observed
<1>8. ResultsMatch' /\ BestInv' /\ FitInv'
  BY DEF IInv, ResultsMatch, BestInv, FitInv, Suggest, observed
<1> QED
  BY <1>5, <1>7, <1>8 DEF IInv

LEMMA EvaluateInv == IInv /\ Evaluate => IInv'
<1> SUFFICES ASSUME IInv, Evaluate PROVE IInv'
  OBVIOUS
<1> DEFINE n == Len(inX) * perSample
<1>1. PICK out \in [1 .. n -> Outcomes] :
        results' = [i \in DOMAIN out |->
                     [x |-> inX[(i - 1) \div perSample + 1],
                      code |-> out[i].code, peak |-> out[i].peak]]
  BY DEF Evaluate
<1>2. Len(inX) \in Nat /\ perSample \in Nat /\ \A i \in 1 .. Len(inX) : inX[i] \in Samples
  BY LenProperties, ElementOfSeq DEF IInv, TypeOK
<1>3. n \in Nat
  BY <1>2
<1>4. \A o \in Outcomes : o.code \in {0, 1} /\ o.peak \in Nat /\ (o.code = 0 => o.peak > 0)
  <2> TAKE o \in Outcomes
  <2>1. CASE o \in [code : {0}, peak : Peaks]
    <3>1. o.code = 0 /\ o.peak \in Peaks
      BY <2>1
    <3>2. o.peak \in Nat \ {0}
      BY <3>1, IterativeSearchAssumption
    <3> QED
      BY <3>1, <3>2
  <2>2. CASE o \in [code : {1}, peak : {0}]
    BY <2>2
  <2>3. o \in [code : {0}, peak : Peaks] \/ o \in [code : {1}, peak : {0}]
    BY DEF Outcomes
  <2> QED
    BY <2>1, <2>2, <2>3
<1>5. ASSUME NEW i \in 1 .. n PROVE inX[(i - 1) \div perSample + 1] \in Samples
  <2>1. i - 1 \in Nat /\ i - 1 < n
    BY <1>3
  <2>2. perSample # 0
    BY <1>2, <2>1
  <2>3. (i - 1) \div perSample \in Nat /\ (i - 1) \div perSample < Len(inX)
    BY <1>2, <2>1, <2>2, QuotientBound
  <2> QED
    BY <1>2, <2>3
<1>6. results' = [i \in 1 .. n |-> [x |-> inX[(i - 1) \div perSample + 1],
                                    code |-> out[i].code, peak |-> out[i].peak]]
  BY <1>1
<1> HIDE DEF n
<1>7. results' \in Seq(ResultRecords) /\ Len(results') = n
  BY <1>3, <1>4, <1>5, <1>6 DEF ResultRecords
<1>8. TypeOK'
  BY <1>7 DEF IInv, TypeOK, Evaluate, observed
<1>9. BatchInv'
  BY DEF IInv, BatchInv, Evaluate, observed, Size
<1>10. ResultsMatch'
  <2> SUFFICES ASSUME perSample = 1
               PROVE  /\ Len(results') = Len(inX)
                      /\ \A i \in 1 .. Len(inX) :
                           /\ results'[i].x = inX[i]
                           /\ results'[i].code = 0 => results'[i].peak > 0
    BY DEF ResultsMatch, Evaluate
  <2>1. n = Len(inX)
    BY <1>2 DEF n
  <2>2. ASSUME NEW i \in 1 .. Len(inX) PROVE (i - 1) \div perSample + 1 = i
    <3>1. i - 1 \in Nat
      BY <1>2
    <3>2. (i - 1) \div 1 = i - 1
      BY <3>1, SMT
    <3> QED
      BY <3>1, <3>2
  <2> QED
    BY <1>4, <1>6, <1>7, <2>1, <2>2
<1>11. BestInv' /\ FitInv'
  BY DEF IInv, BestInv, FitInv, Evaluate, observed
<1> QED
  BY <1>8, <1>9, <1>10, <1>11 DEF IInv

LEMMA ObserveInv == IInv /\ Observe => IInv'
<1> SUFFICES ASSUME IInv, Observe PROVE IInv'
  OBVIOUS
<1>1. /\ pc = "observe" /\ pc' = "suggest" /\ step' = step + BatchSize
      /\ inX' = << >> /\ results' = << >> /\ UNCHANGED perSample
      /\ Extend /\ TrackBest(Len(peaks))
      /\ fitted' = IF Refits(Len(X')) THEN UpdateN(Len(X')) ELSE fitted
  BY DEF Observe, Extend
<1>2. /\ X' \in Seq(Samples) /\ Y' \in Seq(Nat) /\ measured' \in Seq(Samples \X Nat)
      /\ Len(X') = Len(X) + Len(inX)
  BY <1>1, Extended DEF IInv
<1>3. /\ Len(X) \in Nat /\ Len(inX) \in Nat /\ Len(X') \in Nat /\ step \in Nat
      /\ Trials \in Nat /\ BatchSize \in Nat \ {0}
  BY <1>2, LenProperties, IterativeSearchAssumption DEF IInv, TypeOK
<1>4. bestY' \in Nat
  <2>1. Len(peaks) \in 0 .. Len(peaks)
    BY PeaksOfResults DEF IInv
  <2> QED
    BY <1>1, <2>1, BestTyped DEF IInv
<1>5. fitted' = IF Len(X') >= UpdateFirst THEN UpdateN(Len(X')) ELSE 0
  <2>1. fitted = IF Len(X) >= UpdateFirst THEN UpdateN(Len(X)) ELSE 0
    BY <1>1 DEF IInv, FitInv
  <2>2. CASE Len(X') < UpdateFirst
    BY <1>1, <1>2, <1>3, <2>1, <2>2, Updates DEF Refits
  <2>3. CASE Len(X') >= UpdateFirst
    <3>1. UpdateN(Len(X')) \in Nat \ {0}
      BY <1>3, <2>3, UpdateBounds, Updates
    <3>2. fitted <= UpdateN(Len(X')) /\ fitted \in Nat
      BY <1>2, <1>3, <2>1, <3>1, UpdatesGrow DEF IInv, TypeOK
    <3> QED
      BY <1>1, <2>3, <3>1, <3>2 DEF Refits
  <2> QED
    BY <1>3, <2>2, <2>3, Updates
<1>6. fitted' \in Nat
  BY <1>3, <1>5, UpdateBounds
<1>7. TypeOK'
  BY <1>1, <1>2, <1>3, <1>4, <1>6, EmptySeq DEF IInv, TypeOK
<1>8. BatchInv'
  <2>1. step < Trials /\ Len(X) = step /\ Len(inX) = Size
    BY <1>1 DEF IInv, BatchInv
  <2> QED
    BY <1>1, <1>2, <1>3, <2>1 DEF BatchInv, Size
<1>9. ResultsMatch'
  BY <1>1 DEF ResultsMatch
<1>10. BestInv'
  BY <1>1, BestTracked DEF IInv
<1>11. FitInv'
  BY <1>5 DEF FitInv
<1> QED
  BY <1>7, <1>8, <1>9, <1>10, <1>11 DEF IInv

\* An exception of the optimizer leaves what observe() did before it.
LEMMA ObserveRaisesInv == IInv /\ (ObserveOverruns \/ FitRaises) => IInv'
<1> SUFFICES ASSUME IInv, ObserveOverruns \/ FitRaises PROVE IInv'
  OBVIOUS
<1>1. Extend /\ pc = "observe" /\ pc' = "raised" /\ UNCHANGED <<batch, fitted>>
  BY DEF ObserveOverruns, FitRaises, Extend, Abort
<1>2. X' \in Seq(Samples) /\ Y' \in Seq(Nat) /\ measured' \in Seq(Samples \X Nat)
  BY <1>1, Extended DEF IInv
<1>3. bestY' \in Nat
  <2>1. /\ Len(peaks) \in 0 .. Len(peaks) /\ Len(inX) \in Nat /\ Len(peaks) \in Nat
        /\ Overruns => Len(inX) < Len(peaks)
    BY PeaksOfResults, LenProperties DEF IInv, TypeOK, Overruns
  <2> QED
    BY <2>1, BestTyped DEF IInv, ObserveOverruns, FitRaises
<1>4. TypeOK'
  BY <1>1, <1>2, <1>3 DEF IInv, TypeOK, batch
<1>5. BestInv'
  <2>1. CASE ObserveOverruns
    BY <1>1, <2>1, NoOverrun DEF IInv, BestInv, ObserveOverruns, batch
  <2>2. CASE FitRaises
    BY <1>1, <2>2, BestTracked DEF IInv, FitRaises, batch
  <2> QED
    BY <2>1, <2>2
<1>6. BatchInv' /\ ResultsMatch' /\ FitInv'
  BY <1>1 DEF BatchInv, ResultsMatch, FitInv
<1> QED
  BY <1>4, <1>5, <1>6 DEF IInv

\* The other steps only move to the end.
LEMMA StopInv ==
  IInv /\ (SuggestRaises \/ EvaluateRaises \/ PeaksRaise \/ Finish \/ UNCHANGED vars) => IInv'
<1> SUFFICES ASSUME IInv, UNCHANGED <<batch, observed>>,
                    pc' = "raised" \/ Finish \/ UNCHANGED pc
             PROVE  IInv'
  BY DEF SuggestRaises, EvaluateRaises, PeaksRaise, Finish, Abort, vars
<1>1. pc' \in {"suggest", "evaluate", "observe", "finished", "raised"}
  BY DEF IInv, TypeOK, Finish
<1>2. TypeOK' /\ BestInv'
  BY <1>1 DEF IInv, TypeOK, BestInv, batch, observed
<1>3. BatchInv' /\ ResultsMatch' /\ FitInv'
  BY DEF IInv, BatchInv, ResultsMatch, FitInv, Finish, batch, observed, Size
<1> QED
  BY <1>2, <1>3 DEF IInv

LEMMA NextInv == IInv /\ [Next]_vars => IInv'
  BY SuggestInv, EvaluateInv, ObserveInv, ObserveRaisesInv, StopInv DEF Next, Search, Stopped

-----------------------------------------------------------------------------
(* Theorems. *)

\* Every reachable state satisfies the inductive invariant.
THEOREM Invariant == Spec => []IInv
  BY InitInv, NextInv, PTL DEF Spec

\* With one result per sample the best schedule was measured with the peak it is reported
\* with, and nothing measured was better.
THEOREM BestIsMeasured == Spec => []BestWasMeasured
<1>1. IInv => BestWasMeasured
  <2> SUFFICES ASSUME IInv, perSample = 1, measured # << >>
               PROVE  /\ <<bestX, bestY>> \in ToSet(measured)
                      /\ \A i \in DOMAIN measured : measured[i][2] <= bestY
    BY DEF BestWasMeasured
  <2>1. DOMAIN measured = 1 .. Len(measured)
    BY LenProperties DEF IInv, TypeOK
  <2>2. PICK i \in 1 .. Len(measured) : measured[i] = <<bestX, bestY>>
    BY DEF IInv, BestInv
  <2> QED
    BY <2>1, <2>2 DEF IInv, BestInv, ToSet
<1> QED
  BY <1>1, Invariant, PTL

\* Candidates are only ranked by a forest that was fitted, on all observations but those
\* since the last update period began.
THEOREM ForestIsFresh == Spec => []ModelIsFresh
<1>1. IInv => ModelIsFresh
  <2> SUFFICES ASSUME IInv, pc = "suggest", Len(X) >= UpdateFirst
               PROVE  /\ fitted >= UpdateFirst /\ fitted <= Len(X)
                      /\ Len(X) - fitted < UpdatePeriod
    BY DEF ModelIsFresh, Warm
  <2>1. fitted = UpdateN(Len(X)) /\ Len(X) \in Nat
    BY LenProperties DEF IInv, FitInv, TypeOK
  <2> QED
    BY <2>1, UpdateBounds, Updates
<1> QED
  BY <1>1, Invariant, PTL

\* A search that finishes has observed exactly the configured number of trials, whatever
\* the batch size.
THEOREM TrialsAreSpent == Spec => [](pc = "finished" => Len(X) = Trials)
<1>1. IInv => (pc = "finished" => Len(X) = Trials)
  BY IterativeSearchAssumption DEF IInv, TypeOK, BatchInv
<1> QED
  BY <1>1, Invariant, PTL
=============================================================================
