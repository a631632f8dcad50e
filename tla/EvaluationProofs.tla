--------------------------- MODULE EvaluationProofs ---------------------------
(***************************************************************************)
(* For any modules, requests and number of evaluations: an evaluation uses  *)
(* what is alive, gives back all that it took, and returns the outputs of   *)
(* the payload and the results of the measuring loop.                       *)
(***************************************************************************)
EXTENDS Evaluation, TLAPS, SequenceTheorems, FiniteSetTheorems

-----------------------------------------------------------------------------
(* The measuring loop, for any calls asked for and any time a payload takes: its results
   are those of one round each. *)

\* What the counters show while a round runs: they were read when it began, and nothing
\* but its own calls has been counted since.
RoundCounts ==
  /\ stage \in {"started", "run"} => \A e \in Events : values[e] = 0
  /\ stage = "started" =>
       /\ firstRange = Recorded(ranges)
       /\ \A e \in Events : ModeOf(e) = "perf" => began[e] = calls
  /\ stage = "run" =>
       /\ ranges <= MaxRanges => ranges - firstRange = attempts
       /\ \A e \in Events : ModeOf(e) = "perf" => calls - began[e] = attempts

\* A repeat that is not finished has a place in the results.
RepeatsLeft ==
  /\ stage \in {"called", "open"} => repeats = 0
  /\ stage \in {"called", "open", "round", "started", "run"} => repeats < ask.repeat

LoopInv == LoopTypeOK /\ RoundCounts /\ RepeatsLeft /\ ResultsAreOfOneRound

\* The call is over when all repeats are measured.
RepeatsDone == stage = "done" => repeats = ask.repeat

\* A time is that of all the calls of the round.
RoundTime == stage = "run" => \E pace \in Paces : elapsed = attempts * pace

\* A result bears the name of its event, or is a time.
AsAsked(x, e) ==
  IF ask.events = << >> THEN x.event = "time" /\ \E pace \in Paces : x.num = pace * x.den
  ELSE x.event = ask.events[e].name

ResultsAreAsAsked ==
  stage # "idle" => \A r \in 0 .. repeats - 1, e \in 1 .. ValuesNum : AsAsked(results[Slot(r, e)], e)

\* Where a repeat is one call, the calls since the events were enabled are the repeats.
CallsAreRepeats ==
  ask.number = 1 /\ ask.min = 0 =>
    /\ stage \in {"round", "started", "run", "done"} => attempts = 1
    /\ stage \in {"round", "started", "done"} => calls = enabled + repeats
    /\ stage = "run" => calls = enabled + repeats + 1

AskedInv == RepeatsDone /\ RoundTime /\ ResultsAreAsAsked /\ CallsAreRepeats

-----------------------------------------------------------------------------
\* The shape of a call: its events are a sequence, empty exactly when its length is 0.
LEMMA AskShape ==
  ASSUME NEW q \in Asked
  PROVE  /\ q.repeat \in Nat \ {0} /\ q.number \in Nat /\ q.min \in Nat
         /\ Len(q.events) \in Nat /\ DOMAIN q.events = 1 .. Len(q.events)
         /\ q.events = << >> <=> Len(q.events) = 0
         /\ \A e \in DOMAIN q.events : /\ q.events[e].name \in EventNames
                                      /\ q.events[e].mode \in {"perf", "gpu", "none"}
  <1> DEFINE E == [name : STRING, mode : {"perf", "gpu", "none"}]
  <1>1. q.repeat \in Nat \ {0} /\ q.number \in Nat /\ q.min \in Nat /\ q.events \in Seq(E)
    BY MeasureAssumption DEF MeasureAssumption
  <1>2. Len(q.events) \in Nat /\ DOMAIN q.events = 1 .. Len(q.events)
    BY <1>1, LenProperties
  <1>3. q.events = << >> <=> Len(q.events) = 0
    BY <1>1, EmptySeq
  <1>4. \A e \in DOMAIN q.events : q.events[e] \in E
    BY <1>1, <1>2, ElementOfSeq
  <1>5. \A e \in DOMAIN q.events : q.events[e].name \in EventNames
    BY DEF EventNames
  <1> QED BY <1>1, <1>2, <1>3, <1>4, <1>5

\* The number of values of a call.
LEMMA ValuesNumShape ==
  ASSUME ask \in Asked
  PROVE  /\ ValuesNum \in Nat \ {0}
         /\ ask.events # << >> => ValuesNum = Len(ask.events) /\ Events = 1 .. ValuesNum
  BY AskShape DEF ValuesNum, Events

\* The places of two repeats do not meet, and those of every repeat are in the array.
LEMMA SlotsApart ==
  ASSUME NEW V \in Nat \ {0}, NEW r \in Nat, NEW s \in Nat, r < s, NEW e \in 1 .. V
  PROVE  r * V + e <= s * V
  <1>1. PICK k \in Nat : s = (r + 1) + k
    <2>1. s - (r + 1) \in Nat  OBVIOUS
    <2>2. s = (r + 1) + (s - (r + 1))  OBVIOUS
    <2> QED BY <2>1, <2>2
  <1>2. s * V = (r * V + V) + k * V
    BY <1>1
  <1>3. k * V \in Nat
    OBVIOUS
  <1>4. r * V \in Nat
    OBVIOUS
  <1> QED BY <1>2, <1>3, <1>4

\* The metrics a call asks for are counted by a natural number.
LEMMA NumGpuNat ==
  ASSUME NEW q \in Asked
  PROVE  NumGpu(q) \in Nat
  <1>1. IsFiniteSet(DOMAIN q.events)
    BY AskShape, FS_Interval
  <1> QED BY <1>1, FS_Subset, FS_CardinalityType DEF NumGpu

-----------------------------------------------------------------------------
(* The invariant is inductive: one lemma for each action that writes results or counts. *)

LEMMA LoopInvInit == LoopInit => LoopInv
  <1> SUFFICES ASSUME LoopInit PROVE LoopInv
    OBVIOUS
  <1>1. LoopTypeOK
    BY DEF LoopInit, LoopTypeOK
  <1> QED BY <1>1 DEF LoopInit, LoopInv, RoundCounts, RepeatsLeft, ResultsAreOfOneRound

LEMMA CallKept ==
  ASSUME LoopInv, NEW q \in Asked, Call(q)
  PROVE  LoopInv'
  <1>1. LoopTypeOK'
    <2>1. Unset \in ResultTypes
      BY DEF Unset, Result, ResultTypes, EventNames
    <2>2. results' \in [1 .. ask'.repeat * ValuesNum' -> ResultTypes]
      BY <2>1 DEF Call, ValuesNum
    <2>3. began' \in [Events' -> Nat] /\ values' \in [Events' -> Int]
      BY DEF Call, Events
    <2> QED BY <2>2, <2>3 DEF LoopInv, LoopTypeOK, Call, loopRanges
  <1>2. RoundCounts' /\ RepeatsLeft'
    BY AskShape DEF Call, RoundCounts, RepeatsLeft
  <1>3. ResultsAreOfOneRound'
    BY DEF Call, ResultsAreOfOneRound
  <1> QED BY <1>1, <1>2, <1>3 DEF LoopInv

LEMMA OpenEventsKept ==
  ASSUME LoopInv, OpenEvents
  PROVE  LoopInv'
  <1>1. ask \in Asked /\ ask' = ask /\ repeats' = 0 /\ stage' \in {"open", "thrown"}
    BY DEF LoopInv, LoopTypeOK, RepeatsLeft, OpenEvents, loopCounters
  <1>2. LoopTypeOK'
    BY <1>1, NumGpuNat DEF LoopInv, LoopTypeOK, OpenEvents, loopCounters, Events, ValuesNum
  <1>3. RoundCounts' /\ RepeatsLeft'
    BY <1>1 DEF LoopInv, OpenEvents, RoundCounts, RepeatsLeft
  <1>4. ResultsAreOfOneRound'
    BY <1>1 DEF ResultsAreOfOneRound
  <1> QED BY <1>2, <1>3, <1>4 DEF LoopInv

LEMMA WarmUpKept ==
  ASSUME LoopInv, WarmUp
  PROVE  LoopInv'
  <1>1. ask \in Asked /\ ask' = ask /\ repeats = 0 /\ repeats' = 0 /\ stage' = "round"
    BY DEF LoopInv, LoopTypeOK, RepeatsLeft, WarmUp
  <1>2. LoopTypeOK'
    BY <1>1, AskShape DEF LoopInv, LoopTypeOK, WarmUp, loopRanges, Number, Events, ValuesNum
  <1>3. RoundCounts' /\ RepeatsLeft'
    BY <1>1 DEF LoopInv, WarmUp, RoundCounts, RepeatsLeft
  <1>4. ResultsAreOfOneRound'
    BY <1>1 DEF ResultsAreOfOneRound
  <1> QED BY <1>2, <1>3, <1>4 DEF LoopInv

\* Results that are not written stay of one round while the ranges only grow.
LEMMA ResultsStay ==
  ASSUME LoopInv, ask \in Asked, ask' = ask, results' = results, repeats' = repeats,
         stage # "idle", ranges' \in Nat, ranges' >= ranges
  PROVE  ResultsAreOfOneRound'
  <1> SUFFICES ASSUME NEW r \in 0 .. repeats - 1, NEW e \in 1 .. ValuesNum
               PROVE  OfOneRound(results[Slot(r, e)], e)'
    BY DEF ResultsAreOfOneRound, ValuesNum, Slot
  <1>1. OfOneRound(results[Slot(r, e)], e)
    BY DEF LoopInv, ResultsAreOfOneRound
  <1>2. ranges' <= MaxRanges => ranges <= MaxRanges
    BY MeasureAssumption DEF LoopInv, LoopTypeOK, MeasureAssumption
  <1> QED BY <1>1, <1>2 DEF OfOneRound, ModeOf, Slot, ValuesNum

LEMMA StartRoundKept ==
  ASSUME LoopInv, StartRound
  PROVE  LoopInv'
  <1>1. /\ ask \in Asked /\ ask' = ask /\ stage = "round" /\ stage' = "started"
        /\ results' = results /\ repeats' = repeats /\ ranges' = ranges /\ calls' = calls
        /\ Events' = Events
    BY DEF LoopInv, LoopTypeOK, StartRound, loopCounters, Events
  <1>2. LoopTypeOK'
    <2>1. firstRange' \in Nat
      BY MeasureAssumption DEF LoopInv, LoopTypeOK, StartRound, Recorded, MeasureAssumption
    <2>2. began' \in [Events -> Nat] /\ values' \in [Events -> Int]
      BY <1>1 DEF LoopInv, LoopTypeOK, StartRound
    <2> QED BY <1>1, <2>1, <2>2 DEF LoopInv, LoopTypeOK, StartRound, loopCounters, ValuesNum
  <1>3. RoundCounts'
    BY <1>1 DEF StartRound, RoundCounts, ModeOf, Recorded
  <1>4. RepeatsLeft'
    BY <1>1 DEF LoopInv, RepeatsLeft
  <1>5. ResultsAreOfOneRound'
    BY <1>1, ResultsStay DEF LoopInv, LoopTypeOK
  <1> QED BY <1>2, <1>3, <1>4, <1>5 DEF LoopInv

LEMMA RunRoundKept ==
  ASSUME LoopInv, RunRound
  PROVE  LoopInv'
  <1>1. /\ ask \in Asked /\ ask' = ask /\ stage = "started" /\ stage' = "run"
        /\ results' = results /\ repeats' = repeats /\ attempts' = attempts
        /\ values' = values /\ began' = began /\ firstRange' = firstRange /\ Events' = Events
        /\ ranges' = ranges + attempts /\ calls' = calls + attempts
    BY DEF LoopInv, LoopTypeOK, RunRound, Events
  <1>2. attempts \in Nat \ {0} /\ ranges \in Nat /\ calls \in Nat
    BY DEF LoopInv, LoopTypeOK
  <1>3. elapsed' \in Nat
    <2>1. PICK pace \in Paces : elapsed' = attempts * pace
      BY DEF RunRound
    <2> QED BY <1>2, <2>1, MeasureAssumption DEF MeasureAssumption
  <1>4. LoopTypeOK'
    BY <1>1, <1>2, <1>3 DEF LoopInv, LoopTypeOK, RunRound, ValuesNum
  <1>5. RoundCounts'
    <2>1. ranges' <= MaxRanges => ranges' - firstRange' = attempts'
      BY <1>1, <1>2, MeasureAssumption DEF LoopInv, RoundCounts, Recorded, MeasureAssumption
    <2>2. \A e \in Events : ModeOf(e) = "perf" => calls' - began'[e] = attempts'
      BY <1>1, <1>2 DEF LoopInv, RoundCounts
    <2> QED BY <1>1, <2>1, <2>2 DEF LoopInv, RoundCounts, ModeOf
  <1>6. RepeatsLeft'
    BY <1>1 DEF LoopInv, RepeatsLeft
  <1>7. ResultsAreOfOneRound'
    BY <1>1, <1>2, ResultsStay
  <1> QED BY <1>4, <1>5, <1>6, <1>7 DEF LoopInv

\* The value written for an event is of the round that ends.
LEMMA MeasuredIsOfOneRound ==
  ASSUME LoopInv, ask \in Asked, stage = "run", elapsed >= ask.min, NEW e \in 1 .. ValuesNum
  PROVE  /\ Measured(e) \in ResultTypes
         /\ OfOneRound(Measured(e), e)
  <1>1. attempts \in Nat \ {0} /\ elapsed \in Nat /\ calls \in Nat /\ ranges \in Nat /\ firstRange \in Nat
    BY DEF LoopInv, LoopTypeOK
  <1>2. CASE ask.events = << >>
    <2>1. Measured(e) = Result("time", elapsed, attempts)
      BY <1>2 DEF Measured, Divisor
    <2> QED BY <1>1, <1>2, <2>1 DEF OfOneRound, Result, ResultTypes, EventNames
  <1>3. CASE ask.events # << >>
    <2>1. e \in Events /\ e \in DOMAIN ask.events
      BY <1>3, ValuesNumShape DEF Events
    <2>2. ask.events[e].name \in EventNames /\ ModeOf(e) \in {"perf", "gpu", "none"}
      BY <2>1, AskShape DEF ModeOf
    <2>3. CASE ModeOf(e) = "none"
      <3>1. Measured(e) = Result(ask.events[e].name, -1, 1)
        BY <1>3, <2>3 DEF Measured
      <3> QED BY <1>3, <2>2, <2>3, <3>1 DEF OfOneRound, Result, ResultTypes
    <2>4. CASE ModeOf(e) = "perf"
      <3>1. Measured(e) = Result(ask.events[e].name, values[e] + (calls - began[e]), attempts)
        BY <1>3, <2>4 DEF Measured, Divisor, Stopped
      <3>2. values[e] = 0 /\ calls - began[e] = attempts
        BY <2>1, <2>4 DEF LoopInv, RoundCounts
      <3>3. Measured(e) = Result(ask.events[e].name, attempts, attempts)
        BY <1>1, <3>1, <3>2
      <3> QED BY <1>1, <1>3, <2>2, <2>4, <3>3 DEF OfOneRound, Result, ResultTypes
    <2>5. CASE ModeOf(e) = "gpu"
      <3>1. Measured(e) = Result(ask.events[e].name, GpuSum, attempts)
        BY <1>3, <2>5 DEF Measured, Divisor, Stopped
      <3>2. GpuSum \in Int
        BY <1>1, MeasureAssumption DEF GpuSum, Recorded, MeasureAssumption
      <3>3. ranges <= MaxRanges => GpuSum = attempts
        BY <1>1, MeasureAssumption DEF LoopInv, RoundCounts, GpuSum, Recorded, MeasureAssumption
      <3> QED BY <1>1, <1>3, <2>2, <2>5, <3>1, <3>2, <3>3 DEF OfOneRound, Result, ResultTypes
    <2> QED BY <2>2, <2>3, <2>4, <2>5
  <1> QED BY <1>2, <1>3

\* Results written by a round that lasts long enough go to places of their own.
LEMMA ResultsWritten ==
  ASSUME LoopInv, LongEnough
  PROVE  /\ \A r \in 0 .. repeats, e \in 1 .. ValuesNum :
              results'[Slot(r, e)] = IF r = repeats THEN Measured(e) ELSE results[Slot(r, e)]
         /\ results' \in [1 .. ask.repeat * ValuesNum -> ResultTypes]
  <1> DEFINE V == ValuesNum
  <1>1. ask \in Asked /\ stage = "run" /\ elapsed >= ask.min
    BY DEF LoopInv, LoopTypeOK, LongEnough
  <1>2. V \in Nat \ {0} /\ ask.repeat \in Nat /\ repeats \in Nat /\ repeats < ask.repeat
    BY <1>1, ValuesNumShape, AskShape DEF LoopInv, LoopTypeOK, RepeatsLeft
  <1>3. \A e \in 1 .. V : Measured(e) \in ResultTypes
    BY <1>1, MeasuredIsOfOneRound
  <1>4. /\ results \in [1 .. ask.repeat * V -> ResultTypes]
        /\ results' = [i \in DOMAIN results |->
                        IF \E e \in 1 .. V : i = Slot(repeats, e)
                        THEN Measured(i - repeats * V) ELSE results[i]]
    BY <1>1 DEF LoopInv, LoopTypeOK, LongEnough
  <1>5. repeats * V \in Nat /\ \A e \in 1 .. V : Slot(repeats, e) - repeats * V = e
    BY <1>2 DEF Slot
  <1>6. \A e \in 1 .. V : Slot(repeats, e) \in DOMAIN results
    <2> SUFFICES ASSUME NEW e \in 1 .. V PROVE Slot(repeats, e) \in DOMAIN results
      OBVIOUS
    <2>1. repeats * V + e <= ask.repeat * V
      BY <1>2, SlotsApart
    <2>2. ask.repeat * V \in Nat
      BY <1>2
    <2> QED BY <1>4, <1>5, <2>1, <2>2 DEF Slot
  <1>7. results' \in [1 .. ask.repeat * V -> ResultTypes]
    <2>1. ASSUME NEW i \in DOMAIN results, NEW e \in 1 .. V, i = Slot(repeats, e)
          PROVE  Measured(i - repeats * V) \in ResultTypes
      BY <1>3, <1>5, <2>1
    <2> QED BY <1>4, <2>1
  <1>8. ASSUME NEW r \in 0 .. repeats, NEW e \in 1 .. V
        PROVE  results'[Slot(r, e)] = IF r = repeats THEN Measured(e) ELSE results[Slot(r, e)]
    <2>1. CASE r = repeats
      <3>1. results'[Slot(r, e)] = Measured(Slot(repeats, e) - repeats * V)
        BY <1>4, <1>6, <2>1
      <3> QED BY <1>5, <2>1, <3>1
    <2>2. CASE r # repeats
      <3>1. r \in Nat /\ r < repeats
        BY <1>2, <2>2
      <3>2. r * V + e <= repeats * V /\ repeats * V + 1 <= ask.repeat * V /\ r * V \in Nat
        BY <1>2, <3>1, SlotsApart
      <3>3. Slot(r, e) \in DOMAIN results
        <4>1. ask.repeat * V \in Nat
          BY <1>2
        <4> QED BY <1>4, <1>5, <3>2, <4>1 DEF Slot
      <3>4. \A f \in 1 .. V : Slot(r, e) # Slot(repeats, f)
        BY <1>2, <1>5, <3>2 DEF Slot
      <3> QED BY <1>4, <2>2, <3>3, <3>4
    <2> QED BY <2>1, <2>2
  <1> QED BY <1>7, <1>8

\* A round that lasts long enough ends a repeat.
LEMMA LongEnoughKept ==
  ASSUME LoopInv, LongEnough
  PROVE  LoopInv'
  <1> DEFINE V == ValuesNum
  <1>1. /\ ask \in Asked /\ ask' = ask /\ stage = "run" /\ elapsed >= ask.min
        /\ ranges' = ranges /\ Events' = Events /\ ValuesNum' = ValuesNum
        /\ stage' \in {"done", "round"}
        /\ stage' = "round" => repeats' # ask.repeat
        /\ repeats' = repeats + 1
    BY DEF LoopInv, LoopTypeOK, LongEnough, loopRanges, Events, ValuesNum
  <1>2. V \in Nat \ {0} /\ ask.repeat \in Nat /\ repeats \in Nat /\ repeats < ask.repeat
    BY <1>1, ValuesNumShape, AskShape DEF LoopInv, LoopTypeOK, RepeatsLeft
  <1>3. \A e \in 1 .. V : Measured(e) \in ResultTypes /\ OfOneRound(Measured(e), e)
    BY <1>1, MeasuredIsOfOneRound
  <1>7. results' \in [1 .. ask.repeat * V -> ResultTypes]
    BY ResultsWritten
  <1>8. values' \in [Events -> Int]
    <2>1. \A e \in Events : Stopped(e) \in Int
      BY <1>1, MeasureAssumption
        DEF LoopInv, LoopTypeOK, Stopped, GpuSum, Recorded, MeasureAssumption
    <2> QED BY <2>1 DEF LongEnough
  <1>9. LoopTypeOK'
    <2>1. attempts' \in Nat \ {0}
      BY <1>1, AskShape DEF LongEnough, Number
    <2>2. began' \in [Events -> Nat]
      BY <1>1 DEF LoopInv, LoopTypeOK, LongEnough
    <2> QED BY <1>1, <1>2, <1>7, <1>8, <2>1, <2>2 DEF LoopInv, LoopTypeOK, LongEnough, loopRanges
  <1>10. RoundCounts' /\ RepeatsLeft'
    <2>1. RoundCounts'
      BY <1>1 DEF RoundCounts
    <2>2. stage' = "round" => repeats' < ask'.repeat
      BY <1>1, <1>2
    <2> QED BY <1>1, <2>1, <2>2 DEF RepeatsLeft
  <1>11. ResultsAreOfOneRound'
    <2> SUFFICES ASSUME NEW r \in 0 .. repeats, NEW e \in 1 .. V
                 PROVE  OfOneRound(results[Slot(r, e)], e)'
      BY <1>1, <1>2 DEF ResultsAreOfOneRound, Slot
    <2>1. results'[Slot(r, e)] = IF r = repeats THEN Measured(e) ELSE results[Slot(r, e)]
      BY ResultsWritten
    <2>2. OfOneRound(IF r = repeats THEN Measured(e) ELSE results[Slot(r, e)], e)
      <3>1. r # repeats => r \in 0 .. repeats - 1
        BY <1>2
      <3> QED BY <1>1, <1>3, <3>1 DEF LoopInv, ResultsAreOfOneRound
    <2>3. OfOneRound(results'[Slot(r, e)], e)
      BY <2>1, <2>2
    <2> QED BY <1>1, <2>3 DEF OfOneRound, ModeOf, Slot
  <1> QED BY <1>9, <1>10, <1>11 DEF LoopInv

LEMMA TooShortKept ==
  ASSUME LoopInv, TooShort
  PROVE  LoopInv'
  <1>1. /\ ask \in Asked /\ ask' = ask /\ stage = "run" /\ stage' \in {"round", "overflowed"}
        /\ results' = results /\ repeats' = repeats /\ ranges' = ranges /\ Events' = Events
        /\ ValuesNum' = ValuesNum
    BY DEF LoopInv, LoopTypeOK, TooShort, loopRanges, Events, ValuesNum
  <1>2. values' \in [Events -> Int]
    <2>1. \A e \in Events : Stopped(e) \in Int
      BY <1>1, MeasureAssumption
        DEF LoopInv, LoopTypeOK, Stopped, GpuSum, Recorded, MeasureAssumption
    <2> QED BY <2>1 DEF TooShort
  <1>3. LoopTypeOK'
    <2>1. attempts' \in Nat \ {0}
      BY DEF LoopInv, LoopTypeOK, TooShort
    <2>2. began' \in [Events -> Nat]
      BY <1>1 DEF LoopInv, LoopTypeOK, TooShort
    <2> QED BY <1>1, <1>2, <2>1, <2>2 DEF LoopInv, LoopTypeOK, TooShort, loopRanges
  <1>4. RoundCounts' /\ RepeatsLeft'
    <2>1. RoundCounts'
      BY <1>1 DEF RoundCounts
    <2> QED BY <1>1, <2>1 DEF LoopInv, RepeatsLeft
  <1>5. ResultsAreOfOneRound'
    BY <1>1, ResultsStay DEF LoopInv, LoopTypeOK
  <1> QED BY <1>3, <1>4, <1>5 DEF LoopInv

LEMMA LoopReturnKept ==
  ASSUME LoopInv, LoopReturn
  PROVE  LoopInv'
  <1>1. LoopTypeOK'
    BY DEF LoopInv, LoopTypeOK, LoopReturn, loopRanges
  <1> QED BY <1>1 DEF LoopReturn, LoopInv, RoundCounts, RepeatsLeft, ResultsAreOfOneRound

LEMMA LoopInvNext == LoopInv /\ [LoopNext]_loopVars => LoopInv'
  <1> SUFFICES ASSUME LoopInv, [LoopNext]_loopVars PROVE LoopInv'
    OBVIOUS
  <1>1. CASE LoopStep
    BY <1>1, OpenEventsKept, WarmUpKept, StartRoundKept, RunRoundKept, LongEnoughKept, TooShortKept
      DEF LoopStep
  <1>2. CASE LoopReturn
    BY <1>2, LoopReturnKept
  <1>3. CASE \E q \in Asked : Call(q)
    BY <1>3, CallKept
  <1>4. CASE UNCHANGED loopVars
    BY <1>4 DEF loopVars, LoopInv, LoopTypeOK, RoundCounts, RepeatsLeft, ResultsAreOfOneRound,
      Events, ValuesNum, ModeOf, OfOneRound, Slot
  <1> QED BY <1>1, <1>2, <1>3, <1>4 DEF LoopNext

-----------------------------------------------------------------------------
(* The results are those asked for. *)

\* Results that are not written stay as asked.
LEMMA AskedStays ==
  ASSUME AskedInv, ask' = ask, results' = results, repeats' = repeats, stage # "idle"
  PROVE  ResultsAreAsAsked'
  BY DEF AskedInv, ResultsAreAsAsked, AsAsked, ValuesNum, Slot

LEMMA LongEnoughAsked ==
  ASSUME LoopInv, AskedInv, LongEnough
  PROVE  ResultsAreAsAsked'
  <1>1. /\ ask' = ask /\ repeats' = repeats + 1 /\ repeats \in Nat /\ stage = "run"
        /\ ValuesNum' = ValuesNum
    BY DEF LoopInv, LoopTypeOK, LongEnough, ValuesNum
  <1> SUFFICES ASSUME NEW r \in 0 .. repeats, NEW e \in 1 .. ValuesNum
               PROVE  AsAsked(results[Slot(r, e)], e)'
    BY <1>1 DEF ResultsAreAsAsked, Slot
  <1>2. AsAsked(IF r = repeats THEN Measured(e) ELSE results[Slot(r, e)], e)
    <2>1. CASE r # repeats
      <3>1. r \in 0 .. repeats - 1
        BY <1>1, <2>1
      <3> QED BY <1>1, <2>1, <3>1 DEF AskedInv, ResultsAreAsAsked
    <2>2. CASE r = repeats
      <3>1. CASE ask.events = << >>
        <4>1. PICK pace \in Paces : elapsed = attempts * pace
          BY <1>1 DEF AskedInv, RoundTime
        <4>2. attempts * pace = pace * attempts
          BY MeasureAssumption DEF LoopInv, LoopTypeOK
        <4>3. /\ Measured(e).event = "time" /\ Measured(e).num = elapsed
              /\ Measured(e).den = attempts
          BY <3>1 DEF Measured, Divisor, Result
        <4>4. Measured(e).event = "time" /\ \E p \in Paces : Measured(e).num = p * Measured(e).den
          BY <4>1, <4>2, <4>3
        <4> QED BY <2>2, <3>1, <4>4 DEF AsAsked
      <3>2. CASE ask.events # << >>
        BY <2>2, <3>2 DEF AsAsked, Measured, Result
      <3> QED BY <3>1, <3>2
    <2> QED BY <2>1, <2>2
  <1>3. results'[Slot(r, e)] = IF r = repeats THEN Measured(e) ELSE results[Slot(r, e)]
    BY ResultsWritten
  <1>4. AsAsked(results'[Slot(r, e)], e)
    BY <1>2, <1>3
  <1> QED BY <1>1, <1>4 DEF AsAsked, Slot

LEMMA AskedNext == LoopInv /\ AskedInv /\ [LoopNext]_loopVars => AskedInv'
  <1> SUFFICES ASSUME LoopInv, AskedInv, [LoopNext]_loopVars PROVE AskedInv'
    OBVIOUS
  <1>0. /\ repeats \in Nat /\ attempts \in Nat \ {0} /\ elapsed \in Nat /\ calls \in Nat
        /\ enabled \in Nat
    BY DEF LoopInv, LoopTypeOK
  <1>1. CASE OpenEvents
    <2>1. /\ ask' = ask /\ results' = results /\ repeats' = repeats /\ stage = "called"
          /\ stage' \in {"open", "thrown"}
      BY <1>1 DEF OpenEvents, loopCounters
    <2> QED BY <2>1, AskedStays DEF AskedInv, RepeatsDone, RoundTime, CallsAreRepeats
  <1>2. CASE WarmUp
    <2>1. /\ ask' = ask /\ results' = results /\ repeats' = repeats /\ stage = "open"
          /\ stage' = "round" /\ enabled' = calls' /\ attempts' = Number /\ repeats = 0
          /\ calls' \in Nat
      BY <1>0, <1>2 DEF WarmUp, LoopInv, RepeatsLeft
    <2>2. ask.number = 1 => attempts' = 1
      BY <2>1 DEF Number
    <2>3. calls' = enabled' + repeats'
      <3>1. PICK n \in Nat : calls' = n
        BY <2>1
      <3>2. repeats' = 0 /\ enabled' = n
        BY <2>1, <3>1
      <3> QED BY <3>1, <3>2
    <2>4. CallsAreRepeats'
      BY <2>1, <2>2, <2>3 DEF CallsAreRepeats
    <2> QED BY <2>1, <2>4, AskedStays DEF AskedInv, RepeatsDone, RoundTime
  <1>3. CASE StartRound
    <2>1. /\ ask' = ask /\ results' = results /\ UNCHANGED loopCounters /\ stage = "round"
          /\ stage' = "started"
      BY <1>3 DEF StartRound
    <2> QED BY <2>1, AskedStays DEF AskedInv, RepeatsDone, RoundTime, CallsAreRepeats, loopCounters
  <1>4. CASE RunRound
    <2>1. /\ ask' = ask /\ results' = results /\ repeats' = repeats /\ stage = "started"
          /\ stage' = "run" /\ calls' = calls + attempts /\ attempts' = attempts
          /\ enabled' = enabled /\ \E pace \in Paces : elapsed' = attempts * pace
      BY <1>4 DEF RunRound
    <2>2. CallsAreRepeats'
      BY <1>0, <2>1 DEF AskedInv, CallsAreRepeats
    <2> QED BY <2>1, <2>2, AskedStays DEF AskedInv, RepeatsDone, RoundTime
  <1>5. CASE LongEnough
    <2>1. /\ ask' = ask /\ stage = "run" /\ stage' \in {"done", "round"}
          /\ stage' = "done" => repeats' = ask.repeat
          /\ repeats' = repeats + 1 /\ attempts' = Number /\ calls' = calls
          /\ enabled' = enabled
      BY <1>5 DEF LongEnough
    <2>2. CallsAreRepeats'
      BY <1>0, <2>1 DEF AskedInv, CallsAreRepeats, Number
    <2> QED BY <1>5, <2>1, <2>2, LongEnoughAsked DEF AskedInv, RepeatsDone, RoundTime
  <1>6. CASE TooShort
    <2>1. /\ ask' = ask /\ results' = results /\ repeats' = repeats /\ stage = "run"
          /\ stage' \in {"round", "overflowed"} /\ elapsed < ask.min
      BY <1>6 DEF TooShort
    <2>2. ask.min # 0
      BY <1>0, <2>1
    <2>3. CallsAreRepeats'
      BY <2>1, <2>2 DEF CallsAreRepeats
    <2> QED BY <2>1, <2>3, AskedStays DEF AskedInv, RepeatsDone, RoundTime
  <1>7. CASE LoopReturn
    BY <1>7 DEF LoopReturn, AskedInv, RepeatsDone, RoundTime, ResultsAreAsAsked, CallsAreRepeats
  <1>8. CASE \E q \in Asked : Call(q)
    BY <1>8 DEF Call, AskedInv, RepeatsDone, RoundTime, ResultsAreAsAsked, CallsAreRepeats
  <1>9. CASE UNCHANGED loopVars
    BY <1>9 DEF loopVars, AskedInv, RepeatsDone, RoundTime, ResultsAreAsAsked, CallsAreRepeats,
      AsAsked, ValuesNum, Slot
  <1> QED BY <1>1, <1>2, <1>3, <1>4, <1>5, <1>6, <1>7, <1>8, <1>9 DEF LoopNext, LoopStep

LEMMA AskedInit == LoopInit => AskedInv
  BY DEF LoopInit, AskedInv, RepeatsDone, RoundTime, ResultsAreAsAsked, CallsAreRepeats

-----------------------------------------------------------------------------
\* The strengthened invariant holds in every state, for any calls and any times.
THEOREM LoopInvariant == LoopSpec => []LoopInv
  BY LoopInvInit, LoopInvNext, PTL DEF LoopSpec

\* evaluateN keeps its types; a result always has a divisor.
THEOREM LoopTypes == LoopSpec => []LoopTypeOK
  <1>1. LoopInv => LoopTypeOK
    BY DEF LoopInv
  <1> QED BY LoopInvariant, <1>1, PTL

\* Every result written is of one round: the counts of that round over its calls, whatever
\* rounds were too short before it, in a place that no other repeat or event writes.
THEOREM ResultsOfOneRound == LoopSpec => []ResultsAreOfOneRound
  <1>1. LoopInv => ResultsAreOfOneRound
    BY DEF LoopInv
  <1> QED BY LoopInvariant, <1>1, PTL

\* Every result written bears the name of its event, or is a time its round has taken, over
\* the calls of that round.
THEOREM ResultsAsAsked == LoopSpec => []ResultsAreAsAsked
  <1>1. LoopInit => LoopInv /\ AskedInv
    BY LoopInvInit, AskedInit
  <1>2. LoopInv /\ AskedInv /\ [LoopNext]_loopVars => (LoopInv /\ AskedInv)'
    BY LoopInvNext, AskedNext
  <1>3. AskedInv => ResultsAreAsAsked
    BY DEF AskedInv
  <1> QED BY <1>1, <1>2, <1>3, PTL DEF LoopSpec

-----------------------------------------------------------------------------
(* Evaluations. *)

Contents   == {"in", "good", "bad", "zero", "junk", "none"}
ArrayTypes == [role : {"in", "out"}, where : {"host", "device"}, session : Nat,
               host : Contents, dev : Contents]
ParamTypes == Nat \X Nat

Rests == {"idle", "returned", "raised"}
Steps == Rests \cup {"loading", "preparing", "pinning", "staging", "validating", "measuring",
                     "looping", "finishing", "copying"}

\* The types, of the arrays among them.
StateTypes ==
  /\ target \in Targets /\ built \in BOOLEAN /\ on \in BOOLEAN /\ session \in Nat
  /\ opened \in [Modules -> Nat] /\ kernels \subseteq Modules
  /\ made \in Nat /\ DOMAIN arrays \subseteq 1 .. made
  /\ arrays \in [DOMAIN arrays -> ArrayTypes]
  /\ caller \in [output : Contents, ndarrays : {<< >>} \cup ParamTypes]
  /\ step \in Steps /\ code \in {0, 1}

\* The caller's arrays are there, and none is left of earlier evaluations.
CallerOwns ==
  /\ ToSet(caller.ndarrays) \subseteq DOMAIN arrays
  /\ step \in Rests => DOMAIN arrays = ToSet(caller.ndarrays)

\* The arrays of an evaluation are of the present session, those of the caller of one there
\* has been.
ArraysAlive ==
  /\ \A a \in DOMAIN arrays : arrays[a].session <= session
  /\ \A a \in DOMAIN arrays \ ToSet(caller.ndarrays) : Alive(arrays[a])

\* A kernel that is registered has its library open, also after an evaluation that raised.
NothingStale == ArraysAlive /\ \A m \in kernels : opened[m] > 0

\* What is evaluated is one of the modules, and there are NDArrays where they are given.
RequestFits ==
  step \notin Rests =>
    /\ request \in [module : ModuleTypes, options : OptionTypes, ask : AskTypes,
                    params : {<< >>} \cup ParamTypes]
    /\ Module \in Modules
    /\ request.options.given = "ndarray" => caller.ndarrays # << >>

\* What an evaluation has taken, given where it is.
Loaded == {"preparing", "pinning", "validating", "measuring", "looping", "finishing"}
Having == {"pinning", "validating", "measuring", "looping", "finishing", "copying"}

Taken ==
  /\ step \notin Rests => held.arrays = ToSet(caller.ndarrays) /\ held.opened \in [Modules -> Nat]
  /\ step \notin Rests \cup {"loading"} => Ready
  /\ step \in {"loading", "staging"} => opened = held.opened /\ kernels = held.kernels
  /\ step \in Loaded =>
       /\ opened = IF target = "tvm" THEN held.opened
                   ELSE [held.opened EXCEPT ![Module] = @ + 1]
       /\ kernels = IF Accelerated THEN held.kernels \cup {Module} ELSE held.kernels
  /\ step \in {"loading", "staging", "preparing", "pinning"} => pinned = held.pinned
  /\ step = "preparing" => target # "tvm"
  /\ step = "staging" => target = "tvm"
  /\ step = "pinning" => target = "gpu"
  /\ step \in {"validating", "measuring", "looping", "finishing"} =>
       pinned = IF target = "gpu" THEN held.pinned \cup Pinnable ELSE held.pinned
  /\ step \in {"copying", "returned"} =>
       /\ opened = held.opened /\ kernels = held.kernels \ {Module}
       /\ pinned = held.pinned \ (IF target = "gpu" THEN Pinnable ELSE {})
  /\ step = "returned" => DOMAIN arrays = held.arrays

\* The tensors of an evaluation are those the caller gave, or tensors of its own: these are
\* where the payload looks for them, but for numpy parameters.
Given == request.options.given = "ndarray" /\ target # "tvm"
MadeAt == IF request.options.given = "numpy" /\ target # "tvm" THEN "host" ELSE Place

TensorsPlaced ==
  step \in Having =>
    /\ request.params \in ParamTypes /\ {Input, Output} \subseteq DOMAIN arrays
    /\ IF Given THEN request.params = caller.ndarrays
       ELSE \A a \in {Input, Output} : a \notin ToSet(caller.ndarrays) /\ arrays[a].where = MadeAt

IInv == StateTypes /\ CallerOwns /\ NothingStale /\ RequestFits /\ Taken /\ TensorsPlaced

-----------------------------------------------------------------------------
(* Arrays. *)

Kept(x, y) == x \in ArrayTypes /\ x.where = y.where /\ x.session = y.session

LEMMA SyncedKept == ASSUME NEW x \in ArrayTypes PROVE Kept(Synced(x), x) /\ Numpy(x) \in Contents
  BY DEF ArrayTypes, Kept, Synced, Numpy

LEMMA WrittenKept ==
  ASSUME NEW x \in ArrayTypes, NEW c \in {"good", "bad", "nothing", "junk"}
  PROVE  Kept(Written(x, c), x)
  BY DEF ArrayTypes, Kept, Written, Contents

LEMMA KeptItself == ASSUME NEW x \in ArrayTypes PROVE Kept(x, x)
  BY DEF Kept

LEMMA KeptTwice ==
  ASSUME NEW x, NEW y, NEW z, Kept(x, y), Kept(y, z)
  PROVE  Kept(x, z)
  BY DEF Kept

LEMMA ArrayType ==
  ASSUME session \in Nat, NEW role \in {"in", "out"}, NEW where \in {"host", "device"},
         NEW content \in Contents
  PROVE  /\ Array(role, where, content) \in ArrayTypes
         /\ Array(role, where, content).where = where
         /\ Array(role, where, content).session = session
  BY DEF Array, ArrayTypes, Contents

LEMMA Owned ==
  ASSUME caller \in [output : Contents, ndarrays : {<< >>} \cup ParamTypes]
  PROVE  /\ caller.ndarrays = << >> => ToSet(caller.ndarrays) = {}
         /\ caller.ndarrays # << >> =>
              /\ caller.ndarrays \in ParamTypes
              /\ caller.ndarrays[1] \in Nat /\ caller.ndarrays[2] \in Nat
              /\ ToSet(caller.ndarrays) = {caller.ndarrays[1], caller.ndarrays[2]}
<1>1. caller.ndarrays = << >> => ToSet(caller.ndarrays) = {}
  BY DEF ToSet
<1>2. ASSUME NEW i \in Nat, NEW j \in Nat
      PROVE  ToSet(<<i, j>>) = {i, j} /\ <<i, j>>[1] = i /\ <<i, j>>[2] = j
  BY DEF ToSet
<1>3. ASSUME caller.ndarrays # << >>
      PROVE  \E i, j \in Nat : caller.ndarrays = <<i, j>>
  BY <1>3 DEF ParamTypes
<1> QED
  BY <1>1, <1>2, <1>3 DEF ParamTypes

LEMMA Made ==
  ASSUME StateTypes, NEW x \in ArrayTypes, NEW y \in ArrayTypes, WithArrays(x, y)
  PROVE  /\ made + 1 \notin DOMAIN arrays /\ made + 2 \notin DOMAIN arrays
         /\ made' = made + 2 /\ made' \in Nat /\ DOMAIN arrays' \subseteq 1 .. made'
         /\ DOMAIN arrays' = DOMAIN arrays \cup {made + 1, made + 2}
         /\ arrays' \in [DOMAIN arrays' -> ArrayTypes]
         /\ arrays'[made + 1] = x /\ arrays'[made + 2] = y
         /\ \A a \in DOMAIN arrays : arrays'[a] = arrays[a]
<1>1. made \in Nat /\ DOMAIN arrays \subseteq 1 .. made /\ made' = made + 2
      /\ arrays \in [DOMAIN arrays -> ArrayTypes]
  BY DEF StateTypes, WithArrays
<1>2. made + 1 \notin DOMAIN arrays /\ made + 2 \notin DOMAIN arrays /\ made + 1 # made + 2
  BY <1>1
<1>3. arrays' = [a \in DOMAIN arrays \cup {made + 1, made + 2} |->
                  CASE a = made + 1 -> x [] a = made + 2 -> y [] OTHER -> arrays[a]]
  BY DEF WithArrays
<1>4. DOMAIN arrays' = DOMAIN arrays \cup {made + 1, made + 2}
  BY <1>3
<1>5. /\ arrays'[made + 1] = x /\ arrays'[made + 2] = y
      /\ \A a \in DOMAIN arrays : arrays'[a] = arrays[a]
  BY <1>2, <1>3
<1>6. arrays' \in [DOMAIN arrays' -> ArrayTypes]
  <2>1. \A a \in DOMAIN arrays' : arrays'[a] \in ArrayTypes
    BY <1>1, <1>4, <1>5
  <2> QED
    BY <1>3, <2>1
<1>7. made' \in Nat /\ DOMAIN arrays' \subseteq 1 .. made'
  BY <1>1, <1>4
<1> QED
  BY <1>1, <1>2, <1>4, <1>5, <1>6, <1>7

LEMMA LocalsDropped ==
  ASSUME StateTypes, CallerOwns
  PROVE  /\ DOMAIN WithoutLocals = ToSet(caller.ndarrays)
         /\ WithoutLocals \in [ToSet(caller.ndarrays) -> ArrayTypes]
         /\ \A a \in ToSet(caller.ndarrays) : WithoutLocals[a] = arrays[a]
  BY DEF WithoutLocals, Restrict, StateTypes, CallerOwns

\* Arrays change their contents, or those of the evaluation go.
LEMMA ArraysStay ==
  ASSUME IInv, UNCHANGED <<target, on, session, made>>, caller'.ndarrays = caller.ndarrays,
         DOMAIN arrays' \subseteq DOMAIN arrays, ToSet(caller.ndarrays) \subseteq DOMAIN arrays',
         arrays' = [a \in DOMAIN arrays' |-> arrays'[a]],
         \A a \in DOMAIN arrays' : Kept(arrays'[a], arrays[a]),
         step' \in Rests => DOMAIN arrays' = ToSet(caller.ndarrays)
  PROVE  /\ DOMAIN arrays' \subseteq 1 .. made' /\ arrays' \in [DOMAIN arrays' -> ArrayTypes]
         /\ CallerOwns' /\ ArraysAlive'
<1>1. DOMAIN arrays' \subseteq 1 .. made' /\ arrays' \in [DOMAIN arrays' -> ArrayTypes]
  BY DEF IInv, StateTypes, Kept
<1>2. CallerOwns'
  BY DEF CallerOwns
<1>3. ArraysAlive'
  BY DEF IInv, NothingStale, ArraysAlive, Alive, Kept
<1> QED
  BY <1>1, <1>2, <1>3

-----------------------------------------------------------------------------
(* Every step keeps the inductive invariant. *)

LEMMA InitInv == Init => IInv
<1> SUFFICES ASSUME Init PROVE IInv
  OBVIOUS
<1>1. DOMAIN arrays = {} /\ caller.ndarrays = << >> /\ arrays = [a \in {} |-> a]
  BY DEF Init
<1>2. StateTypes
  BY <1>1 DEF Init, StateTypes, Contents, Steps, Rests
<1>3. CallerOwns
  BY <1>1, <1>2, Owned DEF CallerOwns, StateTypes
<1>4. NothingStale
  BY <1>1 DEF Init, NothingStale, ArraysAlive
<1>5. RequestFits /\ Taken /\ TensorsPlaced
  BY DEF Init, RequestFits, Taken, TensorsPlaced, Rests, Loaded, Having
<1> QED
  BY <1>2, <1>3, <1>4, <1>5 DEF IInv

\* Waking the device ends no session that there has been.
LEMMA WokenTypes ==
  ASSUME StateTypes, NEW where, Woken(where) \/ UNCHANGED <<on, session>>
  PROVE  on' \in BOOLEAN /\ session' \in Nat /\ session <= session'
<1>1. CASE on' = TRUE /\ session' = session + 1
  BY <1>1 DEF StateTypes
<1>2. CASE UNCHANGED <<on, session>>
  BY <1>2 DEF StateTypes
<1> QED
  BY <1>1, <1>2 DEF Woken

LEMMA MakeArraysInv ==
  ASSUME IInv, NEW where \in {"host", "device"}, MakeArrays(where)
  PROVE  IInv'
<1> DEFINE x == Array("in", where, "in")
           z == Array("out", where, "junk")
           y == [z EXCEPT !.session = session']
<1>1. /\ caller.ndarrays = << >> /\ step \in Rests /\ step' = "idle" /\ WithArrays(x, y)
      /\ caller' = [caller EXCEPT !.ndarrays = <<made + 1, made + 2>>]
      /\ UNCHANGED <<target, built, opened, kernels, code>>
  BY DEF MakeArrays, Resting, Rests, libVars, callVars
<1>2. on' \in BOOLEAN /\ session' \in Nat /\ session <= session'
  BY WokenTypes DEF MakeArrays, IInv
<1>3. x \in ArrayTypes /\ x.session = session
  BY ArrayType DEF IInv, StateTypes, Contents
<1>4. y \in ArrayTypes /\ y.session = session'
  <2>1. z \in ArrayTypes
    BY ArrayType DEF IInv, StateTypes, Contents
  <2> HIDE DEF z
  <2> QED
    BY <1>2, <2>1 DEF ArrayTypes
<1> HIDE DEF x, y
<1>5. /\ made' \in Nat /\ DOMAIN arrays' \subseteq 1 .. made'
      /\ arrays' \in [DOMAIN arrays' -> ArrayTypes]
      /\ DOMAIN arrays' = DOMAIN arrays \cup {made + 1, made + 2}
      /\ arrays'[made + 1] = x /\ arrays'[made + 2] = y
  BY <1>1, <1>3, <1>4, Made DEF IInv
<1>6. DOMAIN arrays = {} /\ made \in Nat
  BY <1>1, Owned DEF IInv, StateTypes, CallerOwns
<1>7. /\ caller' \in [output : Contents, ndarrays : {<< >>} \cup ParamTypes]
      /\ caller'.ndarrays = <<made + 1, made + 2>>
  BY <1>1, <1>6 DEF IInv, StateTypes, ParamTypes
<1>8. StateTypes'
  BY <1>1, <1>2, <1>5, <1>7 DEF IInv, StateTypes, Steps, Rests
<1>9. ToSet(caller'.ndarrays) = DOMAIN arrays'
  <2>1. ToSet(<<made + 1, made + 2>>) = {made + 1, made + 2}
    BY DEF ToSet
  <2> QED
    BY <1>5, <1>6, <1>7, <2>1
<1>10. CallerOwns' /\ NothingStale'
  <2>1. \A a \in DOMAIN arrays' : arrays'[a].session <= session'
    BY <1>2, <1>3, <1>4, <1>5, <1>6 DEF IInv, StateTypes
  <2> QED
    BY <1>1, <1>9, <2>1 DEF IInv, CallerOwns, NothingStale, ArraysAlive
<1>11. RequestFits' /\ Taken' /\ TensorsPlaced'
  BY <1>1 DEF RequestFits, Taken, TensorsPlaced, Rests, Loaded, Having
<1> QED
  BY <1>8, <1>10, <1>11 DEF IInv

LEMMA DropArraysInv == IInv /\ DropArrays => IInv'
<1> SUFFICES ASSUME IInv, DropArrays PROVE IInv'
  OBVIOUS
<1>1. /\ step' = "idle" /\ caller' = [caller EXCEPT !.ndarrays = << >>]
      /\ DOMAIN arrays' = {} /\ arrays' = [a \in {} |-> a]
      /\ UNCHANGED <<target, built, opened, kernels, made, code>>
  BY DEF DropArrays, libVars, callVars
<1>2. caller' \in [output : Contents, ndarrays : {<< >>} \cup ParamTypes] /\ caller'.ndarrays = << >>
  BY <1>1 DEF IInv, StateTypes
<1>3. on' \in BOOLEAN /\ session' \in Nat
  BY WokenTypes DEF DropArrays, IInv
<1>4. StateTypes'
  BY <1>1, <1>2, <1>3 DEF IInv, StateTypes, Steps, Rests
<1>5. CallerOwns' /\ NothingStale'
  <2>1. ToSet(<< >>) = {}
    BY DEF ToSet
  <2> QED
    BY <1>1, <1>2, <2>1 DEF IInv, CallerOwns, NothingStale, ArraysAlive
<1>6. RequestFits' /\ Taken' /\ TensorsPlaced'
  BY <1>1 DEF RequestFits, Taken, TensorsPlaced, Rests, Loaded, Having
<1> QED
  BY <1>4, <1>5, <1>6 DEF IInv

\* Between two evaluations: the arrays are the caller's, and what changes of them is their
\* contents.
LEMMA RestingStep ==
  ASSUME IInv, step \in Rests, step' = "idle", UNCHANGED <<target, built, caller, made, code>>,
         on' \in BOOLEAN, session' \in Nat, session <= session',
         arrays' = [a \in DOMAIN arrays |-> arrays'[a]],
         \A a \in DOMAIN arrays : Kept(arrays'[a], arrays[a]),
         opened' \in [Modules -> Nat], kernels' \subseteq Modules, \A m \in kernels' : opened'[m] > 0
  PROVE  IInv'
<1>1. DOMAIN arrays' = DOMAIN arrays /\ DOMAIN arrays = ToSet(caller.ndarrays)
  BY DEF IInv, CallerOwns
<1>2. \A a \in DOMAIN arrays' : arrays'[a] \in ArrayTypes /\ arrays'[a].session = arrays[a].session
  BY <1>1 DEF Kept
<1>3. StateTypes'
  BY <1>1, <1>2 DEF IInv, StateTypes, Steps, Rests
<1>4. \A a \in DOMAIN arrays' : arrays'[a].session <= session'
  <2> SUFFICES ASSUME NEW a \in DOMAIN arrays' PROVE arrays'[a].session <= session'
    OBVIOUS
  <2>1. arrays[a].session <= session /\ arrays[a].session \in Nat /\ session \in Nat
    BY <1>1 DEF IInv, StateTypes, NothingStale, ArraysAlive, ArrayTypes
  <2> QED
    BY <1>2, <2>1
<1>5. CallerOwns' /\ NothingStale'
  BY <1>1, <1>4 DEF CallerOwns, NothingStale, ArraysAlive
<1>6. RequestFits' /\ Taken' /\ TensorsPlaced'
  BY DEF RequestFits, Taken, TensorsPlaced, Rests, Loaded, Having
<1> QED
  BY <1>3, <1>5, <1>6 DEF IInv

LEMMA ReadOutputInv == IInv /\ ReadOutput => IInv'
<1> SUFFICES ASSUME IInv, ReadOutput PROVE IInv'
  OBVIOUS
<1> DEFINE j == caller.ndarrays[2]
<1>1. /\ step \in Rests /\ step' = "idle" /\ caller.ndarrays # << >>
      /\ UNCHANGED <<target, built, caller, made, code, opened, kernels>>
      /\ arrays' = [arrays EXCEPT ![j] = Synced(@)]
  BY DEF ReadOutput, Resting, Rests, libVars, callVars
<1>2. on' \in BOOLEAN /\ session' \in Nat /\ session <= session'
  BY WokenTypes DEF ReadOutput, IInv
<1>3. \A a \in DOMAIN arrays : Kept(arrays'[a], arrays[a])
  <2> SUFFICES ASSUME NEW a \in DOMAIN arrays PROVE Kept(arrays'[a], arrays[a])
    OBVIOUS
  <2>1. arrays[a] \in ArrayTypes
    BY DEF IInv, StateTypes
  <2>2. arrays'[a] = arrays[a] \/ arrays'[a] = Synced(arrays[a])
    BY <1>1
  <2>3. Kept(Synced(arrays[a]), arrays[a])
    BY <2>1, SyncedKept
  <2> QED
    BY <2>1, <2>2, <2>3 DEF Kept
<1> QED
  BY <1>1, <1>2, <1>3, RestingStep DEF IInv, StateTypes, NothingStale

LEMMA DeinitDeviceInv == IInv /\ DeinitDevice => IInv'
<1> SUFFICES ASSUME IInv, DeinitDevice PROVE IInv'
  OBVIOUS
<1>1. /\ step' = "idle" /\ step \in Rests /\ kernels' = {}
      /\ opened' = [m \in Modules |-> IF m \in kernels THEN opened[m] - 1 ELSE opened[m]]
      /\ UNCHANGED <<target, built, session, caller, made, code>>
      /\ arrays' \in {arrays, Lost}
  BY DEF DeinitDevice, callVars, Resting, Rests
<1>2. opened' \in [Modules -> Nat]
  BY <1>1 DEF IInv, StateTypes, NothingStale
<1>3. on' \in BOOLEAN /\ session' \in Nat /\ session <= session'
  <2>1. on' = FALSE \/ on' = on
    BY DEF DeinitDevice
  <2>2. on' \in BOOLEAN
    BY <2>1, Zenon DEF IInv, StateTypes
  <2> QED
    BY <1>1, <2>2 DEF IInv, StateTypes
<1>4. \A a \in DOMAIN arrays : arrays[a] \in ArrayTypes
  BY DEF IInv, StateTypes
<1>5. /\ arrays' = [a \in DOMAIN arrays |-> arrays'[a]]
      /\ \A a \in DOMAIN arrays : Kept(arrays'[a], arrays[a])
  <2>1. CASE arrays' = arrays
    BY <1>4, <2>1, KeptItself DEF IInv, StateTypes
  <2>2. CASE arrays' = Lost
    BY <1>4, <2>2 DEF Lost, Kept, ArrayTypes, Contents
  <2> QED
    BY <1>1, <2>1, <2>2
<1> QED
  BY <1>1, <1>2, <1>3, <1>5, RestingStep

LEMMA EvaluateInv ==
  ASSUME IInv, NEW r \in Requests[target], Evaluate(r)
  PROVE  IInv'
<1>1. /\ step \in Rests /\ step' = "loading" /\ code' = 0
      /\ r.options.given = "ndarray" => caller.ndarrays # << >>
      /\ request' = [module |-> r.module, options |-> r.options, ask |-> r.ask, params |-> << >>]
      /\ held' = [opened |-> opened, kernels |-> kernels, pinned |-> pinned, arrays |-> DOMAIN arrays]
      /\ UNCHANGED <<target, built, on, session, opened, kernels, pinned, arrays, made, caller>>
  BY DEF Evaluate, Resting, Rests, devVars, libVars, dataVars
<1>2. r \in [module : ModuleTypes, options : OptionTypes, ask : AskTypes]
  BY EvaluationAssumption DEF IInv, StateTypes, Targets
<1>3. r.module \in Modules
  BY DEF IInv, StateTypes, Modules, Targets, Range
<1>4. StateTypes' /\ CallerOwns' /\ NothingStale'
  BY <1>1
  DEF IInv, StateTypes, CallerOwns, NothingStale, ArraysAlive, Alive, Steps, Rests
<1>5. RequestFits'
  <2>1. request' \in [module : ModuleTypes, options : OptionTypes, ask : AskTypes,
                      params : {<< >>} \cup ParamTypes]
    BY <1>1, <1>2
  <2> QED
    BY <1>1, <1>3, <2>1 DEF RequestFits, Module
<1>6. Taken' /\ TensorsPlaced'
  BY <1>1 DEF IInv, StateTypes, CallerOwns, Taken, TensorsPlaced, Rests, Loaded, Having
<1> QED
  BY <1>4, <1>5, <1>6 DEF IInv

\* An evaluation that raises leaves handles, registrations and device as they are.
LEMMA RaiseInv ==
  ASSUME IInv, Raise, UNCHANGED <<target, on, session, made, caller>>,
         opened' \in [Modules -> Nat], kernels' \subseteq Modules,
         \A m \in kernels' : opened'[m] > 0, built' \in BOOLEAN, code' \in {0, 1}
  PROVE  IInv'
<1>1. step' = "raised" /\ arrays' = WithoutLocals
  BY DEF Raise
<1>2. /\ DOMAIN arrays' = ToSet(caller.ndarrays)
      /\ arrays' \in [ToSet(caller.ndarrays) -> ArrayTypes]
      /\ \A a \in ToSet(caller.ndarrays) : arrays'[a] = arrays[a]
  BY <1>1, LocalsDropped DEF IInv
<1>3. /\ DOMAIN arrays' \subseteq 1 .. made' /\ arrays' \in [DOMAIN arrays' -> ArrayTypes]
      /\ CallerOwns' /\ ArraysAlive'
  <2>1. ToSet(caller.ndarrays) \subseteq DOMAIN arrays
    BY DEF IInv, CallerOwns
  <2>2. \A a \in DOMAIN arrays' : Kept(arrays'[a], arrays[a])
    BY <1>2 DEF Kept
  <2> QED
    BY <1>2, <2>1, <2>2, ArraysStay
<1>4. StateTypes' /\ NothingStale'
  BY <1>1, <1>3 DEF IInv, StateTypes, NothingStale, Steps, Rests
<1>5. RequestFits' /\ Taken' /\ TensorsPlaced'
  BY <1>1 DEF RequestFits, Taken, TensorsPlaced, Rests, Loaded, Having
<1> QED
  BY <1>3, <1>4, <1>5 DEF IInv

\* What is evaluated stays as asked.
LEMMA RequestStays ==
  ASSUME IInv, step \notin Rests, caller'.ndarrays = caller.ndarrays,
         request'.module = request.module, request'.options = request.options,
         request' \in [module : ModuleTypes, options : OptionTypes, ask : AskTypes,
                       params : {<< >>} \cup ParamTypes]
  PROVE  RequestFits'
  BY DEF IInv, RequestFits, Module

\* Steps that leave the arrays alone.
LEMMA DeviceStepsInv == IInv /\ (BuildRuntimeLib \/ InitDevice) => IInv'
<1> SUFFICES ASSUME IInv, BuildRuntimeLib \/ InitDevice PROVE IInv'
  OBVIOUS
<1>1. /\ step = "loading" /\ target = "mppa" /\ ~ on
      /\ UNCHANGED <<callVars, libVars, pinned, made, caller, code>>
  BY DEF BuildRuntimeLib, InitDevice, Ready, callVars, libVars
<1>2. /\ opened \in [Modules -> Nat] /\ kernels \subseteq Modules
      /\ \A m \in kernels : opened[m] > 0
  BY DEF IInv, StateTypes, NothingStale
<1>3. CASE Raise /\ UNCHANGED <<on, session>> /\ built' \in BOOLEAN
  BY <1>1, <1>2, <1>3, RaiseInv DEF libVars, callVars, IInv, StateTypes
<1>4. CASE /\ step' = step /\ arrays' = arrays /\ built' \in BOOLEAN
           /\ UNCHANGED <<on, session>> \/ (on' = TRUE /\ session' = session + 1)
  <2>1. /\ \A a \in DOMAIN arrays : arrays[a].session <= session'
        /\ \A a \in DOMAIN arrays \ ToSet(caller.ndarrays) : arrays[a].where # "device"
    <3>1. \A a \in DOMAIN arrays : arrays[a].session <= session /\ arrays[a].session \in Nat
      BY DEF IInv, StateTypes, NothingStale, ArraysAlive, ArrayTypes
    <3>2. session \in Nat /\ session' \in {session, session + 1}
      BY <1>4 DEF IInv, StateTypes
    <3> QED
      BY <1>1, <3>1, <3>2 DEF IInv, NothingStale, ArraysAlive, Alive
  <2>2. /\ UNCHANGED <<target, step, arrays, opened, kernels, made, caller, code>>
        /\ session' \in Nat /\ built' \in BOOLEAN
    BY <1>1, <1>4 DEF IInv, StateTypes, callVars, libVars
  <2>7. on' \in BOOLEAN
    BY <1>4, Zenon DEF IInv, StateTypes
  <2>4. StateTypes'
    BY <2>2, <2>7 DEF IInv, StateTypes
  <2>5. CallerOwns'
    BY <2>2 DEF IInv, CallerOwns
  <2>6. NothingStale'
    BY <2>1, <2>2 DEF IInv, NothingStale, ArraysAlive, Alive
  <2>3. RequestFits' /\ Taken' /\ TensorsPlaced'
    BY <1>1, <1>4
    DEF IInv, RequestFits, Taken, TensorsPlaced, Rests, Loaded, Having, Module, callVars, libVars
  <2> QED
    BY <2>3, <2>4, <2>5, <2>6 DEF IInv
<1> QED
  BY <1>3, <1>4 DEF BuildRuntimeLib, InitDevice, IInv, StateTypes

LEMMA LoadInv == IInv /\ Load => IInv'
<1> SUFFICES ASSUME IInv, Load PROVE IInv'
  OBVIOUS
<1>1. /\ step = "loading" /\ target # "tvm" /\ Ready
      /\ UNCHANGED <<target, request, held, built, on, session, pinned, made, caller, code>>
  BY DEF Load, callVars, devVars
<1>2. Module \in Modules /\ held.opened \in [Modules -> Nat]
  BY <1>1 DEF IInv, RequestFits, Taken, Rests
<1>3. /\ opened \in [Modules -> Nat] /\ kernels \subseteq Modules
      /\ \A m \in kernels : opened[m] > 0
  BY DEF IInv, StateTypes, NothingStale
<1>4. CASE Raise /\ UNCHANGED libVars
  BY <1>1, <1>3, <1>4, RaiseInv DEF IInv, StateTypes, libVars
<1>6. CASE Opened /\ Raise /\ UNCHANGED kernels
  <2>1. opened' \in [Modules -> Nat] /\ \A m \in kernels' : opened'[m] > 0
    BY <1>2, <1>3, <1>6 DEF Opened
  <2> QED
    BY <1>1, <1>3, <1>6, <2>1, RaiseInv DEF IInv, StateTypes
<1>5. CASE Opened /\ Registered /\ ((step' = "preparing" /\ UNCHANGED arrays) \/ Raise)
  <2>1. /\ opened' \in [Modules -> Nat] /\ kernels' \subseteq Modules
        /\ \A m \in kernels' : opened'[m] > 0
    BY <1>2, <1>3, <1>5 DEF Opened, Registered
  <2>2. CASE Raise
    BY <1>1, <2>1, <2>2, RaiseInv DEF IInv, StateTypes
  <2>3. CASE step' = "preparing" /\ UNCHANGED arrays
    <3>1. StateTypes' /\ CallerOwns' /\ NothingStale'
      BY <1>1, <2>1, <2>3
      DEF IInv, StateTypes, CallerOwns, NothingStale, ArraysAlive, Alive, Rests, Steps
    <3>2. RequestFits' /\ TensorsPlaced'
      BY <1>1, <2>3 DEF IInv, RequestFits, TensorsPlaced, Rests, Having, Module
    <3>3. opened = held.opened /\ kernels = held.kernels
      BY <1>1 DEF IInv, Taken
    <3>4. Taken'
      BY <1>1, <1>5, <2>3, <3>3
      DEF IInv, Taken, Rests, Loaded, Opened, Registered, Accelerated, Module, Ready
    <3> QED
      BY <3>1, <3>2, <3>4 DEF IInv
  <2> QED
    BY <1>5, <2>2, <2>3
<1> QED
  BY <1>4, <1>5, <1>6 DEF Load

\* The tensors made for an evaluation are where the payload looks for them.
LEMMA TensorsMade ==
  ASSUME IInv, step \in {"staging", "preparing"}, step' \in Having, Ready, ~ Given,
         NEW w \in {"host", "device"}, w = MadeAt, NEW content \in Contents,
         WithArrays(Array("in", w, "in"), Array("out", w, content)),
         request' = [request EXCEPT !.params = <<made + 1, made + 2>>],
         UNCHANGED <<target, on, session, caller>>
  PROVE  /\ made' \in Nat /\ DOMAIN arrays' \subseteq 1 .. made'
         /\ arrays' \in [DOMAIN arrays' -> ArrayTypes]
         /\ CallerOwns' /\ ArraysAlive'
         /\ RequestFits' /\ TensorsPlaced' /\ request'.module = request.module
<1> DEFINE x == Array("in", w, "in")
           y == Array("out", w, content)
<1>1. x \in ArrayTypes /\ x.where = w /\ x.session = session
  BY ArrayType DEF IInv, StateTypes, Contents
<1>2. y \in ArrayTypes /\ y.where = w /\ y.session = session
  BY ArrayType DEF IInv, StateTypes
<1>3. WithArrays(x, y)
  OBVIOUS
<1> HIDE DEF x, y
<1>4. /\ made' \in Nat /\ DOMAIN arrays' \subseteq 1 .. made'
      /\ arrays' \in [DOMAIN arrays' -> ArrayTypes]
      /\ DOMAIN arrays' = DOMAIN arrays \cup {made + 1, made + 2}
      /\ arrays'[made + 1] = x /\ arrays'[made + 2] = y
      /\ made + 1 \notin DOMAIN arrays /\ made + 2 \notin DOMAIN arrays
      /\ \A a \in DOMAIN arrays : arrays'[a] = arrays[a]
  BY <1>1, <1>2, <1>3, Made DEF IInv
<1>5. ToSet(caller.ndarrays) \subseteq DOMAIN arrays /\ step \notin Rests /\ step' \notin Rests
  BY DEF IInv, CallerOwns, Rests, Having
<1>6. CallerOwns'
  BY <1>4, <1>5 DEF CallerOwns
<1>7. ArraysAlive'
  <2>1. ASSUME NEW a \in DOMAIN arrays' PROVE arrays'[a].session <= session'
    <3>1. CASE a \in DOMAIN arrays
      BY <1>4, <3>1 DEF IInv, NothingStale, ArraysAlive
    <3>2. CASE a \in {made + 1, made + 2}
      BY <1>1, <1>2, <1>4, <3>2 DEF IInv, StateTypes
    <3> QED
      BY <1>4, <3>1, <3>2
  <2>2. ASSUME NEW a \in DOMAIN arrays' \ ToSet(caller.ndarrays) PROVE Alive(arrays[a])'
    <3>1. CASE a \in DOMAIN arrays
      BY <1>4, <2>2, <3>1 DEF IInv, NothingStale, ArraysAlive, Alive
    <3>2. CASE a \in {made + 1, made + 2}
      BY <1>1, <1>2, <1>4, <3>2 DEF Alive, Ready
    <3> QED
      BY <1>4, <3>1, <3>2
  <2> QED
    BY <2>1, <2>2 DEF ArraysAlive
<1>8. /\ request \in [module : ModuleTypes, options : OptionTypes, ask : AskTypes,
                      params : {<< >>} \cup ParamTypes]
      /\ made \in Nat
  BY <1>5 DEF IInv, RequestFits, StateTypes
<1>9. /\ request' \in [module : ModuleTypes, options : OptionTypes, ask : AskTypes,
                       params : {<< >>} \cup ParamTypes]
      /\ request'.module = request.module /\ request'.options = request.options
      /\ request'.params = <<made + 1, made + 2>> /\ request'.params \in ParamTypes
  BY <1>8 DEF ParamTypes
<1>10. RequestFits'
  BY <1>5, <1>9, RequestStays
<1>11. TensorsPlaced'
  <2>1. request'.params[1] = made + 1 /\ request'.params[2] = made + 2
    BY <1>9
  <2>2. ~ Given' /\ MadeAt' = w
    BY <1>9 DEF Given, MadeAt, Place, Module
  <2> QED
    BY <1>1, <1>2, <1>4, <1>5, <1>9, <2>1, <2>2 DEF TensorsPlaced, Input, Output
<1> QED
  BY <1>4, <1>6, <1>7, <1>9, <1>10, <1>11

\* What the steps before the measure take of libraries and buffers.
LEMMA ToMeasureStep == ToMeasure \in {"validating", "measuring"}
  BY DEF ToMeasure

LEMMA PrepareInv == IInv /\ Prepare => IInv'
<1> SUFFICES ASSUME IInv, Prepare PROVE IInv'
  OBVIOUS
<1>1. /\ step = "preparing"
      /\ UNCHANGED <<target, held, built, on, session, opened, kernels, pinned, caller, code>>
  BY DEF Prepare, devVars, libVars
<1>2. /\ opened \in [Modules -> Nat] /\ kernels \subseteq Modules
      /\ \A m \in kernels : opened[m] > 0
  BY DEF IInv, StateTypes, NothingStale
<1>3. CASE Raise /\ UNCHANGED <<request, made>>
  BY <1>1, <1>2, <1>3, RaiseInv DEF IInv, StateTypes
<1>4. CASE ~ (Raise /\ UNCHANGED <<request, made>>)
  <2>1. /\ target # "tvm" /\ Ready /\ step' = IF target = "gpu" THEN "pinning" ELSE ToMeasure
        /\ step' \in Having /\ step' \in Steps /\ step' \notin Rests
    BY <1>1, <1>4, ToMeasureStep DEF Prepare, IInv, Taken, Rests, Having, Steps
  <2>2. /\ request \in [module : ModuleTypes, options : OptionTypes, ask : AskTypes,
                        params : {<< >>} \cup ParamTypes]
        /\ request.options.given = "ndarray" => caller.ndarrays # << >>
        /\ request.module.where \in {"host", "device"}
    BY <1>1 DEF IInv, RequestFits, Rests, ModuleTypes
  <2>3. /\ made' \in Nat /\ DOMAIN arrays' \subseteq 1 .. made'
        /\ arrays' \in [DOMAIN arrays' -> ArrayTypes]
        /\ CallerOwns' /\ ArraysAlive'
        /\ RequestFits' /\ TensorsPlaced' /\ request'.module = request.module
    <3>1. CASE request.options.given = "none"
      <4>1. PICK content \in Fresh : WithArrays(Array("in", request.module.where, "in"),
                                                Array("out", request.module.where, content))
        BY <1>4, <3>1 DEF Prepare, Module
      <4>2. content \in Contents
        BY DEF Fresh, Contents
      <4>3. request' = [request EXCEPT !.params = <<made + 1, made + 2>>]
        BY <1>4, <3>1 DEF Prepare
      <4>4. ~ Given /\ request.module.where = MadeAt
        BY <2>1, <3>1 DEF Given, MadeAt, Place, Module
      <4> QED
        BY <1>1, <2>1, <2>2, <4>1, <4>2, <4>3, <4>4, TensorsMade
    <3>2. CASE request.options.given = "numpy"
      <4>1. WithArrays(Array("in", "host", "in"), Array("out", "host", caller.output))
        BY <1>4, <3>2 DEF Prepare
      <4>2. caller.output \in Contents
        BY DEF IInv, StateTypes
      <4>3. request' = [request EXCEPT !.params = <<made + 1, made + 2>>]
        BY <1>4, <3>2 DEF Prepare
      <4>4. ~ Given /\ "host" = MadeAt
        BY <2>1, <3>2 DEF Given, MadeAt
      <4> QED
        BY <1>1, <2>1, <4>1, <4>2, <4>3, <4>4, TensorsMade
    <3>3. CASE request.options.given = "ndarray"
      <4>1. /\ arrays' = arrays /\ made' = made
            /\ request' = [request EXCEPT !.params = caller.ndarrays]
        BY <1>4, <3>3 DEF Prepare
      <4>2. /\ caller.ndarrays \in ParamTypes
            /\ ToSet(caller.ndarrays) = {caller.ndarrays[1], caller.ndarrays[2]}
        BY <2>2, <3>3, Owned DEF IInv, StateTypes
      <4>3. /\ request' \in [module : ModuleTypes, options : OptionTypes, ask : AskTypes,
                             params : {<< >>} \cup ParamTypes]
            /\ request'.module = request.module /\ request'.options = request.options
            /\ request'.params = caller.ndarrays
        BY <2>2, <4>1, <4>2
      <4>4. ToSet(caller.ndarrays) \subseteq DOMAIN arrays
        BY DEF IInv, CallerOwns
      <4>5. RequestFits'
        BY <1>1, <4>3, RequestStays DEF Rests
      <4>6. TensorsPlaced'
        BY <1>1, <2>1, <3>3, <4>1, <4>2, <4>3, <4>4 DEF TensorsPlaced, Input, Output, Given
      <4>7. CallerOwns' /\ ArraysAlive'
        BY <1>1, <2>1, <4>1 DEF IInv, CallerOwns, NothingStale, ArraysAlive, Alive
      <4> QED
        BY <4>1, <4>3, <4>5, <4>6, <4>7 DEF IInv, StateTypes
    <3> QED
      BY <2>2, <3>1, <3>2, <3>3 DEF OptionTypes
  <2>4. StateTypes' /\ NothingStale'
    BY <1>1, <1>2, <2>1, <2>3 DEF IInv, StateTypes, NothingStale
  <2>5. Taken'
    BY <1>1, <2>1, <2>3, ToMeasureStep
    DEF IInv, Taken, Rests, Loaded, Having, Module, Ready, Accelerated
  <2> QED
    BY <2>3, <2>4, <2>5 DEF IInv
<1> QED
  BY <1>3, <1>4

\* Reading the caller's NDArrays changes their contents at most.
LEMMA TvmReadInv == IInv /\ TvmRead => IInv'
<1> SUFFICES ASSUME IInv, TvmRead PROVE IInv'
  OBVIOUS
<1>1. /\ step = "loading" /\ target = "tvm"
      /\ UNCHANGED <<target, request, held, built, on, session, opened, kernels, pinned, made,
                     caller, code>>
  BY DEF TvmRead, callVars, devVars, libVars
<1>2. CASE Raise
  BY <1>1, <1>2, RaiseInv DEF IInv, StateTypes, NothingStale
<1>3. CASE /\ arrays' = [a \in DOMAIN arrays |->
                          IF request.options.given = "ndarray" THEN Synced(arrays[a]) ELSE arrays[a]]
           /\ step' = "staging"
  <2>1. \A a \in DOMAIN arrays : Kept(arrays'[a], arrays[a])
    BY <1>3, SyncedKept, KeptItself DEF IInv, StateTypes
  <2>2. /\ DOMAIN arrays' \subseteq 1 .. made' /\ arrays' \in [DOMAIN arrays' -> ArrayTypes]
        /\ CallerOwns' /\ ArraysAlive'
    <3>1. DOMAIN arrays' = DOMAIN arrays /\ arrays' = [a \in DOMAIN arrays' |-> arrays'[a]]
      BY <1>3
    <3>2. ToSet(caller.ndarrays) \subseteq DOMAIN arrays /\ step' \notin Rests
      BY <1>3 DEF IInv, CallerOwns, Rests
    <3> QED
      BY <1>1, <2>1, <3>1, <3>2, ArraysStay
  <2>3. StateTypes' /\ NothingStale'
    BY <1>1, <1>3, <2>2 DEF IInv, StateTypes, NothingStale, Steps
  <2>4. RequestFits' /\ TensorsPlaced'
    BY <1>1, <1>3 DEF IInv, RequestFits, TensorsPlaced, Rests, Having, Module
  <2>5. Taken'
    BY <1>1, <1>3 DEF IInv, Taken, Rests, Loaded, Ready
  <2> QED
    BY <2>2, <2>3, <2>4, <2>5 DEF IInv
<1> QED
  BY <1>2, <1>3 DEF TvmRead

LEMMA TvmStageInv == IInv /\ TvmStage => IInv'
<1> SUFFICES ASSUME IInv, TvmStage PROVE IInv'
  OBVIOUS
<1>1. /\ step = "staging" /\ target = "tvm"
      /\ UNCHANGED <<target, held, built, on, session, opened, kernels, pinned, caller, code>>
  BY DEF TvmStage, devVars, libVars, IInv, Taken
<1>2. /\ opened \in [Modules -> Nat] /\ kernels \subseteq Modules
      /\ \A m \in kernels : opened[m] > 0
  BY DEF IInv, StateTypes, NothingStale
<1>3. CASE Raise /\ UNCHANGED <<request, made>>
  BY <1>1, <1>2, <1>3, RaiseInv DEF IInv, StateTypes
<1>4. CASE ~ (Raise /\ UNCHANGED <<request, made>>)
  <2>1. /\ step' \in {"validating", "measuring"} /\ step' \in Having /\ step' \in Steps
        /\ request' = [request EXCEPT !.params = <<made + 1, made + 2>>] /\ Ready
        /\ ~ Given /\ "device" = MadeAt
    BY <1>1, <1>4, ToMeasureStep DEF TvmStage, Having, Steps, Ready, Given, MadeAt, Place
  <2>2. PICK content \in {"junk", "good"} : WithArrays(Array("in", "device", "in"),
                                                       Array("out", "device", content))
    BY <1>4 DEF TvmStage
  <2>3. /\ made' \in Nat /\ DOMAIN arrays' \subseteq 1 .. made'
        /\ arrays' \in [DOMAIN arrays' -> ArrayTypes]
        /\ CallerOwns' /\ ArraysAlive'
        /\ RequestFits' /\ TensorsPlaced' /\ request'.module = request.module
    BY <1>1, <2>1, <2>2, TensorsMade DEF Contents
  <2>4. StateTypes' /\ NothingStale'
    BY <1>1, <1>2, <2>1, <2>3 DEF IInv, StateTypes, NothingStale
  <2>5. Taken'
    BY <1>1, <2>1, <2>3 DEF IInv, Taken, Rests, Loaded, Module, Ready, Accelerated
  <2> QED
    BY <2>3, <2>4, <2>5 DEF IInv
<1> QED
  BY <1>3, <1>4

LEMMA PinInv == IInv /\ Pin => IInv'
<1> SUFFICES ASSUME IInv, Pin PROVE IInv'
  OBVIOUS
<1>1. /\ step = "pinning" /\ pinned' = pinned \cup Pinnable
      /\ step' \in {"validating", "measuring"}
      /\ UNCHANGED <<target, request, held, built, on, session, opened, kernels, arrays, made,
                     caller, code>>
  BY ToMeasureStep DEF Pin, callVars, devVars, libVars
<1>2. StateTypes' /\ CallerOwns' /\ NothingStale'
  BY <1>1 DEF IInv, StateTypes, CallerOwns, NothingStale, ArraysAlive, Alive, Rests, Steps
<1>3. RequestFits' /\ TensorsPlaced'
  BY <1>1
  DEF IInv, RequestFits, TensorsPlaced, Rests, Having, Module, Input, Output, Given, MadeAt, Place
<1>4. Taken'
  BY <1>1 DEF IInv, Taken, Rests, Loaded, Module, Ready, Accelerated, Pinnable, Input, Output
<1> QED
  BY <1>2, <1>3, <1>4 DEF IInv

\* Steps that call the payload or measure: arrays change their contents at most.
LEMMA ContentsInv ==
  ASSUME IInv, step \in {"validating", "measuring", "looping"},
         step' \in {"validating", "measuring", "looping", "finishing"},
         UNCHANGED <<target, request, held, built, on, session, opened, kernels, pinned, made,
                     caller>>,
         code' \in {0, 1}, arrays' = [a \in DOMAIN arrays |-> arrays'[a]],
         \A a \in DOMAIN arrays : Kept(arrays'[a], arrays[a])
  PROVE  IInv'
<1>1. DOMAIN arrays' = DOMAIN arrays /\ step \notin Rests /\ step' \notin Rests
  BY DEF Rests
<1>2. ToSet(caller.ndarrays) \subseteq DOMAIN arrays
  BY DEF IInv, CallerOwns
<1>3. /\ DOMAIN arrays' \subseteq 1 .. made' /\ arrays' \in [DOMAIN arrays' -> ArrayTypes]
      /\ CallerOwns' /\ ArraysAlive'
  BY <1>1, <1>2, ArraysStay
<1>4. StateTypes' /\ NothingStale'
  BY <1>3 DEF IInv, StateTypes, NothingStale, Steps
<1>5. RequestFits'
  BY <1>1, RequestStays DEF IInv, RequestFits
<1>6. TensorsPlaced'
  BY <1>1
  DEF IInv, TensorsPlaced, Having, Module, Input, Output, Kept, Given, MadeAt, Place
<1>7. Taken'
  BY <1>1 DEF IInv, Taken, Rests, Loaded, Module, Ready, Accelerated, Pinnable, Input, Output
<1> QED
  BY <1>3, <1>4, <1>5, <1>6, <1>7 DEF IInv

\* What a call leaves in the output is where the output was, and what the payload writes if
\* its tensors are where it looks for them.
LEMMA PayloadWrites ==
  ASSUME IInv, step \in Having
  PROVE  /\ Payload \in {"good", "bad", "nothing"}
         /\ Input \in DOMAIN arrays /\ Output \in DOMAIN arrays
         /\ \A a \in DOMAIN arrays : arrays[a] \in ArrayTypes
         /\ \A out \in Called : Kept(out, arrays[Output])
         /\ Reached => Called = {Written(arrays[Output], Payload)}
         /\ Written(arrays[Output], Payload) \in Called
<1>1. Input \in DOMAIN arrays /\ Output \in DOMAIN arrays
  BY DEF IInv, TensorsPlaced
<1>2. \A a \in DOMAIN arrays : arrays[a] \in ArrayTypes
  BY DEF IInv, StateTypes
<1>3. Payload \in {"good", "bad", "nothing"}
  BY DEF IInv, RequestFits, Payload, ModuleTypes, Having, Rests
<1>4. \A content \in {Payload, "nothing", "junk"} :
        Kept(Written(arrays[Output], content), arrays[Output])
  BY <1>1, <1>2, <1>3, WrittenKept
<1>5. Called \subseteq {Written(arrays[Output], content) : content \in {Payload, "nothing", "junk"}}
  BY DEF Called
<1> QED
  BY <1>1, <1>2, <1>3, <1>4, <1>5 DEF Called

LEMMA OutputWritten ==
  ASSUME IInv, step \in Having, NEW out \in Called, arrays' = [arrays EXCEPT ![Output] = out]
  PROVE  /\ arrays' = [a \in DOMAIN arrays |-> arrays'[a]]
         /\ \A a \in DOMAIN arrays : Kept(arrays'[a], arrays[a])
<1>1. arrays' = [a \in DOMAIN arrays |-> arrays'[a]]
  OBVIOUS
<1>2. ASSUME NEW a \in DOMAIN arrays PROVE Kept(arrays'[a], arrays[a])
  <2>1. a = Output => arrays'[a] = out
    BY PayloadWrites
  <2>2. a # Output => arrays'[a] = arrays[a]
    OBVIOUS
  <2> QED
    BY <2>1, <2>2, PayloadWrites, KeptItself
<1> QED
  BY <1>1, <1>2

LEMMA ValidateKept ==
  ASSUME IInv, step = "validating", NEW out \in Called,
         arrays' = [arrays EXCEPT ![Input] = Synced(@), ![Output] = Synced(out)]
  PROVE  /\ arrays' = [a \in DOMAIN arrays |-> arrays'[a]]
         /\ \A a \in DOMAIN arrays : Kept(arrays'[a], arrays[a])
<1>1. /\ Input \in DOMAIN arrays /\ Output \in DOMAIN arrays
      /\ \A a \in DOMAIN arrays : arrays[a] \in ArrayTypes
      /\ Kept(out, arrays[Output])
  BY PayloadWrites DEF Having
<1>2. Kept(Synced(out), arrays[Output])
  <2>1. out \in ArrayTypes
    BY <1>1 DEF Kept
  <2> QED
    BY <1>1, <2>1, SyncedKept, KeptTwice
<1>3. Kept(Synced(arrays[Input]), arrays[Input])
  BY <1>1, SyncedKept
<1>4. /\ arrays' = [a \in DOMAIN arrays |-> arrays'[a]]
      /\ arrays'[Output] = Synced(out)
      /\ Input # Output => arrays'[Input] = Synced(arrays[Input])
      /\ \A a \in DOMAIN arrays \ {Input, Output} : arrays'[a] = arrays[a]
  BY <1>1
<1> QED
  BY <1>1, <1>2, <1>3, <1>4, KeptItself

LEMMA ValidateInv == IInv /\ Validate => IInv'
<1> SUFFICES ASSUME IInv, Validate PROVE IInv'
  OBVIOUS
<1>1. /\ step = "validating"
      /\ UNCHANGED <<target, request, held, built, on, session, opened, kernels, pinned, made,
                     caller>>
  BY DEF Validate, callVars, devVars, libVars
<1>2. CASE Raise /\ code' = code
  BY <1>1, <1>2, RaiseInv DEF IInv, StateTypes, NothingStale
<1>3. ASSUME NEW out \in Called,
             arrays' = [arrays EXCEPT ![Input] = Synced(@), ![Output] = Synced(out)],
             code' \in {0, 1}, step' \in {"measuring", "finishing"}
      PROVE  IInv'
  <2>1. /\ arrays' = [a \in DOMAIN arrays |-> arrays'[a]]
        /\ \A a \in DOMAIN arrays : Kept(arrays'[a], arrays[a])
    BY <1>1, <1>3, ValidateKept
  <2> QED
    BY <1>1, <1>3, <2>1, ContentsInv
<1> QED
  BY <1>2, <1>3 DEF Validate

LEMMA MeasuresKept ==
  ASSUME IInv, Measure \/ Looping \/ EndMeasure \/ TvmMeasure
  PROVE  /\ arrays' = [a \in DOMAIN arrays |-> arrays'[a]]
         /\ \A a \in DOMAIN arrays : Kept(arrays'[a], arrays[a])
<1>1. step \in {"measuring", "looping"}
  BY DEF Measure, Looping, EndMeasure, TvmMeasure
<1>2. arrays' = arrays \/ \E out \in Called : arrays' = [arrays EXCEPT ![Output] = out]
  <2>1. CASE TvmMeasure
    <3>1. arrays' = [arrays EXCEPT ![Output] = Written(arrays[Output], Payload)]
      BY <2>1 DEF TvmMeasure
    <3>2. Written(arrays[Output], Payload) \in Called
      BY <1>1, PayloadWrites DEF Having
    <3> QED
      BY <3>1, <3>2
  <2> QED
    BY <2>1 DEF Measure, Looping, EndMeasure, dataVars
<1>3. CASE arrays' = arrays
  BY <1>3, KeptItself DEF IInv, StateTypes
<1> QED
  BY <1>1, <1>2, <1>3, OutputWritten DEF Having

LEMMA MeasuresInv == IInv /\ (Measure \/ Looping \/ EndMeasure \/ TvmMeasure) => IInv'
<1> SUFFICES ASSUME IInv, Measure \/ Looping \/ EndMeasure \/ TvmMeasure PROVE IInv'
  OBVIOUS
<1>1. /\ step \in {"measuring", "looping"} /\ step' \in {"looping", "finishing"}
      /\ UNCHANGED <<target, request, held, built, on, session, opened, kernels, pinned, made,
                     caller, code>>
  BY DEF Measure, Looping, EndMeasure, TvmMeasure, callVars, devVars, libVars, dataVars
<1> QED
  BY <1>1, MeasuresKept, ContentsInv DEF IInv, StateTypes

\* What was taken last is given back first, and no more than was taken.
LEMMA UnloadInv == IInv /\ Unload => IInv'
<1> SUFFICES ASSUME IInv, Unload PROVE IInv'
  OBVIOUS
<1>1. /\ step = "finishing" /\ step' = "copying" /\ pinned' = Unregistered
      /\ opened' = Closed /\ kernels' = kernels \ {Module}
      /\ UNCHANGED <<target, request, held, built, on, session, arrays, made, caller, code>>
  BY DEF Unload, callVars, devVars
<1>2. /\ held.opened \in [Modules -> Nat] /\ Module \in Modules /\ Ready
      /\ opened = IF target = "tvm" THEN held.opened ELSE [held.opened EXCEPT ![Module] = @ + 1]
      /\ kernels = IF Accelerated THEN held.kernels \cup {Module} ELSE held.kernels
      /\ pinned = IF target = "gpu" THEN held.pinned \cup Pinnable ELSE held.pinned
  BY <1>1 DEF IInv, Taken, RequestFits, Rests, Loaded
<1>3. opened' = held.opened
  BY <1>1, <1>2 DEF Closed
<1>4. kernels' = held.kernels \ {Module}
  BY <1>1, <1>2
<1>5. pinned' = held.pinned \ (IF target = "gpu" THEN Pinnable ELSE {})
  BY <1>1, <1>2 DEF Unregistered
<1>6. \A m \in kernels' : opened'[m] > 0
  <2>1. \A m \in kernels : m \in Modules /\ opened[m] > 0
    BY DEF IInv, StateTypes, NothingStale
  <2> QED
    BY <1>1, <1>2, <1>3, <2>1
<1>7. StateTypes' /\ CallerOwns' /\ NothingStale'
  BY <1>1, <1>2, <1>3, <1>6
  DEF IInv, StateTypes, CallerOwns, NothingStale, ArraysAlive, Alive, Rests, Steps
<1>8. RequestFits' /\ TensorsPlaced'
  BY <1>1
  DEF IInv, RequestFits, TensorsPlaced, Rests, Having, Module, Input, Output, Given, MadeAt, Place
<1>9. Taken'
  BY <1>1, <1>2, <1>3, <1>4, <1>5
  DEF IInv, Taken, Rests, Loaded, Module, Ready, Pinnable, Input, Output
<1> QED
  BY <1>7, <1>8, <1>9 DEF IInv

LEMMA ReturnKept ==
  ASSUME IInv, step = "copying", arrays' = WrittenBack
  PROVE  /\ DOMAIN arrays' = ToSet(caller.ndarrays)
         /\ arrays' = [a \in DOMAIN arrays' |-> arrays'[a]]
         /\ \A a \in DOMAIN arrays' : Kept(arrays'[a], arrays[a])
<1>1. /\ Output \in DOMAIN arrays /\ arrays[Output] \in ArrayTypes
      /\ Numpy(arrays[Output]) \in Contents
  BY PayloadWrites, SyncedKept DEF Having
<1>2. /\ DOMAIN WithoutLocals = ToSet(caller.ndarrays)
      /\ WithoutLocals \in [ToSet(caller.ndarrays) -> ArrayTypes]
      /\ \A a \in ToSet(caller.ndarrays) : WithoutLocals[a] = arrays[a]
  BY LocalsDropped DEF IInv
<1>3. CASE arrays' = WithoutLocals
  BY <1>2, <1>3 DEF Kept
<1>4. CASE arrays' = [WithoutLocals EXCEPT ![caller.ndarrays[2]].host = Numpy(arrays[Output])]
  <2> DEFINE v == Numpy(arrays[Output])
  <2>1. DOMAIN arrays' = ToSet(caller.ndarrays) /\ arrays' = [a \in DOMAIN arrays' |-> arrays'[a]]
    BY <1>2, <1>4
  <2>2. ASSUME NEW a \in ToSet(caller.ndarrays) PROVE Kept(arrays'[a], arrays[a])
    <3>1. arrays[a] \in ArrayTypes /\ v \in Contents
      BY <1>1, <1>2
    <3>2. arrays'[a] = arrays[a] \/ arrays'[a] = [arrays[a] EXCEPT !.host = v]
      BY <1>2, <1>4
    <3> HIDE DEF v
    <3> QED
      BY <3>1, <3>2 DEF Kept, ArrayTypes
  <2> QED
    BY <2>1, <2>2
<1> QED
  BY <1>3, <1>4 DEF WrittenBack

LEMMA ReturnInv == IInv /\ Return => IInv'
<1> SUFFICES ASSUME IInv, Return PROVE IInv'
  OBVIOUS
<1>1. /\ step = "copying" /\ step' = "returned" /\ arrays' = WrittenBack
      /\ UNCHANGED <<target, request, held, built, on, session, opened, kernels, pinned, made,
                     code>>
  BY DEF Return, callVars, devVars, libVars
<1>2. /\ Output \in DOMAIN arrays /\ arrays[Output] \in ArrayTypes
      /\ Numpy(arrays[Output]) \in Contents
  BY <1>1, PayloadWrites, SyncedKept DEF Having
<1>3. /\ caller' \in [output : Contents, ndarrays : {<< >>} \cup ParamTypes]
      /\ caller'.ndarrays = caller.ndarrays
  BY <1>2 DEF Return, IInv, StateTypes
<1>5. /\ DOMAIN arrays' = ToSet(caller.ndarrays)
      /\ arrays' = [a \in DOMAIN arrays' |-> arrays'[a]]
      /\ \A a \in DOMAIN arrays' : Kept(arrays'[a], arrays[a])
  BY <1>1, ReturnKept
<1>6. ToSet(caller.ndarrays) \subseteq DOMAIN arrays /\ step' \in Rests
  BY <1>1 DEF IInv, CallerOwns, Rests
<1>7. /\ DOMAIN arrays' \subseteq 1 .. made' /\ arrays' \in [DOMAIN arrays' -> ArrayTypes]
      /\ CallerOwns' /\ ArraysAlive'
  BY <1>1, <1>3, <1>5, <1>6, ArraysStay
<1>8. StateTypes' /\ NothingStale'
  BY <1>1, <1>3, <1>7 DEF IInv, StateTypes, NothingStale, Rests, Steps
<1>9. RequestFits' /\ TensorsPlaced'
  BY <1>1 DEF RequestFits, TensorsPlaced, Rests, Having
<1>10. Taken'
  <2>1. held.arrays = ToSet(caller.ndarrays)
    BY <1>1 DEF IInv, Taken, Rests
  <2> QED
    BY <1>1, <1>5, <2>1 DEF IInv, Taken, Rests, Loaded, Module, Pinnable, Input, Output
<1> QED
  BY <1>7, <1>8, <1>9, <1>10 DEF IInv

LEMMA NextInv == IInv /\ [Next]_vars => IInv'
<1> SUFFICES ASSUME IInv, [Next]_vars PROVE IInv'
  OBVIOUS
<1>1. CASE UNCHANGED vars
  <2>1. UNCHANGED <<target, devVars, libVars, dataVars, step, request, code, held>>
    BY <1>1 DEF vars
  <2>2. StateTypes' /\ CallerOwns' /\ NothingStale'
    BY <2>1
    DEF IInv, StateTypes, CallerOwns, NothingStale, ArraysAlive, Alive, devVars, libVars, dataVars
  <2>3. RequestFits' /\ TensorsPlaced'
    BY <2>1
    DEF IInv, RequestFits, TensorsPlaced, Module, Input, Output, Given, MadeAt, Place, dataVars
  <2>4. Taken'
    BY <2>1
    DEF IInv, Taken, Module, Ready, Accelerated, Pinnable, Input, Output, devVars, libVars, dataVars
  <2> QED
    BY <2>2, <2>3, <2>4 DEF IInv
<1>2. ASSUME NEW where \in {"host", "device"}, MakeArrays(where) PROVE IInv'
  BY <1>2, MakeArraysInv
<1>3. ASSUME NEW r \in Requests[target], Evaluate(r) PROVE IInv'
  BY <1>3, EvaluateInv
<1> QED
  BY <1>1, <1>2, <1>3, DropArraysInv, ReadOutputInv, DeinitDeviceInv, DeviceStepsInv, LoadInv,
     PrepareInv, PinInv, TvmReadInv, TvmStageInv, ValidateInv, MeasuresInv, UnloadInv, ReturnInv DEF Next

-----------------------------------------------------------------------------
\* Every reachable state satisfies the inductive invariant.
THEOREM Invariant == Spec => []IInv
  BY InitInv, NextInv, PTL DEF Spec

\* An evaluation that returns gives back the handles, buffers and memory it took, whatever
\* evaluations before it have raised and left behind.
THEOREM TakenIsGivenBack == Spec => []ReturnsWhatItTook
<1>1. IInv => ReturnsWhatItTook
  BY DEF IInv, Taken, ReturnsWhatItTook
<1> QED
  BY <1>1, Invariant, PTL

\* A payload is only called while its library is open and the buffers it shares with the host
\* are registered; the tensors an evaluator made for it are in memory of the present session
\* and where it looks for them, but for numpy parameters of a device's graph.
THEOREM CalledWhileAlive == Spec => []UsedWhileAlive
<1>1. IInv => UsedWhileAlive
  <2> SUFFICES ASSUME IInv, Calling PROVE UsedWhileAlive
    BY DEF UsedWhileAlive
  <2>1. step \in {"validating", "looping"} /\ step \notin Rests /\ step \in Loaded /\ step \in Having
    BY DEF Calling, Rests, Loaded, Having
  <2>2. /\ Module \in Modules /\ held.opened \in [Modules -> Nat]
        /\ opened = IF target = "tvm" THEN held.opened ELSE [held.opened EXCEPT ![Module] = @ + 1]
        /\ kernels = IF Accelerated THEN held.kernels \cup {Module} ELSE held.kernels
        /\ pinned = IF target = "gpu" THEN held.pinned \cup Pinnable ELSE held.pinned
        /\ Ready
    BY <2>1 DEF IInv, RequestFits, Taken
  <2>3. target # "tvm" => opened[Module] > 0
    BY <2>2
  <2>4. Accelerated => Module \in kernels
    BY <2>2
  <2>5. target = "gpu" /\ Module.where = "host" => {Input, Output} \subseteq pinned
    BY <2>2 DEF Pinnable
  <2>6. ASSUME NEW a \in {Input, Output}
        PROVE  /\ a \in DOMAIN arrays
               /\ IF a \in ToSet(caller.ndarrays)
                  THEN Alive(arrays[a]) \/ arrays[a].session < session
                  ELSE /\ Alive(arrays[a])
                       /\ arrays[a].where = Place
                            \/ (request.options.given = "numpy" /\ Module.where = "device")
    <3>1. a \in DOMAIN arrays /\ arrays[a].session <= session
      BY <2>1 DEF IInv, TensorsPlaced, NothingStale, ArraysAlive
    <3>2. CASE a \in ToSet(caller.ndarrays)
      <4>1. session \in Nat /\ arrays[a].session \in Nat
        BY <3>1 DEF IInv, StateTypes, ArrayTypes
      <4> QED
        BY <2>2, <3>1, <3>2, <4>1 DEF Alive, Ready
    <3>3. CASE a \notin ToSet(caller.ndarrays)
      <4>1. Alive(arrays[a])
        BY <3>1, <3>3 DEF IInv, NothingStale, ArraysAlive
      <4>2. ~ Given
        <5>1. Given => request.params = caller.ndarrays /\ caller.ndarrays # << >>
          BY <2>1 DEF IInv, TensorsPlaced, RequestFits, Given
        <5>2. caller.ndarrays # << >> =>
                ToSet(caller.ndarrays) = {caller.ndarrays[1], caller.ndarrays[2]}
          BY Owned DEF IInv, StateTypes
        <5> QED
          BY <3>3, <5>1, <5>2 DEF Input, Output
      <4>3. arrays[a].where = MadeAt
        BY <2>1, <4>2 DEF IInv, TensorsPlaced
      <4>4. Module.where \in {"host", "device"}
        BY <2>1 DEF IInv, RequestFits, ModuleTypes, Module
      <4> QED
        BY <3>1, <3>3, <4>1, <4>3, <4>4 DEF MadeAt, Place
    <3> QED
      BY <3>2, <3>3
  <2> QED
    BY <2>3, <2>4, <2>5, <2>6 DEF UsedWhileAlive
<1> QED
  BY <1>1, Invariant, PTL

-----------------------------------------------------------------------------
(* Outputs: what the caller gets is what the payload wrote. *)

\* A measure that ends has called the payload.
LoopCalls ==
  /\ calls \in Nat /\ attempts \in Nat \ {0} /\ ask.number \in Nat
  /\ stage = "idle" => calls = 0
  /\ stage \in {"run", "done"} => calls > 0

\* The parameters are such that the payload can be expected to write its output.
Usable == target = "tvm" \/ Fits

\* An output has been written after a call, and is as it was made before the first one.
OutputContents ==
  /\ step \in {"pinning", "validating"} /\ target # "tvm" /\ request.options.zero
       /\ request.options.given = "none" => Numpy(arrays[Output]) = "zero"
  /\ step \in {"finishing", "copying"} \/ (step = "looping" /\ calls > 0) =>
       (Payload # "nothing" /\ Usable => Numpy(arrays[Output]) = Payload)

\* The verdict of a validation, which the steps after it leave alone.
Verdict ==
  request.options.validate =>
    /\ Payload = "good" => code = 0
    /\ Payload = "bad"  => code = 1
    /\ Payload = "nothing" /\ request.options.zero /\ request.options.given = "none" =>
         (target # "tvm" => code = 1)

Judged ==
  step \in {"measuring", "looping", "finishing", "copying", "returned"} => (Usable => Verdict)

OutputsInv == LoopCalls /\ OutputContents /\ Judged /\ OutputsAreThePayloads

LEMMA NumpyOfWritten ==
  ASSUME NEW x \in ArrayTypes, NEW c \in {"good", "bad", "nothing"}
  PROVE  Numpy(Written(x, c)) = (IF c = "nothing" THEN Numpy(x) ELSE c)
  BY DEF ArrayTypes, Numpy, Written

LEMMA NumpyOfSynced == ASSUME NEW x \in ArrayTypes PROVE Numpy(Synced(x)) = Numpy(x)
  BY DEF ArrayTypes, Numpy, Synced

\* Tensors that fit are where the payload looks for them; so are those of its own that an
\* evaluation makes.
LEMMA FitsReached ==
  ASSUME IInv, step \in Having, Usable
  PROVE  Reached
<1>1. step \notin Rests
  BY DEF Having, Rests
<1>2. CASE Given
  <2>1. request.params = caller.ndarrays /\ caller.ndarrays # << >>
    BY <1>1, <1>2 DEF IInv, TensorsPlaced, RequestFits, Given
  <2>2. ToSet(caller.ndarrays) = {caller.ndarrays[1], caller.ndarrays[2]}
    BY <2>1, Owned DEF IInv, StateTypes
  <2>3. Fits /\ request.options.given = "ndarray" /\ Place = Module.where
    BY <1>2 DEF Given, Usable, Place
  <2> QED
    BY <2>1, <2>2, <2>3 DEF Reached, Fits, Input, Output
<1>3. CASE ~ Given
  <2>1. \A a \in {Input, Output} :
          a \in DOMAIN arrays /\ a \notin ToSet(caller.ndarrays) /\ arrays[a].where = MadeAt
    BY <1>3 DEF IInv, TensorsPlaced
  <2>2. MadeAt = Place
    BY DEF MadeAt, Place, Usable, Fits
  <2> QED
    BY <2>1, <2>2 DEF Reached, IInv, NothingStale, ArraysAlive
<1> QED
  BY <1>2, <1>3

\* Parameters fit as long as their arrays keep their place.
LEMMA FitsStay ==
  ASSUME IInv, UNCHANGED <<target, request, on, session>>, caller'.ndarrays = caller.ndarrays,
         \A a \in ToSet(caller.ndarrays) : Kept(arrays'[a], arrays[a])
  PROVE  Usable' = Usable
<1>1. \A a \in ToSet(caller.ndarrays) :
        (Alive(arrays[a]) /\ arrays[a].where = Module.where)'
          = (Alive(arrays[a]) /\ arrays[a].where = Module.where)
  BY DEF Kept, Alive, Module
<1> QED
  BY <1>1 DEF Usable, Fits, Module

LEMMA LoopStepCalls ==
  ASSUME LoopCalls, LoopStep
  PROVE  LoopCalls' /\ calls' >= calls
<1> USE DEF LoopCalls
<1>1. CASE OpenEvents
  BY <1>1 DEF OpenEvents, loopCounters
<1>2. CASE WarmUp
  BY <1>2 DEF WarmUp, Number
<1>3. CASE StartRound
  BY <1>3 DEF StartRound, loopCounters
<1>4. CASE RunRound
  BY <1>4 DEF RunRound
<1>5. CASE LongEnough
  <2>1. /\ calls' = calls /\ ask' = ask /\ attempts' = Number /\ stage = "run"
        /\ stage' \in {"done", "round"}
    BY <1>5 DEF LongEnough
  <2> QED
    BY <2>1 DEF Number
<1>6. CASE TooShort
  <2>1. /\ calls' = calls /\ ask' = ask /\ attempts' \in {attempts, 2 * attempts}
        /\ stage' \in {"overflowed", "round"}
    BY <1>6 DEF TooShort
  <2> QED
    BY <2>1
<1> QED
  BY <1>1, <1>2, <1>3, <1>4, <1>5, <1>6 DEF LoopStep

LEMMA LoopCallsInv == IInv /\ LoopCalls /\ [Next]_vars => LoopCalls'
<1> SUFFICES ASSUME IInv, LoopCalls, [Next]_vars PROVE LoopCalls'
  OBVIOUS
<1>1. CASE UNCHANGED loopVars
  BY <1>1 DEF LoopCalls, loopVars
<1>2. CASE Measure
  <2>1. PICK q : Call(q) /\ q.number = request.ask.number
    BY <1>2 DEF Measure, LoopCall
  <2>2. request.ask.number \in Nat
    <3>1. request.ask \in AskTypes /\ MaxInt \in Nat
      BY <1>2, MeasureAssumption DEF IInv, RequestFits, Measure, Rests
    <3> QED
      BY <3>1 DEF AskTypes
  <2> QED
    BY <2>1, <2>2 DEF Call, LoopCalls
<1>3. CASE Looping
  BY <1>3, LoopStepCalls DEF Looping
<1>4. CASE EndMeasure
  BY <1>4 DEF EndMeasure, LoopReturn, LoopCalls, NothingAsked
<1> QED
  BY <1>1, <1>2, <1>3, <1>4
  DEF Next, vars, MakeArrays, DropArrays, ReadOutput, DeinitDevice, Evaluate, BuildRuntimeLib,
      InitDevice, Load, Prepare, Pin, TvmRead, TvmStage, Validate, TvmMeasure, Unload, Return

\* Steps of the caller, and those before the tensors are there.
LEMMA EarlyOutputs ==
  ASSUME step' \notin Having, step' # "returned"
  PROVE  OutputContents' /\ Judged' /\ OutputsAreThePayloads'
  BY DEF OutputContents, Judged, OutputsAreThePayloads, Having

LEMMA PreparedOutputs ==
  ASSUME IInv, OutputsInv, Prepare \/ TvmStage \/ Pin, step' # "raised"
  PROVE  OutputContents' /\ Judged' /\ OutputsAreThePayloads'
<1>1. /\ step \in {"staging", "preparing", "pinning"} /\ step \notin Rests
      /\ step' \in {"pinning", "validating", "measuring"}
      /\ step' = "measuring" => ~ request.options.validate
      /\ request' = [request EXCEPT !.params = request'.params]
      /\ UNCHANGED <<target, caller, code>>
  BY DEF Prepare, TvmStage, Pin, ToMeasure, Raise, callVars, Rests, IInv, RequestFits
<1>2. request \in [module : ModuleTypes, options : OptionTypes, ask : AskTypes,
                   params : {<< >>} \cup ParamTypes]
  BY <1>1 DEF IInv, RequestFits
<1>3. request'.options = request.options /\ request'.module = request.module
  BY <1>1, <1>2
<1>4. CASE Pin
  <2>1. request' = request /\ arrays' = arrays /\ step = "pinning"
    BY <1>4 DEF Pin, callVars
  <2>2. OutputContents'
    BY <1>1, <2>1 DEF OutputsInv, OutputContents, Having, Output, Payload
  <2>3. Judged' /\ OutputsAreThePayloads'
    BY <1>1, <1>3 DEF Judged, Verdict, OutputsAreThePayloads
  <2> QED
    BY <2>2, <2>3
<1>5. CASE TvmStage
  <2>1. target' = "tvm"
    BY <1>1, <1>5 DEF TvmStage, IInv, Taken
  <2> QED
    BY <1>1, <1>3, <2>1 DEF OutputContents, Judged, Verdict, OutputsAreThePayloads
<1>6. CASE Prepare
  <2>2. ASSUME request.options.given = "none", request.options.zero
        PROVE  Numpy(arrays'[request'.params[2]]) = "zero"
    <3>1. /\ WithArrays(Array("in", request.module.where, "in"),
                        Array("out", request.module.where, "zero"))
          /\ request' = [request EXCEPT !.params = <<made + 1, made + 2>>]
      BY <1>1, <1>6, <2>2 DEF Prepare, Raise, Fresh, Module
    <3>2. request'.params[2] = made + 2
      BY <1>2, <3>1
    <3>3. request.module.where \in {"host", "device"} /\ session \in Nat
      BY <1>2 DEF ModuleTypes, IInv, StateTypes
    <3>4. /\ Array("in", request.module.where, "in") \in ArrayTypes
          /\ Array("out", request.module.where, "zero") \in ArrayTypes
      BY <3>3, ArrayType DEF Contents
    <3>5. arrays'[made + 2] = Array("out", request.module.where, "zero")
      <4> HIDE DEF Array
      <4> QED
        BY <3>1, <3>4, Made DEF IInv
    <3> QED
      BY <3>2, <3>5 DEF Numpy, Array
  <2> QED
    BY <1>1, <1>3, <2>2
    DEF OutputContents, Judged, Verdict, OutputsAreThePayloads, Output
<1> QED
  BY <1>4, <1>5, <1>6

LEMMA ValidatedOutputs ==
  ASSUME IInv, OutputsInv, Validate, step' # "raised"
  PROVE  OutputContents' /\ Judged' /\ OutputsAreThePayloads'
<1>1. PICK out \in Called :
        /\ arrays' = [arrays EXCEPT ![Input] = Synced(@), ![Output] = Synced(out)]
        /\ code' = IF Numpy(out) = "good" THEN 0 ELSE 1
  BY DEF Validate, Raise
<1>2. /\ step = "validating" /\ step' \in {"measuring", "finishing"}
      /\ UNCHANGED <<target, request, caller, on, session>>
  BY DEF Validate, Raise, callVars, devVars
<1>3. Usable' = Usable
  <2>1. \A a \in ToSet(caller.ndarrays) : Kept(arrays'[a], arrays[a])
    BY <1>1, <1>2, ValidateKept DEF IInv, CallerOwns
  <2> QED
    BY <1>2, <2>1, FitsStay
<1>4. /\ Payload \in {"good", "bad", "nothing"} /\ Output \in DOMAIN arrays
      /\ arrays[Output] \in ArrayTypes /\ out \in ArrayTypes
  BY <1>2, PayloadWrites DEF Having, Kept
<1>5. Usable => Numpy(out) = IF Payload = "nothing" THEN Numpy(arrays[Output]) ELSE Payload
  <2>1. Usable => out = Written(arrays[Output], Payload)
    BY <1>2, FitsReached, PayloadWrites DEF Having
  <2> QED
    BY <1>4, <2>1, NumpyOfWritten
<1>6. Numpy(arrays'[Output]) = Numpy(out)
  <2>1. arrays'[Output] = Synced(out)
    BY <1>1, <1>4
  <2> QED
    BY <1>4, <2>1, NumpyOfSynced
<1>7. request.options.given = "none" /\ request.options.zero /\ target # "tvm" =>
        Numpy(arrays[Output]) = "zero"
  BY <1>2 DEF OutputsInv, OutputContents
<1>8. Usable => Verdict'
  BY <1>1, <1>2, <1>4, <1>5, <1>7 DEF Verdict, Payload
<1>9. OutputContents'
  <2>1. Payload' = Payload /\ Output' = Output
    BY <1>2 DEF Payload, Output
  <2> QED
    BY <1>2, <1>3, <1>5, <1>6, <2>1 DEF OutputContents
<1> QED
  BY <1>2, <1>3, <1>8, <1>9 DEF Judged, OutputsAreThePayloads

LEMMA MeasuredOutputs ==
  ASSUME IInv, OutputsInv, Measure \/ Looping \/ EndMeasure \/ TvmMeasure
  PROVE  OutputContents' /\ Judged' /\ OutputsAreThePayloads'
<1>1. /\ step \in {"measuring", "looping"} /\ step' \in {"looping", "finishing"}
      /\ UNCHANGED <<target, request, caller, code, on, session>>
  BY DEF Measure, Looping, EndMeasure, TvmMeasure, callVars, dataVars, devVars
<1>2. Usable' = Usable
  <2>1. \A a \in ToSet(caller.ndarrays) : Kept(arrays'[a], arrays[a])
    BY MeasuresKept DEF IInv, CallerOwns
  <2> QED
    BY <1>1, <2>1, FitsStay
<1>3. ASSUME NEW out \in Called, arrays' = [arrays EXCEPT ![Output] = out], Payload # "nothing",
             Usable
      PROVE  Numpy(arrays'[Output]) = Payload
  <2>1. /\ Payload \in {"good", "bad", "nothing"} /\ Output \in DOMAIN arrays
        /\ arrays[Output] \in ArrayTypes /\ out = Written(arrays[Output], Payload)
    BY <1>1, <1>3, FitsReached, PayloadWrites DEF Having
  <2> QED
    BY <1>3, <2>1, NumpyOfWritten
<1>4. step' = "finishing" \/ calls' > 0 =>
        (Payload # "nothing" /\ Usable => Numpy(arrays'[Output]) = Payload)
  <2>1. CASE Measure
    <3>1. calls' = calls /\ stage = "idle" /\ step' = "looping"
      BY <2>1 DEF Measure, Call
    <3> QED
      BY <3>1 DEF OutputsInv, LoopCalls
  <2>2. CASE Looping
    <3>1. CASE calls' = calls
      BY <1>1, <2>2, <3>1 DEF Looping, OutputsInv, OutputContents
    <3>2. CASE calls' # calls
      BY <1>3, <2>2, <3>2 DEF Looping
    <3> QED
      BY <3>1, <3>2
  <2>3. CASE EndMeasure
    BY <1>1, <2>3 DEF EndMeasure, LoopReturn, OutputsInv, OutputContents, LoopCalls, dataVars
  <2>4. CASE TvmMeasure
    <3>1. arrays' = [arrays EXCEPT ![Output] = Written(arrays[Output], Payload)]
      BY <2>4 DEF TvmMeasure
    <3>2. Written(arrays[Output], Payload) \in Called
      BY <1>1, PayloadWrites DEF Having
    <3> QED
      BY <1>3, <3>1, <3>2
  <2> QED
    BY <2>1, <2>2, <2>3, <2>4
<1>5. OutputContents'
  <2>1. Payload' = Payload /\ Output' = Output
    BY <1>1 DEF Payload, Output
  <2> QED
    BY <1>1, <1>2, <1>4, <2>1 DEF OutputContents
<1>6. Judged'
  BY <1>1, <1>2 DEF OutputsInv, Judged, Verdict, Payload
<1> QED
  BY <1>1, <1>5, <1>6 DEF OutputsAreThePayloads

LEMMA UnloadedOutputs ==
  ASSUME IInv, OutputsInv, Unload
  PROVE  OutputContents' /\ Judged' /\ OutputsAreThePayloads'
<1>1. /\ step = "finishing" /\ step' = "copying"
      /\ UNCHANGED <<target, request, code, arrays, caller, on, session>>
  BY DEF Unload, callVars, devVars
<1>2. Usable' = Usable
  <2>1. \A a \in ToSet(caller.ndarrays) : Kept(arrays'[a], arrays[a])
    BY <1>1, KeptItself DEF IInv, CallerOwns, StateTypes
  <2> QED
    BY <1>1, <2>1, FitsStay
<1>3. Payload' = Payload /\ Output' = Output
  BY <1>1 DEF Payload, Output
<1> QED
  BY <1>1, <1>2, <1>3
  DEF OutputsInv, OutputContents, Judged, Verdict, OutputsAreThePayloads

LEMMA ReturnedOutputs ==
  ASSUME IInv, OutputsInv, Return
  PROVE  OutputContents' /\ Judged' /\ OutputsAreThePayloads'
<1>1. /\ step = "copying" /\ step' = "returned" /\ arrays' = WrittenBack
      /\ UNCHANGED <<target, request, code, on, session>>
      /\ caller' = IF request.options.given = "numpy"
                   THEN [caller EXCEPT !.output = Numpy(arrays[Output])] ELSE caller
  BY DEF Return, callVars, devVars
<1>2. caller'.ndarrays = caller.ndarrays
  BY <1>1 DEF IInv, StateTypes
<1>3. Usable' = Usable
  <2>1. \A a \in ToSet(caller.ndarrays) : Kept(arrays'[a], arrays[a])
    BY <1>1, ReturnKept
  <2> QED
    BY <1>1, <1>2, <2>1, FitsStay
<1>4. (Usable => Verdict) /\ (Payload # "nothing" /\ Usable => Numpy(arrays[Output]) = Payload)
  BY <1>1 DEF OutputsInv, Judged, OutputContents
<1>5. Usable => Verdict'
  BY <1>1, <1>4 DEF Verdict, Payload
<1>6. ASSUME Payload # "nothing", Usable, request.options.given = "numpy"
      PROVE  caller'.output = Payload
  BY <1>1, <1>4, <1>6 DEF IInv, StateTypes
<1>7. ASSUME Payload # "nothing", Usable, request.options.given = "ndarray"
      PROVE  LET x == arrays'[caller'.ndarrays[2]] IN
             (IF target = "tvm" THEN x.host ELSE Numpy(x)) = Payload
  <2> DEFINE j == caller.ndarrays[2]
  <2>1. caller' = caller /\ step \notin Rests
    BY <1>1, <1>7 DEF Rests
  <2>2. caller.ndarrays # << >>
    BY <1>7, <2>1 DEF IInv, RequestFits
  <2>3. j \in ToSet(caller.ndarrays)
    BY <2>2, Owned DEF IInv, StateTypes
  <2>4. /\ DOMAIN WithoutLocals = ToSet(caller.ndarrays)
        /\ WithoutLocals[j] = arrays[j] /\ arrays[j] \in ArrayTypes
    BY <2>3, LocalsDropped DEF IInv, StateTypes, CallerOwns
  <2>5. CASE target = "tvm"
    <3> DEFINE v == Numpy(arrays[Output])
    <3>1. arrays' = [WithoutLocals EXCEPT ![j].host = v]
      BY <1>1, <1>7, <2>5 DEF WrittenBack
    <3>2. v = Payload
      BY <1>4, <1>7
    <3> HIDE DEF v
    <3>3. arrays'[j] = [arrays[j] EXCEPT !.host = v]
      BY <2>3, <2>4, <3>1
    <3>4. arrays'[j].host = v
      BY <2>4, <3>3 DEF ArrayTypes
    <3> QED
      BY <2>1, <2>5, <3>2, <3>4
  <2>6. CASE target # "tvm"
    <3>1. arrays'[j] = arrays[j]
      BY <1>1, <2>4, <2>6 DEF WrittenBack
    <3>2. Output = j
      BY <1>1, <1>7, <2>6 DEF IInv, TensorsPlaced, Given, Having, Output
    <3> QED
      BY <1>4, <1>7, <2>1, <2>6, <3>1, <3>2
  <2> QED
    BY <2>5, <2>6
<1>8. request.options.given \in {"none", "numpy", "ndarray"}
  BY <1>1 DEF IInv, RequestFits, Rests, OptionTypes
<1>9. OutputsAreThePayloads'
  <2>1. Payload' = Payload /\ request' = request /\ target' = target
    BY <1>1 DEF Payload
  <2> QED
    BY <1>3, <1>5, <1>6, <1>7, <1>8, <2>1 DEF OutputsAreThePayloads, Verdict, Usable
<1> QED
  BY <1>1, <1>3, <1>5, <1>9 DEF OutputContents, Judged

LEMMA OutputsNext == IInv /\ OutputsInv /\ [Next]_vars => OutputsInv'
<1> SUFFICES ASSUME IInv, OutputsInv, [Next]_vars
             PROVE  OutputContents' /\ Judged' /\ OutputsAreThePayloads'
  BY LoopCallsInv DEF OutputsInv
<1>1. CASE UNCHANGED vars
  <2>1. UNCHANGED <<target, arrays, caller, step, request, code, calls, on, session>>
    BY <1>1 DEF vars, dataVars, loopVars, devVars
  <2> QED
    BY <2>1
    DEF OutputsInv, OutputContents, Judged, Verdict, OutputsAreThePayloads, Output, Payload,
        Usable, Fits, Alive, Module
<1>2. CASE step' \notin Having /\ step' # "returned"
  BY <1>2, EarlyOutputs
<1>3. ASSUME NEW where \in {"host", "device"}, MakeArrays(where)
      PROVE  step' \notin Having /\ step' # "returned"
  BY <1>3 DEF MakeArrays, Having
<1>4. ASSUME NEW r \in Requests[target], Evaluate(r)
      PROVE  step' \notin Having /\ step' # "returned"
  BY <1>4 DEF Evaluate, Having
<1>5. DropArrays \/ ReadOutput \/ DeinitDevice \/ BuildRuntimeLib \/ InitDevice \/ Load \/ TvmRead =>
        step' \notin Having /\ step' # "returned"
  BY DEF DropArrays, ReadOutput, DeinitDevice, BuildRuntimeLib, InitDevice, Load, TvmRead, Raise,
         Having
<1> QED
  BY <1>1, <1>2, <1>3, <1>4, <1>5, PreparedOutputs, ValidatedOutputs, MeasuredOutputs,
     UnloadedOutputs, ReturnedOutputs DEF Next, Having

LEMMA OutputsInit == Init => OutputsInv
  BY DEF Init, LoopInit, NothingAsked, OutputsInv, LoopCalls, OutputContents, Judged,
         OutputsAreThePayloads, Having

\* For parameters that fit, and any that TVM stages, the payload's output is where it was asked
\* for, whatever was in memory before (after TVM on the host's side of an NDArray, which is not
\* what numpy() reads of one on the device), and a validation tells whether it is the result
\* of the reference.
THEOREM OutputsAreWritten == Spec => []OutputsAreThePayloads
<1>1. OutputsInv => OutputsAreThePayloads
  BY DEF OutputsInv
<1>2. IInv /\ OutputsInv /\ [Next]_vars => IInv' /\ OutputsInv'
  BY NextInv, OutputsNext
<1>3. Init => IInv /\ OutputsInv
  BY InitInv, OutputsInit
<1> QED
  BY <1>1, <1>2, <1>3, PTL DEF Spec

-----------------------------------------------------------------------------
(* Results: from the array of the loop to the list an evaluator returns. *)

\* What the loop is asked is what the request asks, of a target that has the loop.
LoopAsked ==
  /\ step \notin Rests => request.ask \in {r.ask : r \in Requests[target]}
  /\ step = "looping" =>
       stage # "idle" /\ target # "tvm" /\ ask = LoopCall(target, request.ask)
  /\ step # "looping" => stage = "idle"

\* There are no results before a measure, and all of them after it.
ListInv ==
  /\ step \in {"loading", "staging", "preparing", "pinning", "validating", "measuring", "looping"} =>
       list = << >>
  /\ step \in {"measuring", "looping"} => code = 0
  /\ step \in {"loading", "staging", "preparing", "pinning", "validating"} => code = 0
  /\ step \in {"finishing", "copying", "returned"} => IF code = 1 THEN list = << >> ELSE Listed

ResultsInv == LoopInv /\ AskedInv /\ LoopAsked /\ ListInv

\* The places of the host's events: those of the call have the names asked for, in order.
LEMMA HostPlaces ==
  ASSUME NEW t, NEW q \in AskTypes
  PROVE  /\ Len(q.pmu) \in Nat /\ DOMAIN q.pmu = 1 .. Len(q.pmu)
         /\ Cardinality(HostEvents(t, q)) \in Nat
         /\ \A e \in HostEvents(t, q) :
              /\ HostPlace(t, q, e) \in 1 .. Cardinality(HostEvents(t, q))
              /\ LoopCall(t, q).events[HostPlace(t, q, e)] =
                   [name |-> q.pmu[e].name, mode |-> LoopMode(t, q.pmu[e])]
         /\ t # "mppa" => /\ Cardinality(HostEvents(t, q)) = Len(q.pmu)
                          /\ \A e \in 1 .. Len(q.pmu) : HostPlace(t, q, e) = e
<1> DEFINE H == HostEvents(t, q)
<1> DEFINE Upto(e) == {d \in H : d <= e}
<1>1. Len(q.pmu) \in Nat /\ DOMAIN q.pmu = 1 .. Len(q.pmu)
  BY LenProperties DEF AskTypes
<1>2. H \subseteq 1 .. Len(q.pmu) /\ IsFiniteSet(H) /\ Cardinality(H) \in Nat
  <2>1. H \subseteq 1 .. Len(q.pmu)
    BY <1>1 DEF HostEvents
  <2>2. IsFiniteSet(1 .. Len(q.pmu))
    BY <1>1, FS_Interval
  <2> HIDE DEF H
  <2> QED
    BY <2>1, <2>2, FS_Subset, FS_CardinalityType
<1>3. \A e \in H : HostPlace(t, q, e) = Cardinality(Upto(e))
  BY DEF HostPlace
<1>4. ASSUME NEW e \in H PROVE HostPlace(t, q, e) \in 1 .. Cardinality(H)
  <2>1. /\ IsFiniteSet(Upto(e)) /\ Cardinality(Upto(e)) <= Cardinality(H)
        /\ Cardinality(Upto(e)) \in Nat
    BY <1>2, FS_Subset, FS_CardinalityType
  <2>2. e \in Upto(e)
    BY <1>2
  <2>3. Cardinality(Upto(e)) # 0
    BY <2>1, <2>2, FS_EmptySet
  <2> QED
    BY <1>2, <1>3, <2>1, <2>3
<1>5. ASSUME NEW d \in H, NEW e \in H, d < e PROVE HostPlace(t, q, d) # HostPlace(t, q, e)
  <2>1. Upto(d) \in SUBSET Upto(e) /\ e \in Upto(e) /\ e \notin Upto(d) /\ IsFiniteSet(Upto(e))
    BY <1>2, <1>5, FS_Subset
  <2>2. Cardinality(Upto(d)) # Cardinality(Upto(e))
    <3> HIDE DEF Upto
    <3> QED
      BY <2>1, FS_Subset
  <2> QED
    BY <1>3, <2>2
<1>6. ASSUME NEW e \in H
      PROVE  LoopCall(t, q).events[HostPlace(t, q, e)] =
               [name |-> q.pmu[e].name, mode |-> LoopMode(t, q.pmu[e])]
  <2> DEFINE h == HostPlace(t, q, e)
  <2>1. \A d \in H : HostPlace(t, q, d) = h => d = e
    <3> SUFFICES ASSUME NEW d \in H, HostPlace(t, q, d) = h PROVE d = e
      OBVIOUS
    <3>1. d < e \/ e < d \/ d = e
      BY <1>2
    <3> QED
      BY <1>5, <3>1
  <2>2. (CHOOSE d \in H : HostPlace(t, q, d) = h) = e
    <3> HIDE DEF H
    <3> QED
      BY <2>1
  <2>3. h \in 1 .. Cardinality(H)
    BY <1>4
  <2> QED
    BY <2>2, <2>3 DEF LoopCall
<1>7. ASSUME t # "mppa"
      PROVE  /\ Cardinality(H) = Len(q.pmu)
             /\ \A e \in 1 .. Len(q.pmu) : HostPlace(t, q, e) = e
  <2>1. H = 1 .. Len(q.pmu)
    BY <1>1, <1>7 DEF HostEvents
  <2>2. Cardinality(H) = Len(q.pmu)
    BY <1>1, <2>1, FS_Interval
  <2>3. ASSUME NEW e \in 1 .. Len(q.pmu) PROVE HostPlace(t, q, e) = e
    <3>1. Upto(e) = 1 .. e
      BY <1>1, <2>1
    <3>2. Cardinality(1 .. e) = e
      BY <1>1, FS_Interval
    <3> QED
      BY <1>3, <2>1, <3>1, <3>2
  <2> QED
    BY <2>2, <2>3
<1> QED
  BY <1>1, <1>2, <1>4, <1>6, <1>7

\* The call is one the loop knows.
LEMMA CallAsked ==
  ASSUME IInv, LoopAsked, step \notin Rests, target # "tvm"
  PROVE  /\ LoopCall(target, request.ask) \in Asked
         /\ target = "mppa" => request.ask.number = 1 /\ request.ask.min = 0
         /\ request.ask \in AskTypes
<1>1. PICK r \in Requests[target] : request.ask = r.ask
  BY DEF LoopAsked
<1>2. target \in DOMAIN Requests
  BY DEF IInv, StateTypes, Targets
<1>3. request.ask \in AskTypes
  BY DEF IInv, RequestFits
<1> QED
  BY <1>1, <1>2, <1>3, EvaluationAssumption

\* Seen through the loop's variables, a step of an evaluation is one of the loop.
LEMMA StepsOfLoop == IInv /\ LoopAsked /\ [Next]_vars => [LoopNext]_loopVars
<1> SUFFICES ASSUME IInv, LoopAsked, [Next]_vars PROVE [LoopNext]_loopVars
  OBVIOUS
<1>1. CASE Measure
  <2>1. LoopCall(target, request.ask) \in Asked
    BY <1>1, CallAsked DEF Measure, Rests
  <2> QED
    BY <1>1, <2>1 DEF Measure, LoopNext
<1>2. CASE Looping \/ EndMeasure
  BY <1>2 DEF Looping, EndMeasure, LoopNext
<1> QED
  BY <1>1, <1>2
  DEF Next, vars, MakeArrays, DropArrays, ReadOutput, DeinitDevice, Evaluate, BuildRuntimeLib,
      InitDevice, Load, Prepare, Pin, TvmRead, TvmStage, Validate, TvmMeasure, Unload, Return

LEMMA LoopAskedNext == IInv /\ LoopAsked /\ [Next]_vars => LoopAsked'
<1> SUFFICES ASSUME IInv, LoopAsked, [Next]_vars PROVE LoopAsked'
  OBVIOUS
<1>1. CASE UNCHANGED vars
  BY <1>1 DEF vars, loopVars, LoopAsked
<1>2. ASSUME NEW where \in {"host", "device"}, MakeArrays(where) PROVE LoopAsked'
  BY <1>2 DEF MakeArrays, LoopAsked, Rests, loopVars, Resting
<1>3. ASSUME NEW r \in Requests[target], Evaluate(r) PROVE LoopAsked'
  BY <1>3 DEF Evaluate, LoopAsked, loopVars, Resting
<1>4. CASE DropArrays \/ ReadOutput \/ DeinitDevice
  BY <1>4 DEF DropArrays, ReadOutput, DeinitDevice, LoopAsked, Rests, loopVars, Resting
<1>5. CASE \/ BuildRuntimeLib \/ InitDevice \/ Load \/ Pin \/ TvmRead \/ Validate \/ TvmMeasure
           \/ Unload \/ Return
  <2>1. /\ UNCHANGED <<target, request>> /\ stage' = stage /\ step \notin Rests
        /\ step # "looping" /\ step' # "looping"
    BY <1>5
    DEF BuildRuntimeLib, InitDevice, Load, Pin, TvmRead, Validate, TvmMeasure, Unload, Return,
        Raise, Rests, callVars, loopVars, ToMeasure
  <2> QED
    BY <2>1 DEF LoopAsked
<1>6. CASE Prepare \/ TvmStage
  <2>1. /\ target' = target /\ stage' = stage /\ step \notin Rests
        /\ step # "looping" /\ step' # "looping"
        /\ request' = request \/ \E p : request' = [request EXCEPT !.params = p]
    BY <1>6 DEF Prepare, TvmStage, Raise, Rests, loopVars, ToMeasure
  <2>2. request'.ask = request.ask
    BY <2>1 DEF IInv, RequestFits
  <2> QED
    BY <2>1, <2>2 DEF LoopAsked
<1>7. CASE Measure
  BY <1>7 DEF Measure, Call, LoopAsked, Rests, callVars
<1>8. CASE Looping
  <2>1. ask' = ask /\ stage' # "idle"
    BY <1>8
    DEF Looping, LoopStep, OpenEvents, WarmUp, StartRound, RunRound, LongEnough, TooShort
  <2> QED
    BY <1>8, <2>1 DEF Looping, LoopAsked, Rests, callVars
<1>9. CASE EndMeasure
  BY <1>9 DEF EndMeasure, LoopReturn, LoopAsked, Rests, callVars
<1> QED
  BY <1>1, <1>2, <1>3, <1>4, <1>5, <1>6, <1>7, <1>8, <1>9 DEF Next

\* The length of a sequence that is given as a function.
LEMMA LengthOf ==
  ASSUME NEW n \in Nat, NEW f, f = [i \in 1 .. n |-> f[i]]
  PROVE  Len(f) = n
<1> DEFINE S == {f[i] : i \in 1 .. n}
<1>1. f \in [1 .. n -> S]
  OBVIOUS
<1> HIDE DEF S
<1>2. f \in Seq(S)
  BY <1>1, SeqDef
<1>3. Len(f) \in Nat /\ 1 .. n = 1 .. Len(f)
  BY <1>1, <1>2, LenProperties
<1> QED
  BY <1>3

\* Where the loop is done each of its results is of one call of the event asked for.
LEMMA DoneResults ==
  ASSUME IInv, ResultsInv, step = "looping", stage = "done"
  PROVE  LET q == request.ask IN
         /\ results = [i \in 1 .. q.repeat * ValuesNum |-> results[i]]
         /\ repeats = q.repeat /\ q.repeat \in Nat \ {0} /\ ask.repeat = q.repeat
         /\ ValuesNum = IF HostEvents(target, q) = {} THEN 1 ELSE Cardinality(HostEvents(target, q))
         /\ \A r \in 0 .. q.repeat - 1, e \in HostEvents(target, q) :
              OfOneCall(results[Slot(r, HostPlace(target, q, e))], q.pmu[e])
         /\ HostEvents(target, q) = {} =>
              \A r \in 0 .. q.repeat - 1 :
                /\ results[Slot(r, 1)].event = "time" /\ results[Slot(r, 1)].num >= q.min
                /\ \E pace \in Paces : results[Slot(r, 1)].num = pace * results[Slot(r, 1)].den
<1> DEFINE q == request.ask
<1> DEFINE H == HostEvents(target, q)
<1>1. /\ ask = LoopCall(target, q) /\ ask \in Asked /\ q \in AskTypes
      /\ ask.repeat = q.repeat /\ ask.min = q.min
  <2>1. ask = LoopCall(target, q) /\ LoopAsked /\ target # "tvm" /\ step \notin Rests
    BY DEF ResultsInv, LoopAsked, Rests
  <2>2. LoopCall(target, q) \in Asked /\ q \in AskTypes
    BY <2>1, CallAsked
  <2>3. LoopCall(target, q).repeat = q.repeat /\ LoopCall(target, q).min = q.min
    BY DEF LoopCall
  <2> QED
    BY <2>1, <2>2, <2>3
<1>2. repeats = q.repeat /\ q.repeat \in Nat \ {0}
  BY <1>1 DEF ResultsInv, AskedInv, RepeatsDone, AskTypes
<1>3. results \in [1 .. q.repeat * ValuesNum -> ResultTypes]
  BY <1>1 DEF ResultsInv, LoopInv, LoopTypeOK
<1>4. \A r \in 0 .. q.repeat - 1, h \in 1 .. ValuesNum :
        OfOneRound(results[Slot(r, h)], h) /\ AsAsked(results[Slot(r, h)], h)
  BY <1>2 DEF ResultsInv, LoopInv, AskedInv, ResultsAreOfOneRound, ResultsAreAsAsked
<1>5. Cardinality(H) \in Nat /\ (H = {} <=> Cardinality(H) = 0)
  <2>1. Cardinality(H) \in Nat /\ Len(q.pmu) \in Nat /\ DOMAIN q.pmu = 1 .. Len(q.pmu)
    BY <1>1, HostPlaces
  <2>2. H \subseteq 1 .. Len(q.pmu)
    BY <2>1 DEF HostEvents
  <2>3. IsFiniteSet(H)
    <3> HIDE DEF H, q
    <3>1. IsFiniteSet(1 .. Len(q.pmu))
      BY <2>1, FS_Interval
    <3> QED
      BY <2>2, <3>1, FS_Subset
  <2> QED
    BY <2>1, <2>3, FS_EmptySet
<1>6. /\ DOMAIN ask.events = 1 .. Cardinality(H) /\ Len(ask.events) = Cardinality(H)
      /\ ask.events = << >> <=> H = {}
  <2>1. DOMAIN ask.events = 1 .. Cardinality(H)
    BY <1>1 DEF LoopCall
  <2>2. /\ Len(ask.events) \in Nat /\ 1 .. Len(ask.events) = 1 .. Cardinality(H)
        /\ ask.events = << >> <=> Len(ask.events) = 0
    BY <1>1, <2>1, AskShape
  <2>3. Len(ask.events) = Cardinality(H)
    <3> HIDE DEF H
    <3> QED
      BY <1>5, <2>2
  <2> QED
    BY <1>5, <2>1, <2>2, <2>3
<1>7. ValuesNum = IF H = {} THEN 1 ELSE Cardinality(H)
  BY <1>6 DEF ValuesNum
<1>8. ASSUME NEW r \in 0 .. q.repeat - 1, NEW e \in H
      PROVE  OfOneCall(results[Slot(r, HostPlace(target, q, e))], q.pmu[e])
  <2> DEFINE h == HostPlace(target, q, e)
  <2> DEFINE x == results[Slot(r, h)]
  <2>1. /\ h \in 1 .. Cardinality(H)
        /\ ask.events[h] = [name |-> q.pmu[e].name, mode |-> LoopMode(target, q.pmu[e])]
    BY <1>1, HostPlaces
  <2>2. ask.events # << >> /\ h \in 1 .. ValuesNum
    BY <1>6, <1>7, <2>1
  <2>3. OfOneRound(x, h) /\ AsAsked(x, h)
    BY <1>4, <2>2
  <2>4. x.event = q.pmu[e].name
    BY <2>1, <2>2, <2>3 DEF AsAsked
  <2>5. ModeOf(h) = LoopMode(target, q.pmu[e])
    BY <2>1 DEF ModeOf
  <2>6. LoopMode(target, q.pmu[e]) \in {"perf", "gpu", "none"}
    BY DEF LoopMode
  <2>7. ~ (q.pmu[e].mode = "mppa" /\ target = "mppa")
    BY DEF HostEvents
  <2> HIDE DEF x, h
  <2> QED
    BY <2>2, <2>3, <2>4, <2>5, <2>6, <2>7 DEF OfOneCall, OfOneRound, x, h
<1>9. ASSUME H = {}, NEW r \in 0 .. q.repeat - 1
      PROVE  /\ results[Slot(r, 1)].event = "time" /\ results[Slot(r, 1)].num >= q.min
             /\ \E pace \in Paces : results[Slot(r, 1)].num = pace * results[Slot(r, 1)].den
  <2>1. ask.events = << >> /\ 1 \in 1 .. ValuesNum
    BY <1>6, <1>7, <1>9
  <2>2. OfOneRound(results[Slot(r, 1)], 1) /\ AsAsked(results[Slot(r, 1)], 1)
    BY <1>4, <2>1
  <2> QED
    BY <1>1, <2>1, <2>2 DEF OfOneRound, AsAsked
<1> QED
  BY <1>1, <1>2, <1>3, <1>7, <1>8, <1>9

\* The MPPA device: a value for each event, those of the host from the first repeat.
LEMMA InterleavedListed ==
  ASSUME IInv, ResultsInv, step = "looping", stage = "done", target = "mppa", list' = Interleaved,
         UNCHANGED <<request, target, ranges>>
  PROVE  Listed'
<1> DEFINE q == request.ask
<1> DEFINE n == Len(q.pmu)
<1>1. /\ q \in AskTypes /\ n \in Nat /\ DOMAIN q.pmu = 1 .. n
      /\ q.number = 1 /\ q.min = 0 /\ ask = LoopCall(target, q)
  BY CallAsked, HostPlaces DEF ResultsInv, LoopAsked, Rests
<1>2. list' = [e \in 1 .. n |-> IF e \in HostEvents(target, q)
                                THEN results[HostPlace(target, q, e)] ELSE DeviceCount(e)]
  BY <1>1 DEF Interleaved
<1>3. Len(list') = n
  BY <1>1, <1>2, LengthOf
<1>4. ASSUME NEW e \in 1 .. n PROVE OfOneCall(list'[e], q.pmu[e])
  <2>1. CASE e \in HostEvents(target, q)
    <3> DEFINE h == HostPlace(target, q, e)
    <3>1. h \in Nat /\ ValuesNum \in Nat
      <4>1. h \in 1 .. Cardinality(HostEvents(target, q)) /\ Cardinality(HostEvents(target, q)) \in Nat
        BY <1>1, <2>1, HostPlaces
      <4>2. ValuesNum \in {1, Cardinality(HostEvents(target, q))}
        BY DoneResults
      <4> QED
        BY <4>1, <4>2
    <3>2. Slot(0, h) = h /\ 0 \in 0 .. q.repeat - 1
      BY <3>1, DoneResults DEF Slot
    <3>3. OfOneCall(results[Slot(0, h)], q.pmu[e])
      BY <2>1, <3>2, DoneResults
    <3> QED
      BY <1>2, <2>1, <3>2, <3>3
  <2>2. CASE e \notin HostEvents(target, q)
    <3>1. q.pmu[e].mode = "mppa"
      BY <1>1, <2>2 DEF HostEvents
    <3>2. calls - enabled = ask.repeat
      <4>1. ask.number = 1 /\ ask.min = 0
        BY <1>1 DEF LoopCall
      <4>2. calls = enabled + repeats
        BY <4>1 DEF ResultsInv, AskedInv, CallsAreRepeats
      <4>3. enabled \in Nat /\ repeats \in Nat
        BY DEF ResultsInv, LoopInv, LoopTypeOK
      <4>4. repeats = ask.repeat
        BY DoneResults
      <4> QED
        BY <4>2, <4>3, <4>4
    <3>3. list'[e] = Result(q.pmu[e].name, ask.repeat, ask.repeat)
      BY <1>2, <2>2, <3>2 DEF DeviceCount
    <3> QED
      BY <3>1, <3>3 DEF OfOneCall, Result
  <2> QED
    BY <2>1, <2>2
<1> QED
  BY <1>3, <1>4 DEF Listed, OfOneCall

\* The host and the GPU: all values of the loop, event by event of each repeat.
LEMMA LoopListed ==
  ASSUME IInv, ResultsInv, step = "looping", stage = "done", target # "mppa", list' = results,
         UNCHANGED <<request, target, ranges>>
  PROVE  Listed'
<1> DEFINE q == request.ask
<1> DEFINE n == Len(q.pmu)
<1>1. /\ q \in AskTypes /\ n \in Nat /\ DOMAIN q.pmu = 1 .. n /\ target # "tvm"
      /\ Cardinality(HostEvents(target, q)) = n
      /\ \A e \in 1 .. n : HostPlace(target, q, e) = e
  BY CallAsked, HostPlaces DEF ResultsInv, LoopAsked, Rests
<1>2. HostEvents(target, q) = 1 .. n /\ (1 .. n = {} <=> n = 0)
  BY <1>1 DEF HostEvents
<1>3. ValuesNum = IF n = 0 THEN 1 ELSE n
  BY <1>1, <1>2, DoneResults
<1>4. Len(results) = q.repeat * ValuesNum /\ q.repeat \in Nat \ {0}
  <2>1. q.repeat * ValuesNum \in Nat /\ q.repeat \in Nat \ {0}
    BY <1>1, <1>3, DoneResults
  <2> QED
    BY <2>1, DoneResults, LengthOf
<1>5. CASE n > 0
  <2>1. \A r \in 0 .. q.repeat - 1, e \in 1 .. n : OfOneCall(list'[r * n + e], q.pmu[e])
    <3> SUFFICES ASSUME NEW r \in 0 .. q.repeat - 1, NEW e \in 1 .. n
                 PROVE  OfOneCall(results[r * n + e], q.pmu[e])
      OBVIOUS
    <3>1. OfOneCall(results[Slot(r, HostPlace(target, q, e))], q.pmu[e])
      BY <1>2, DoneResults
    <3>2. Slot(r, HostPlace(target, q, e)) = r * n + e
      BY <1>1, <1>3, <1>5 DEF Slot
    <3> QED
      BY <3>1, <3>2
  <2> QED
    BY <1>1, <1>3, <1>4, <1>5, <2>1 DEF Listed, OfOneCall
<1>6. CASE n = 0
  <2>1. ValuesNum = 1 /\ Len(results) = q.repeat
    BY <1>3, <1>4, <1>6
  <2>2. DOMAIN results = 1 .. q.repeat
    BY <1>4, <2>1, DoneResults
  <2>3. ASSUME NEW i \in 1 .. q.repeat
        PROVE  /\ results[i].event = "time" /\ results[i].num >= q.min
               /\ \E pace \in Paces : results[i].num = pace * results[i].den
    <3>1. Slot(i - 1, 1) = i /\ i - 1 \in 0 .. q.repeat - 1
      BY <1>4, <2>1 DEF Slot
    <3> QED
      BY <1>2, <1>6, <3>1, DoneResults
  <2> QED
    BY <1>1, <1>6, <2>1, <2>2, <2>3 DEF Listed
<1> QED
  BY <1>1, <1>5, <1>6

LEMMA EndMeasureList == IInv /\ ResultsInv /\ EndMeasure => ListInv'
<1> SUFFICES ASSUME IInv, ResultsInv, EndMeasure PROVE ListInv'
  OBVIOUS
<1>1. /\ step = "looping" /\ stage = "done" /\ step' = "finishing" /\ code' = code /\ code = 0
      /\ list' = IF target = "mppa" THEN Interleaved ELSE results
      /\ UNCHANGED <<request, target, ranges>>
  BY DEF EndMeasure, LoopReturn, loopRanges, callVars, ResultsInv, ListInv
<1>2. Listed'
  BY <1>1, InterleavedListed, LoopListed
<1> QED
  BY <1>1, <1>2 DEF ListInv

LEMMA TvmMeasureList == IInv /\ ResultsInv /\ TvmMeasure => ListInv'
<1> SUFFICES ASSUME IInv, ResultsInv, TvmMeasure PROVE ListInv'
  OBVIOUS
<1> DEFINE q == request.ask
<1>1. /\ step = "measuring" /\ step' = "finishing" /\ code' = code /\ code = 0 /\ target = "tvm"
      /\ UNCHANGED <<request, target>>
  BY DEF TvmMeasure, callVars, ResultsInv, ListInv
<1>2. PICK paces \in [1 .. q.repeat -> Paces] :
        list' = [r \in DOMAIN paces |-> Result("time", AtLeastOne(q.number) * paces[r], 1)]
  BY DEF TvmMeasure
<1>3. q.repeat \in Nat
  BY <1>1 DEF IInv, RequestFits, Rests, AskTypes
<1>4. Len(list') = q.repeat /\ DOMAIN list' = 1 .. q.repeat
  BY <1>2, <1>3, LengthOf
<1>5. \A r \in DOMAIN list' :
        \E pace \in Paces : list'[r] = Result("time", AtLeastOne(q.number) * pace, 1)
  BY <1>2
<1> QED
  BY <1>1, <1>4, <1>5 DEF ListInv, Listed

LEMMA ListNext == IInv /\ ResultsInv /\ [Next]_vars => ListInv'
<1> SUFFICES ASSUME IInv, ResultsInv, [Next]_vars PROVE ListInv'
  OBVIOUS
<1>1. CASE UNCHANGED vars
  BY <1>1 DEF vars, loopVars, ResultsInv, ListInv, Listed, OfOneCall
<1>2. CASE step' \in {"idle", "raised"}
  BY <1>2 DEF ListInv
<1>3. ASSUME NEW r \in Requests[target], Evaluate(r) PROVE ListInv'
  BY <1>3 DEF Evaluate, ListInv
<1>4. CASE \/ BuildRuntimeLib \/ InitDevice \/ Load \/ Prepare \/ Pin \/ TvmRead \/ TvmStage
           \/ Measure \/ Looping
  <2>1. UNCHANGED <<list, code>>
    BY <1>4
    DEF BuildRuntimeLib, InitDevice, Load, Prepare, Pin, TvmRead, TvmStage, Measure, Looping
  <2>2. step \in {"loading", "staging", "preparing", "pinning", "measuring", "looping"}
    BY <1>4
    DEF BuildRuntimeLib, InitDevice, Load, Prepare, Pin, TvmRead, TvmStage, Measure, Looping
  <2>3. step' \in {"loading", "staging", "preparing", "pinning", "validating", "measuring",
                   "looping", "raised"}
    BY <1>4, <2>2
    DEF BuildRuntimeLib, InitDevice, Load, Prepare, Pin, TvmRead, TvmStage, Measure, Looping,
        Raise, ToMeasure
  <2> QED
    BY <2>1, <2>2, <2>3 DEF ResultsInv, ListInv
<1>5. CASE Validate
  <2>1. /\ step = "validating" /\ list' = list
        /\ \/ step' = "measuring" /\ code' = 0
           \/ step' = "finishing" /\ code' = 1
           \/ step' = "raised"
    BY <1>5 DEF Validate, Raise
  <2> QED
    BY <2>1 DEF ResultsInv, ListInv
<1>6. CASE Unload \/ Return
  <2>1. /\ step \in {"finishing", "copying"} /\ step' \in {"copying", "returned"}
        /\ UNCHANGED <<target, request, list, code, ranges>>
    BY <1>6 DEF Unload, Return, callVars, loopVars
  <2>2. Listed => Listed'
    BY <2>1 DEF Listed, OfOneCall
  <2>3. IF code = 1 THEN list = << >> ELSE Listed
    BY <2>1 DEF ResultsInv, ListInv
  <2> QED
    BY <2>1, <2>2, <2>3 DEF ListInv
<1>7. ASSUME NEW where \in {"host", "device"}, MakeArrays(where) PROVE step' = "idle"
  BY <1>7 DEF MakeArrays
<1>8. DropArrays \/ ReadOutput \/ DeinitDevice => step' = "idle"
  BY DEF DropArrays, ReadOutput, DeinitDevice
<1> QED
  BY <1>1, <1>2, <1>3, <1>4, <1>5, <1>6, <1>7, <1>8, EndMeasureList, TvmMeasureList DEF Next

\* An evaluation that measures runs the measuring loop: seen through the loop's variables,
\* whatever the targets do around it, every behaviour is one the loop's own specification has.
THEOREM RefinesLoop == Spec => LoopSpec
<1>1. Init => IInv /\ LoopAsked /\ LoopInit
  BY InitInv DEF Init, LoopInit, LoopAsked, Rests
<1>2. IInv /\ LoopAsked /\ [Next]_vars => IInv' /\ LoopAsked'
  BY NextInv, LoopAskedNext
<1>3. IInv /\ LoopAsked /\ [Next]_vars => [LoopNext]_loopVars
  BY StepsOfLoop
<1> QED
  BY <1>1, <1>2, <1>3, PTL DEF Spec, LoopSpec

\* The results returned are those asked for: one for each repeat and event, in order, each
\* of one call, for any requests and however long the payload takes.
THEOREM ReturnedPerCall == Spec => []ResultsArePerCall
<1>1. Init => IInv /\ ResultsInv
  <2>1. Init => LoopInv /\ AskedInv
    BY LoopInvInit, AskedInit DEF Init
  <2>2. Init => LoopAsked /\ ListInv
    BY DEF Init, LoopInit, LoopAsked, ListInv, Rests
  <2> QED
    BY <2>1, <2>2, InitInv DEF ResultsInv
<1>2. IInv /\ ResultsInv /\ [Next]_vars => IInv' /\ ResultsInv'
  <2>1. IInv /\ ResultsInv /\ [Next]_vars => LoopInv' /\ AskedInv'
    BY StepsOfLoop, LoopInvNext, AskedNext DEF ResultsInv
  <2> QED
    BY <2>1, NextInv, LoopAskedNext, ListNext DEF ResultsInv
<1>3. ResultsInv => ResultsArePerCall
  BY DEF ResultsInv, LoopInv, ListInv, ResultsArePerCall
<1> QED
  BY <1>1, <1>2, <1>3, PTL DEF Spec
=============================================================================
