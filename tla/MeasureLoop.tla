----------------------------- MODULE MeasureLoop -----------------------------
(***************************************************************************)
(* The measuring loop of csrcs/runtimes/host/evaluate_perf.c with the       *)
(* performance events of perf_event_linux.c and perf_event_gpu.cpp: after a *)
(* warm-up call, each repeat runs rounds of calls, twice as many each time, *)
(* until one lasts long enough; its counts are divided by its calls.        *)
(*                                                                          *)
(* An event is a record of its name and of how it can be counted: "perf"    *)
(* through a file descriptor, "gpu" by the range profiler, "none" not at    *)
(* all.  The unit of an event is what one call of the payload counts.       *)
(***************************************************************************)
EXTENDS Integers, Sequences, FiniteSets

CONSTANTS
  Asked,      \* the calls: records of repeat, number, min (min_repeat_ms) and events
  Paces,      \* time one call of the payload may take
  MaxInt,     \* the largest int
  MaxRanges   \* MAX_NUM_OF_RANGES of the GPU's counter data image

ASSUME MeasureAssumption ==
  /\ Paces \subseteq Nat /\ MaxInt \in Nat /\ MaxRanges \in Nat
  /\ \A q \in Asked : /\ q.repeat \in Nat \ {0} /\ q.number \in Nat /\ q.min \in Nat
                      /\ q.number <= MaxInt /\ 1 <= MaxInt
                      /\ q.events \in Seq([name : STRING, mode : {"perf", "gpu", "none"}])

VARIABLES
  ask,        \* the call
  stage,      \* "idle", "called", "open", "round", "started", "run", "done";
              \* "thrown" or "overflowed", where the program does not go on
  repeats,    \* r, the repeats that are measured
  attempts,   \* calls in a round
  elapsed,    \* time of the last round
  calls,      \* calls of the payload: what the counters show
  enabled,    \* calls before ENABLE_PERF_EVENTS
  metrics,    \* size of g_metrics
  ranges,     \* kernels launched since the counter data image was made
  firstRange, \* _current_range_index
  began,      \* _tmp_results
  values, results

loopVars == <<ask, stage, repeats, attempts, elapsed, calls, enabled, metrics, ranges,
              firstRange, began, values, results>>
loopCounters == <<repeats, attempts, elapsed, calls, enabled>>
loopRanges   == <<metrics, ranges, firstRange>>

Events     == DOMAIN ask.events
ModeOf(e)  == ask.events[e].mode
NumGpu(q) == Cardinality({e \in DOMAIN q.events : q.events[e].mode = "gpu"})
\* number = 1 where it was 0
Number     == IF ask.number > 0 THEN ask.number ELSE 1
ValuesNum  == IF ask.events = << >> THEN 1 ELSE Len(ask.events)
Recorded(n) == IF n < MaxRanges THEN n ELSE MaxRanges

Result(event, num, den) == [event |-> event, num |-> num, den |-> den]
Unset == Result("unset", 0, 1)

NothingAsked == [repeat |-> 1, number |-> 0, min |-> 0, events |-> << >>]

LoopInit ==
  /\ ask = NothingAsked
  /\ stage = "idle"
  /\ repeats = 0 /\ attempts = 1 /\ elapsed = 0
  /\ calls = 0 /\ enabled = 0
  /\ metrics = 0 /\ ranges = 0 /\ firstRange = 0
  /\ began = << >> /\ values = << >> /\ results = << >>

Call(q) ==
  /\ stage = "idle"
  /\ ask' = q /\ stage' = "called"
  /\ repeats' = 0 /\ attempts' = 1 /\ elapsed' = 0
  /\ began' = [e \in DOMAIN q.events |-> 0] /\ values' = [e \in DOMAIN q.events |-> 0]
  /\ results' = [i \in 1 .. q.repeat * (IF q.events = << >> THEN 1 ELSE Len(q.events)) |-> Unset]
  /\ UNCHANGED <<calls, enabled, loopRanges>>

\* open_perf_events__gpu throws unless the events are all the metrics.
SubsetOfMetrics(n) == n # 0 /\ NumGpu(ask) # n

\* GET_PERF_EVENT_CONFIG of each event, then OPEN_PERF_EVENTS: the metrics of earlier
\* calls are still in g_metrics.
OpenEvents ==
  /\ stage = "called"
  /\ metrics' = metrics + NumGpu(ask)
  /\ \/ /\ ~ SubsetOfMetrics(metrics')
        /\ stage' = "open" /\ ranges' = 0 /\ firstRange' = 0
     \/ /\ SubsetOfMetrics(metrics')
        /\ stage' = "thrown" /\ UNCHANGED <<ranges, firstRange>>
  /\ UNCHANGED <<ask, loopCounters, began, values, results>>

WarmUp ==
  /\ stage = "open"
  /\ calls' = IF ask.number > 0 THEN calls + 1 ELSE calls
  /\ enabled' = calls'
  /\ attempts' = Number /\ stage' = "round"
  /\ UNCHANGED <<ask, repeats, elapsed, loopRanges, began, values, results>>

\* RESET_PERF_EVENTS, then START_PERF_EVENTS.
StartRound ==
  /\ stage = "round"
  /\ values' = [e \in Events |-> 0]
  /\ firstRange' = Recorded(ranges)
  /\ began' = [e \in Events |-> IF ModeOf(e) = "perf" THEN calls ELSE began[e]]
  /\ stage' = "started"
  /\ UNCHANGED <<ask, loopCounters, metrics, ranges, results>>

RunRound ==
  /\ stage = "started"
  /\ \E pace \in Paces : elapsed' = attempts * pace
  /\ calls' = calls + attempts /\ ranges' = ranges + attempts
  /\ stage' = "run"
  /\ UNCHANGED <<ask, repeats, attempts, enabled, metrics, firstRange, began, values, results>>

\* The sum of a metric over the ranges since the round was started.
GpuSum == Recorded(ranges) - firstRange

\* STOP_PERF_EVENTS: what each event counted since it was started.
Stopped(e) ==
  IF ModeOf(e) = "perf" THEN values[e] + (calls - began[e])
  ELSE IF ModeOf(e) = "gpu" THEN GpuSum ELSE values[e]

\* Mutant: the calls asked for.
DivisorAsked == Number

\* The calls of the round, which may be more than those asked for.
Divisor == attempts

\* The value of event e, or the time where no event is asked for.
Measured(e) ==
  IF ask.events = << >> THEN Result("time", elapsed, Divisor)
  ELSE IF ModeOf(e) = "none" THEN Result(ask.events[e].name, -1, 1)
  ELSE Result(ask.events[e].name, Stopped(e), Divisor)

\* The place of a value: results[r*events_num+e]
Slot(r, e) == r * ValuesNum + e

LongEnough ==
  /\ stage = "run" /\ elapsed >= ask.min
  /\ values' = [e \in Events |-> Stopped(e)]
  /\ results' = [i \in DOMAIN results |->
                   IF \E e \in 1 .. ValuesNum : i = Slot(repeats, e)
                   THEN Measured(i - repeats * ValuesNum) ELSE results[i]]
  /\ repeats' = repeats + 1 /\ attempts' = Number
  /\ stage' = IF repeats' = ask.repeat THEN "done" ELSE "round"
  /\ UNCHANGED <<ask, elapsed, calls, enabled, loopRanges, began>>

TooShort ==
  /\ stage = "run" /\ elapsed < ask.min
  /\ values' = [e \in Events |-> Stopped(e)]
  /\ IF 2 * attempts <= MaxInt THEN attempts' = 2 * attempts /\ stage' = "round"
                               ELSE stage' = "overflowed" /\ UNCHANGED attempts
  /\ UNCHANGED <<ask, repeats, elapsed, calls, enabled, loopRanges, began, results>>

\* The call returns: its variables are gone, the metrics are not.
LoopReturn ==
  /\ stage = "done"
  /\ ask' = NothingAsked /\ stage' = "idle"
  /\ repeats' = 0 /\ attempts' = 1 /\ elapsed' = 0 /\ calls' = 0 /\ enabled' = 0
  /\ began' = << >> /\ values' = << >> /\ results' = << >>
  /\ UNCHANGED loopRanges

LoopStep == OpenEvents \/ WarmUp \/ StartRound \/ RunRound \/ LongEnough \/ TooShort
LoopNext == LoopStep \/ LoopReturn \/ \E q \in Asked : Call(q)
LoopSpec == LoopInit /\ [][LoopNext]_loopVars

-----------------------------------------------------------------------------
(* Properties. *)

EventNames ==
  {"unset", "time"} \cup UNION {{q.events[e].name : e \in DOMAIN q.events} : q \in Asked}
ResultTypes == [event : EventNames, num : Int, den : Nat \ {0}]

LoopTypeOK ==
  /\ ask \in Asked \cup {NothingAsked}
  /\ stage \in {"idle", "called", "open", "round", "started", "run", "done", "thrown", "overflowed"}
  /\ repeats \in Nat /\ attempts \in Nat \ {0} /\ elapsed \in Nat
  /\ calls \in Nat /\ enabled \in Nat
  /\ metrics \in Nat /\ ranges \in Nat /\ firstRange \in Nat
  /\ stage # "idle" =>
       /\ ask \in Asked
       /\ began \in [Events -> Nat] /\ values \in [Events -> Int]
       /\ results \in [1 .. ask.repeat * ValuesNum -> ResultTypes]

\* A result is of one round: as much was counted as calls are divided by, however many
\* rounds were too short before it, and a time is that of a round that lasts long enough.
OfOneRound(x, e) ==
  IF ask.events = << >> THEN x.num >= ask.min
  ELSE /\ ModeOf(e) = "perf" => x.num = x.den
       /\ ModeOf(e) = "gpu"  => (ranges <= MaxRanges => x.num = x.den)
       /\ ModeOf(e) = "none" => x.num = -1

\* The results written so far, by repeat and event.
ResultsAreOfOneRound ==
  stage # "idle" =>
    \A r \in 0 .. repeats - 1, e \in 1 .. ValuesNum : OfOneRound(results[Slot(r, e)], e)
=============================================================================
