----------------------------- MODULE MCEvaluation -----------------------------
(* Evaluations of a few modules, three in a process, on each target. *)
EXTENDS Evaluation

McModule(name, writes, where) == [name |-> name, writes |-> writes, where |-> where]
Host   == {McModule("a", "good", "host"), McModule("b", "nothing", "host")}
Device == {McModule("c", "bad", "device"), McModule("d", "good", "device")}
First  == CHOOSE m \in Host : m.name = "a"
Placed == CHOOSE m \in Device : m.name = "d"

McOption(given, validate, zero) == [given |-> given, validate |-> validate, zero |-> zero]
McOptions ==
  {McOption("none", TRUE, TRUE), McOption("none", TRUE, FALSE)}
    \cup {McOption(given, validate, FALSE) : given \in {"numpy", "ndarray"}, validate \in BOOLEAN}

Event(name, mode) == [name |-> name, mode |-> mode]
Ask(repeat, number, min, pmu) == [repeat |-> repeat, number |-> number, min |-> min, pmu |-> pmu]
Cycles == Event("cycles", "perf")
Once   == Ask(1, 0, 0, << >>)
Timed  == Ask(2, 1, 3, << >>)
PerfEvents == Ask(2, 2, 3, <<Event("gpu.cycles", "gpu"), Cycles, Event("unknown", "none")>>)
MppaEvents == Ask(2, 1, 0, <<Event("mppa.SC", "mppa"), Cycles, Event("gpu.clocks", "gpu"),
                             Event("mppa.PCC", "mppa"), Event("misses", "perf")>>)

Plain(modules) == [module : modules, options : McOptions, ask : {Once}]
Measuring(asks) == [module : {First}, options : {McOption("none", FALSE, TRUE)}, ask : asks]

\* MppaDevice wants one call in a repeat and no least time, TVM no events.
McRequests ==
  [host |-> Plain(Host) \cup Measuring({Timed, PerfEvents}),
   gpu  |-> Plain(Host \cup Device) \cup Measuring({Timed, PerfEvents}),
   tvm  |-> Plain(Host \cup Device) \cup Measuring({Ask(2, 2, 0, << >>)}),
   mppa |-> [module : Host \cup {Placed}, options : McOptions, ask : {Ask(1, 1, 0, << >>)}]
              \cup Measuring({MppaEvents})]

McAsked ==
  UNION {{LoopCall(t, r.ask) : r \in McRequests[t]} : t \in DOMAIN McRequests \ {"tvm"}}
=============================================================================
