------------------------------ MODULE Evaluation ------------------------------
(***************************************************************************)
(* Evaluating compiled modules, one after the other in one process: the     *)
(* evaluators of targets/, utils/evaluation.py, the arrays of               *)
(* runtimes/types/ndarray.py and the devices of runtimes/accelerator.  The  *)
(* measure itself is MeasureLoop.  A module has one input and one output;   *)
(* what matters of an output is whether it is "good", the result of the     *)
(* reference, "bad", another one, "zero", or "junk".                        *)
(*                                                                          *)
(* A module is a record: its name, what its payload writes ("good", "bad"   *)
(* or "nothing") and where the graph places its tensors, "host" or          *)
(* "device".  A request adds to what is measured the parameters given       *)
(* ("none", "numpy" or "ndarray") and the options validate and zero; of the *)
(* events asked for, pmu, each is counted by "perf", "mppa" or "gpu".       *)
(*                                                                          *)
(* The caller may give any tensors: also such as are not where the graph    *)
(* places them, or whose device memory went with an earlier session.  What  *)
(* a payload does with these is undefined: see Called.                      *)
(***************************************************************************)
EXTENDS MeasureLoop, SequencesExt, Functions

CONSTANTS
  Requests,       \* what may be asked of each target, "host", "mppa", "gpu" or "tvm" (TVM
                  \* modules for the GPU): [module, options, ask]
  MaxKernels,     \* MAX_NB_LOADED_KERNELS
  MaxEvaluations, \* bound: evaluations in a process
  MaxArrays,      \* bound: NDArrays made before the caller makes no more
  MaxSessions     \* bound: initialisations of the device

ModuleTypes == [name : STRING, writes : {"good", "bad", "nothing"}, where : {"host", "device"}]
OptionTypes == [given : {"none", "numpy", "ndarray"}, validate : BOOLEAN, zero : BOOLEAN]
AskTypes    == [repeat : Nat \ {0}, number : 0 .. MaxInt, min : Nat,
                pmu : Seq([name : STRING, mode : {"perf", "mppa", "gpu", "none"}])]

\* Of the events that q asks of target t: an accelerator counts its own apart, the others
\* are for the C loop, one after the other.
HostEvents(t, q) == {e \in DOMAIN q.pmu : t = "mppa" => q.pmu[e].mode # "mppa"}
HostPlace(t, q, e) == Cardinality({d \in HostEvents(t, q) : d <= e})

\* The C loop knows the events of the GPU only in the runtime made for it.
LoopMode(t, e) == IF e.mode = "perf" \/ (e.mode = "gpu" /\ t = "gpu") THEN e.mode ELSE "none"

\* The call of evaluate_perf.
LoopCall(t, q) ==
  [repeat |-> q.repeat, number |-> q.number, min |-> q.min,
   events |-> [h \in 1 .. Cardinality(HostEvents(t, q)) |->
     LET e == q.pmu[CHOOSE d \in HostEvents(t, q) : HostPlace(t, q, d) = h] IN
     [name |-> e.name, mode |-> LoopMode(t, e)]]]

ASSUME EvaluationAssumption ==
  /\ DOMAIN Requests \subseteq {"host", "mppa", "gpu", "tvm"}
  /\ \A t \in DOMAIN Requests :
       Requests[t] \subseteq [module : ModuleTypes, options : OptionTypes, ask : AskTypes]
  /\ \A r \in IF "mppa" \in DOMAIN Requests THEN Requests["mppa"] ELSE {} :
       r.ask.number = 1 /\ r.ask.min = 0    \* asserted by MppaEvaluator
  /\ \A t \in DOMAIN Requests \ {"tvm"} : \A r \in Requests[t] : LoopCall(t, r.ask) \in Asked
  /\ MaxSessions \in Nat

VARIABLES
  target,     \* constant
  built,      \* the MPPA runtime library is built and loaded
  on,         \* mppa_initialized
  session,    \* initialisations of the device so far
  opened,     \* handles on the library of each module
  kernels,    \* loaded_kernels
  pinned,     \* registered buffers, as the arrays they belong to
  arrays,     \* the NDArrays alive
  made,       \* NDArrays made
  caller,     \* what the caller holds: its numpy output, its NDArrays
  step,       \* where the evaluation is
  request,    \* what is evaluated
  code,       \* the error code
  list,       \* the list of results returned
  held,       \* what was held when the evaluation began, for the properties
  evaluations

devVars  == <<built, on, session>>
libVars  == <<opened, kernels>>
dataVars == <<pinned, arrays, made, caller>>
callVars == <<target, request, held, evaluations>>
vars == <<loopVars, target, devVars, libVars, dataVars, step, request, code, list, held,
          evaluations>>

Targets == DOMAIN Requests
Modules == {r.module : r \in UNION Range(Requests)}

\* The device may be used.
Ready == target = "mppa" => on

Accelerated == target \in {"mppa", "gpu"}

-----------------------------------------------------------------------------
(* NDArrays. *)

\* An array: what it is for, whether it lives on the device, the session its device
\* memory is of, and its contents on either side.
Array(role, where, host) ==
  [role |-> role, where |-> where, session |-> session, host |-> host,
   dev |-> IF where = "device" THEN host ELSE "none"]

\* Mutant: the host's side, without the copy.
NumpyOfHost(x) == x.host

\* What numpy() returns: the device's side is copied to the host first.
Numpy(x) == IF x.where = "device" THEN x.dev ELSE x.host
Synced(x) == [x EXCEPT !.host = Numpy(x)]

\* A payload writes its output where it lives.
Written(x, content) ==
  IF content = "nothing" THEN x
  ELSE IF x.where = "device" THEN [x EXCEPT !.dev = content] ELSE [x EXCEPT !.host = content]

\* Its memory is there to be used.
Alive(x) == x.where = "device" => (target = "mppa" => on /\ x.session = session)

\* Memory of the device is used: the device is initialised when it is not, and the handle
\* stays the one it was.
Woken(where) ==
  IF where = "device" /\ ~ Ready THEN on' = TRUE /\ session' = session + 1
  ELSE UNCHANGED <<on, session>>

\* The device's side is gone with its session.
Lost == [a \in DOMAIN arrays |-> IF arrays[a].where = "device"
                                 THEN [arrays[a] EXCEPT !.dev = "junk"] ELSE arrays[a]]

WithArrays(x, y) ==
  /\ arrays' = [a \in DOMAIN arrays \cup {made + 1, made + 2} |->
                  CASE a = made + 1 -> x [] a = made + 2 -> y [] OTHER -> arrays[a]]
  /\ made' = made + 2

Input  == request.params[1]
Output == request.params[2]

\* The arrays made for the evaluation die with its frame: memory is freed on both sides.
WithoutLocals == Restrict(arrays, ToSet(caller.ndarrays))

Init ==
  /\ LoopInit
  /\ target \in Targets
  /\ built = FALSE /\ on = FALSE /\ session = 0
  /\ opened = [m \in Modules |-> 0] /\ kernels = {} /\ pinned = {}
  /\ arrays = << >> /\ made = 0
  /\ caller = [output |-> "junk", ndarrays |-> << >>]
  /\ step = "idle"
  /\ request = [module |-> "none"]
  /\ code = 0 /\ list = << >> /\ evaluations = 0
  /\ held = [opened |-> opened, kernels |-> {}, pinned |-> {}, arrays |-> {}]

-----------------------------------------------------------------------------
(* The caller, between two evaluations. *)

Resting == step \in {"idle", "returned", "raised"} /\ stage = "idle"

\* NDArrays of its own.  memory_allocate asserts the runtime library but does not initialise
\* the device: the first array is allocated in the session that is gone, or before there was
\* one, and the copy to it initialises.
MakeArrays(where) ==
  /\ Resting /\ caller.ndarrays = << >> /\ made < MaxArrays
  /\ where = "device" => target # "host" /\ (target = "mppa" => built)
  /\ Woken(where)
  /\ WithArrays(Array("in", where, "in"), [Array("out", where, "junk") EXCEPT !.session = session'])
  /\ caller' = [caller EXCEPT !.ndarrays = <<made + 1, made + 2>>]
  /\ step' = "idle"
  /\ UNCHANGED <<loopVars, callVars, built, libVars, pinned, code, list>>

\* __del__: the device's memory is freed, which may fail.
DropArrays ==
  /\ Resting /\ caller.ndarrays # << >>
  /\ Woken(arrays[caller.ndarrays[1]].where) \/ UNCHANGED <<on, session>>
  /\ arrays' = << >> /\ caller' = [caller EXCEPT !.ndarrays = << >>]
  /\ step' = "idle"
  /\ UNCHANGED <<loopVars, callVars, built, libVars, pinned, made, code, list>>

\* numpy() of its output.
ReadOutput ==
  /\ Resting /\ caller.ndarrays # << >>
  /\ Woken(arrays[caller.ndarrays[2]].where)
  /\ arrays' = [arrays EXCEPT ![caller.ndarrays[2]] = Synced(@)]
  /\ step' = "idle"
  /\ UNCHANGED <<loopVars, callVars, built, libVars, pinned, made, caller, code, list>>

\* deinit_device unloads the modules; mppa_deinit_device may fail.
DeinitDevice ==
  /\ Resting /\ target = "mppa" /\ on /\ session < MaxSessions
  /\ opened' = [m \in Modules |-> IF m \in kernels THEN opened[m] - 1 ELSE opened[m]]
  /\ kernels' = {}
  /\ \/ on' = FALSE /\ arrays' \in {arrays, Lost}
     \/ UNCHANGED <<on, arrays>>
  /\ step' = "idle"
  /\ UNCHANGED <<loopVars, callVars, built, session, pinned, made, caller, code, list>>

Evaluate(r) ==
  /\ Resting /\ evaluations < MaxEvaluations
  /\ r.options.given = "ndarray" => caller.ndarrays # << >>
  /\ request' = [module |-> r.module, options |-> r.options, ask |-> r.ask, params |-> << >>]
  /\ step' = "loading" /\ code' = 0 /\ list' = << >>
  /\ held' = [opened |-> opened, kernels |-> kernels, pinned |-> pinned, arrays |-> DOMAIN arrays]
  /\ evaluations' = evaluations + 1
  /\ UNCHANGED <<loopVars, target, devVars, libVars, dataVars>>

-----------------------------------------------------------------------------
(* evaluate *)

Payload == request.module.writes
Module  == request.module

\* The evaluation ends with an exception: nothing is put back.
Raise == step' = "raised" /\ arrays' = WithoutLocals

ToMeasure == IF request.options.validate THEN "validating" ELSE "measuring"

\* __build_runtime_lib, once: the library is compiled and loaded.
BuildRuntimeLib ==
  /\ step = "loading" /\ ~ Ready /\ ~ built
  /\ (built' = TRUE /\ UNCHANGED <<step, arrays>>) \/ (Raise /\ UNCHANGED built)
  /\ UNCHANGED <<loopVars, callVars, on, session, libVars, pinned, made, caller, code, list>>

\* The rest of init_device: mppa_init_device may fail.
InitDevice ==
  /\ step = "loading" /\ ~ Ready /\ built
  /\ \/ on' = TRUE /\ session' = session + 1 /\ UNCHANGED <<step, arrays>>
     \/ Raise /\ UNCHANGED <<on, session>>
  /\ UNCHANGED <<loopVars, callVars, built, libVars, pinned, made, caller, code, list>>

Opened == opened' = [opened EXCEPT ![Module] = @ + 1]
Registered == kernels' = IF Accelerated THEN kernels \cup {Module} ELSE kernels

\* load_module and get_module_function, or LibLoader and getattr; the MPPA device may fail
\* between the two steps of load_module.
Load ==
  /\ step = "loading" /\ target # "tvm" /\ Ready
  /\ \/ /\ target = "mppa" => Cardinality(kernels) # MaxKernels
        /\ Opened
        /\ \/ Registered /\ ((step' = "preparing" /\ UNCHANGED arrays) \/ Raise)
           \/ target = "mppa" /\ Raise /\ UNCHANGED kernels
     \/ Raise /\ UNCHANGED libVars
  /\ UNCHANGED <<loopVars, callVars, devVars, pinned, made, caller, code, list>>

\* np.empty may give memory that still holds the result of an earlier evaluation.
Fresh == IF request.options.zero THEN {"zero"} ELSE {"junk", "good"}

\* ensure_ndarray_parameters; numpy arrays go to the host, whatever the graph says.
Prepare ==
  /\ step = "preparing"
  /\ \/ /\ CASE request.options.given = "none" ->
                 \E content \in Fresh : WithArrays(Array("in", Module.where, "in"),
                                                  Array("out", Module.where, content))
             [] request.options.given = "numpy" ->
                 WithArrays(Array("in", "host", "in"), Array("out", "host", caller.output))
             [] OTHER -> UNCHANGED <<arrays, made>>
        /\ request' = [request EXCEPT !.params =
                         IF request.options.given = "ndarray" THEN caller.ndarrays
                         ELSE <<made + 1, made + 2>>]
        /\ step' = IF target = "gpu" THEN "pinning" ELSE ToMeasure
     \/ Raise /\ UNCHANGED <<request, made>>
  /\ UNCHANGED <<loopVars, target, held, evaluations, devVars, libVars, pinned, caller, code, list>>

\* Mutant: only the inputs are registered.
PinnableInputs == IF Module.where = "host" THEN {Input} ELSE {}

\* The buffers of tensors that the graph leaves on the host.
Pinnable == IF Module.where = "host" THEN {Input, Output} ELSE {}

Pin ==
  /\ step = "pinning"
  /\ pinned' = pinned \cup Pinnable
  /\ step' = ToMeasure
  /\ UNCHANGED <<loopVars, callVars, devVars, libVars, arrays, made, caller, code, list>>

\* _host_buffers of TVMGPUEvaluator: numpy() of the caller's NDArrays.
TvmRead ==
  /\ step = "loading" /\ target = "tvm"
  /\ \/ /\ arrays' = [a \in DOMAIN arrays |->
                       IF request.options.given = "ndarray" THEN Synced(arrays[a]) ELSE arrays[a]]
        /\ step' = "staging"
     \/ Raise
  /\ UNCHANGED <<loopVars, callVars, devVars, libVars, pinned, made, caller, code, list>>

\* Staging buffers on the device, whatever the graph says, never initialised, and a module
\* that is closed with the frame.
TvmStage ==
  /\ step = "staging"
  /\ \/ /\ \E content \in {"junk", "good"} : WithArrays(Array("in", "device", "in"),
                                                       Array("out", "device", content))
        /\ request' = [request EXCEPT !.params = <<made + 1, made + 2>>]
        /\ step' = ToMeasure
     \/ Raise /\ UNCHANGED <<request, made>>
  /\ UNCHANGED <<loopVars, target, held, evaluations, devVars, libVars, pinned, caller, code, list>>

\* Where the payload looks for its tensors.
Place == IF target = "tvm" THEN "device" ELSE Module.where
Reached == \A a \in {Input, Output} : Alive(arrays[a]) /\ arrays[a].where = Place

\* What a call leaves in the output.  A payload whose tensors are not where it looks for
\* them may write them all the same, write elsewhere, or write anything.
Called ==
  {Written(arrays[Output], content) : content \in IF Reached THEN {Payload}
                                                 ELSE {Payload, "nothing", "junk"}}

\* validate_outputs: a call of the payload, and its output compared with the reference.
Validate ==
  /\ step = "validating"
  /\ \E out \in Called :
     \/ /\ arrays' = [arrays EXCEPT ![Input] = Synced(@), ![Output] = Synced(out)]
        /\ code' = IF Numpy(out) = "good" THEN 0 ELSE 1
        /\ step' = IF code' = 0 THEN "measuring" ELSE "finishing"
     \/ Raise /\ UNCHANGED code
  /\ UNCHANGED <<loopVars, callVars, devVars, libVars, pinned, made, caller, list>>

\* evaluate_performance
Measure ==
  /\ step = "measuring" /\ target # "tvm"
  /\ Call(LoopCall(target, request.ask))
  /\ step' = "looping"
  /\ UNCHANGED <<callVars, devVars, libVars, dataVars, code, list>>

Looping ==
  /\ step = "looping" /\ LoopStep
  /\ IF calls' = calls THEN UNCHANGED arrays
     ELSE \E out \in Called : arrays' = [arrays EXCEPT ![Output] = out]
  /\ UNCHANGED <<callVars, devVars, libVars, pinned, made, caller, step, code, list>>

\* What the device counted of one of its own events since they were enabled, over all
\* repeats (the reductions over its processors are left out).
DeviceCount(e) == Result(request.ask.pmu[e].name, calls - enabled, ask.repeat)

\* Mutant: the values of the host come first, those of the device after them.
HostFirst ==
  [e \in DOMAIN request.ask.pmu |->
     IF e <= Cardinality(HostEvents(target, request.ask)) THEN results[e] ELSE DeviceCount(e)]

\* The values of MppaDevice.evaluate_perf: of the events of the host the first values are
\* taken, which are those of the first repeat.
Interleaved ==
  [e \in DOMAIN request.ask.pmu |->
     IF e \in HostEvents(target, request.ask) THEN results[HostPlace(target, request.ask, e)]
     ELSE DeviceCount(e)]

EndMeasure ==
  /\ step = "looping" /\ LoopReturn
  /\ list' = IF target = "mppa" THEN Interleaved ELSE results
  /\ step' = "finishing"
  /\ UNCHANGED <<callVars, devVars, libVars, dataVars, code>>

AtLeastOne(n) == IF n > 0 THEN n ELSE 1

\* _measure of the TVM evaluator: the time of all calls of a repeat, after a warm-up.
TvmMeasure ==
  /\ step = "measuring" /\ target = "tvm"
  /\ \E paces \in [1 .. request.ask.repeat -> Paces] :
       list' = [r \in DOMAIN paces |-> Result("time", AtLeastOne(request.ask.number) * paces[r], 1)]
  /\ arrays' = [arrays EXCEPT ![Output] = Written(@, Payload)]
  /\ step' = "finishing"
  /\ UNCHANGED <<loopVars, callVars, devVars, libVars, pinned, made, caller, code>>

\* Mutant: the library stays open.
ClosedLate == opened

Closed == IF target = "tvm" THEN opened ELSE [opened EXCEPT ![Module] = @ - 1]

Unregistered == IF target = "gpu" THEN pinned \ Pinnable ELSE pinned

\* The buffers are unregistered, then the module is unloaded.
Unload ==
  /\ step = "finishing"
  /\ pinned' = Unregistered
  /\ opened' = Closed /\ kernels' = kernels \ {Module}
  /\ step' = "copying"
  /\ UNCHANGED <<loopVars, callVars, devVars, arrays, made, caller, code, list>>

\* _write_back of TVM: only the host's side of an NDArray.
WrittenBack ==
  IF target = "tvm" /\ request.options.given = "ndarray"
  THEN [WithoutLocals EXCEPT ![caller.ndarrays[2]].host = Numpy(arrays[Output])]
  ELSE WithoutLocals

\* copy_outputs writes a numpy output.
Return ==
  /\ step = "copying"
  /\ caller' = IF request.options.given = "numpy"
               THEN [caller EXCEPT !.output = Numpy(arrays[Output])] ELSE caller
  /\ arrays' = WrittenBack
  /\ step' = "returned"
  /\ UNCHANGED <<loopVars, callVars, devVars, libVars, pinned, made, code, list>>

Next ==
  \/ \E where \in {"host", "device"} : MakeArrays(where)
  \/ DropArrays
  \/ ReadOutput
  \/ DeinitDevice
  \/ \E r \in Requests[target] : Evaluate(r)
  \/ BuildRuntimeLib
  \/ InitDevice
  \/ Load
  \/ Prepare
  \/ Pin
  \/ TvmRead
  \/ TvmStage
  \/ Validate
  \/ Measure
  \/ Looping
  \/ EndMeasure
  \/ TvmMeasure
  \/ Unload
  \/ Return

Spec == Init /\ [][Next]_vars

-----------------------------------------------------------------------------
(* Properties. *)

TypeOK ==
  /\ target \in Targets /\ {built, on} \subseteq BOOLEAN /\ session \in 0 .. MaxSessions
  /\ opened \in [Modules -> Nat] /\ kernels \subseteq Modules
  /\ ToSet(caller.ndarrays) \subseteq DOMAIN arrays
  /\ step \in {"idle", "loading", "preparing", "pinning", "staging", "validating", "measuring", "looping",
               "finishing", "copying", "returned", "raised"}
  /\ code \in {0, 1}

\* An evaluation that returns gives back all it took: handles on libraries, registered
\* buffers, memory on the host and on the device; also when earlier ones have raised and
\* left theirs.
ReturnsWhatItTook ==
  step = "returned" =>
    /\ opened = held.opened /\ DOMAIN arrays = held.arrays
    /\ pinned = held.pinned \ (IF target = "gpu" THEN Pinnable ELSE {})
    /\ kernels = held.kernels \ {Module}

\* What a payload is called with.  Its library is open and registered, and the buffers the
\* graph leaves on the host are registered.  The tensors an evaluator makes are in memory of
\* the present session, and where the payload looks for them, but for numpy parameters of a
\* graph that places its tensors on the device: those stay on the host.  Of the tensors that
\* the caller gives only this is sure: they are there, and their memory is alive unless it is
\* of an earlier session: deinit_device forgets no array, and whoever uses one next
\* initialises the device and passes the old handle.
Calling == step = "validating" \/ (step = "looping" /\ stage \in {"open", "started"})

UsedWhileAlive ==
  Calling =>
    /\ target # "tvm" => opened[Module] > 0
    /\ Accelerated => Module \in kernels
    /\ target = "gpu" /\ Module.where = "host" => {Input, Output} \subseteq pinned
    /\ \A a \in {Input, Output} :
         /\ a \in DOMAIN arrays
         /\ IF a \in ToSet(caller.ndarrays)
            THEN Alive(arrays[a]) \/ arrays[a].session < session
            ELSE /\ Alive(arrays[a])
                 /\ arrays[a].where = Place
                      \/ (request.options.given = "numpy" /\ Module.where = "device")

\* The parameters given are where the graph places its tensors, and of the present session.
Fits ==
  CASE request.options.given = "ndarray" ->
         \A a \in ToSet(caller.ndarrays) : Alive(arrays[a]) /\ arrays[a].where = Module.where
    [] request.options.given = "numpy" -> Module.where = "host"
    [] OTHER -> TRUE

\* After an evaluation that returned, the caller's output is what the payload wrote, whether
\* or not it was validated: what numpy() gives of an NDArray, but after TVM, which writes
\* only the host's side of one on the device, that side (numpy() then copies the device's,
\* which was not written, over it).  A validated output is the one of
\* the reference; a payload that writes it is never refused, and one that does not is, if it
\* cannot have been there before.  All this for parameters that fit, and for any when they
\* are staged by TVM.
OutputsAreThePayloads ==
  step = "returned" /\ (target = "tvm" \/ Fits) =>
    /\ Payload # "nothing" =>
         CASE request.options.given = "numpy"   -> caller.output = Payload
           [] request.options.given = "ndarray" ->
                LET out == arrays[caller.ndarrays[2]] IN
                (IF target = "tvm" THEN out.host ELSE Numpy(out)) = Payload
           [] OTHER -> TRUE
    /\ request.options.validate =>
         /\ Payload = "good" => code = 0
         /\ Payload = "bad"  => code = 1
         /\ Payload = "nothing" /\ request.options.zero /\ request.options.given = "none" =>
              (target # "tvm" => code = 1)

OfOneCall(x, e) ==
  /\ x.event = e.name
  /\ IF e.mode = "mppa" /\ target = "mppa" THEN x.num = x.den
     ELSE CASE LoopMode(target, e) = "perf" -> x.num = x.den
            [] LoopMode(target, e) = "gpu"  -> ranges <= MaxRanges => x.num = x.den
            [] OTHER                -> x.num = -1

\* What an evaluation that measured returns.
Listed ==
  LET q == request.ask  n == Len(q.pmu) IN
  IF target = "mppa"
  THEN Len(list) = n /\ \A e \in 1 .. n : OfOneCall(list[e], q.pmu[e])
  ELSE IF target = "tvm"
  THEN /\ Len(list) = q.repeat
       /\ \A r \in DOMAIN list :
            \E pace \in Paces : list[r] = Result("time", AtLeastOne(q.number) * pace, 1)
  ELSE IF n > 0
  THEN /\ Len(list) = q.repeat * n
       /\ \A r \in 0 .. q.repeat - 1, e \in 1 .. n : OfOneCall(list[r * n + e], q.pmu[e])
  ELSE /\ Len(list) = q.repeat
       /\ \A r \in DOMAIN list : /\ list[r].event = "time" /\ list[r].num >= q.min
                                /\ \E pace \in Paces : list[r].num = pace * list[r].den

\* The results are one value for each repeat and event, in that order, of one call each,
\* whatever rounds were too short; times are those of repeats that lasted long enough.
\* The MPPA device gives one value for each event only, TVM the time of all the calls of
\* each repeat.
ResultsArePerCall ==
  /\ ResultsAreOfOneRound
  /\ step = "returned" => IF code = 1 THEN list = << >> ELSE Listed
=============================================================================
