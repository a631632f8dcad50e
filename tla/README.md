# A TLA+ model of XTC

XTC explores schedules of tensor operators: it builds a graph, asks a strategy
for points of a schedule space, compiles each point with one or several back
ends, measures the resulting library, and records the measure.  This directory
holds TLA+ modules translated from the Python sources under `src/src/xtc`
(paths below are relative to it), the TLC configurations that check them, and
TLAPS proofs about the search, the runtimes and the evaluations, for every value of
the constants.

`PROJECT.json` maps each definition to the lines it models, and lists the runs,
the mutants that show each property can fail, the hazards, the theorems and the
disagreements found between the code and what its documentation says.

## 1. Inventory

### 1.1 Search

| Component | State | Operations | Correct when |
|---|---|---|---|
| `search/pipeline.py` `CompileExecutePipeline` | positions of three nested generators, two thread pools alive one at a time, the task objects | `generate`, `run`, the workers' `compile` and `execute` | results in submission order; no compilation during a measurement; bounded look-ahead; the first failure surfaces, promptly |
| `search/explore.py` `Exploration` | configuration, payload libraries on disk, callbacks | `evaluate_all_parallel` (`compile_func`, `execute_func`), `evaluate_iterative`, `evaluate_generate`, `evaluate_data`, `evaluate_sample`, `optimize` | every result recorded once, in order; libraries removed after use; trials spent |
| `search/callback.py` result callbacks | output file, `_seen_keys`, list of results | constructor, `__call__`, `__del__` | one header; recorded rows survive; resume neither repeats nor loses a sample |
| `search/optimizers.py` | observed samples and peaks, best, last fit | `suggest`, `observe`, `finished` | a peak belongs to its sample; the model is refit on time |
| `search/progress.py` | bar counters, which decide nothing | job and batch callbacks | not modelled |
| `search/strategies.py`, `utils/algorithms.py`, `utils/math.py` | none kept between calls | `sample`, `exhaustive`, `generate`, `sample_uniques`, factor helpers | samples unique, within the space, no more than asked; sampling ends; a sample is a tiling its filters accept |
| `schedules/ttile` | a database of measured microkernels, in a file | `launch_measurement_microkernel`, `full_ttile_algorithm`, the two cache models, `build_schedule_from_ttile` | a database that loads is whole; a scheme has the sizes asked for; footprints and misses are those of the nest it stands for |

How they interact: `optimize` builds the callbacks and calls one of the
`evaluate_*` methods; those call `evaluate_all_parallel`, once or once per
batch, which hands two closures to a pipeline.  The closures run in worker
threads and call back into the result callbacks; the
main thread only sees the tasks the generators yield.  An exception of a closure
travels through the pool's future, the generators, `run` and
`evaluate_all_parallel` to its caller.

### 1.2 Runtimes and targets

| Component | State | Operations | Correct when |
|---|---|---|---|
| `runtimes/host/runtime.py` | two caches per runtime type, a lock for each | `resolve_runtime`, `_compile` | built at most once; one table for all threads; no lock left taken |
| `runtimes/host/HostRuntime.py`, `runtimes/accelerator/*` | the singleton; for the MPPA device a configuration, an initialised flag, loaded modules | `__new__`, `get`, device life cycle, memory | one instance; calls only on an initialised device |
| `csrcs/runtimes/host`, `csrcs/runtimes/accelerator` | attempt and repeat counters, perf events, the ranges of the GPU profiler, `CNDArray` memory | `evaluate*`, `CNDArray_*` | each repeat lasts long enough; a result is of its own round, per call; freed once |
| `runtimes/types`, `targets/*`, `utils/evaluation.py` | loaded library, parameter arrays, registered buffers | load, evaluate, validate, unload | the library and the arrays outlive their calls; outputs are those of the payload; what was taken is given back |

### 1.3 Schedules, graphs and back ends

| Component | State | Operations | Correct when |
|---|---|---|---|
| `schedules/parsing.py`, `descript.py` | per call: the cut each axis is split up to, the sizes it has had, the loop order | interpret a specification (split, tile, axis), validate, apply to a scheduler | an accepted specification reaches the scheduler as it was written; others are refused for what they do wrong |
| `schedules/loop_nest.py`, `parameter_loop_nest.py` | a tree of nodes: tiles, splits, interchange, annotations | `check` and its parts, `apply_sample`, conversions, printing | each axis covered once; no loop larger than the one around it |
| `schedules/plain_schedule.py`, `loop_nest_builder.py` | the same by root name, as the scheduler calls give it | `split`, `tile`, `interchange`..., building a nest | the nest built is the one the calls describe |
| `graphs/xtc` | per thread a stack of graph scopes; for all threads an expression-to-node map | open a scope, append, build, forward types, write and load | scopes nest; a graph is whole; what loads is what was written |
| `backends/mlir`, `tvm`, `jir` | per node: dims, tiles, permutation, annotations; in the MLIR pass the chunks left to split and the tile steps; in TVM the splits of unrolled and vectorized loops | scheduler calls, code generation of operators and loops | an operator reads what its evaluation reads; the loops are those asked for, the same in all back ends |
| `cli`, `utils`, `artifacts`, `itf` | none | parsing, printing, tables, interfaces | - |

`Descript.apply` parses a dictionary (or YAML) into declarations, interprets them
into a tree, instantiates parameters, calls `LoopNest.check`, and replays the
tree on a scheduler node by node, depth first.  The scheduler keeps dictionaries
by root name; a back end reads those when it compiles.

A strategy reads the dimensions of one operation of a graph, draws integer vectors
and turns each into calls of the same scheduler.  Ttile draws its schemes over
microkernels it measured before, and reaches the scheduler through a printed
specification.  An evaluator loads the library a back end compiled, makes or
receives its parameters, may run it once against the graph's own evaluation, has
the C loop measure it, and unloads it.

### 1.4 What is hard here

Concurrency lives in the pipeline's two pools, in `resolve_runtime`, and in the node map
shared by threads that build graphs. Failure lives everywhere a tool or a measured library runs: a task may raise
in either stage, in any worker, and a measurement may return an error code.
Persistence is the CSV file and the file of measured microkernels, both appended to
over several sessions and possibly cut by a crash. Resources (libraries, device
sessions, loaded modules, registered buffers, arrays) outlive the call that took
them when it raises, and the next call meets them. Boundaries are the last, short
batches of three nested loops, the refit arithmetic of the optimizer, the zero time
of a failed measurement, the square root of trial division, sparse spaces that leave
almost nothing to draw, and tiles that do not divide. A schedule is a long sequence
of legal declarations whose meaning is rebuilt several times, from starts to
segments, from names to sizes, from a list of nodes to a tree; what one node leaves
behind is visible to the next. And the same thing is often written several times:
the element reads of an operator in five places, the loops of a schedule in three
back ends, the cost of a scheme in two cache models. `PROJECT.json` lists these
hazards at their lines with the properties that cover them.

## 2. Modules

| Module | Models | Used by |
|---|---|---|
| `SequentialRun` | what `run()` promises: a loop | refined by `Pipeline` |
| `Pipeline` | `CompileExecutePipeline` | instanced by `Exploration` |
| `PipelineProofs` | theorems about `Pipeline` | |
| `Exploration` | `evaluate_all_parallel`, its closures and callbacks | refines `Pipeline` |
| `ExplorationProofs` | theorems about `Exploration` | |
| `ResultLog` | `CSVCallback` over sessions and crashes | instanced by `ResumedSearch` |
| `ResumedSearch` | sessions of one seeded search, resumed on one file | |
| `ResumedSearchProofs` | theorems about `ResumedSearch` | |
| `IterativeSearch` | `evaluate_iterative` with `RandomForestOptimizer` | |
| `IterativeSearchProofs` | theorems about `IterativeSearch` | |
| `RuntimeResolve` | `resolve_runtime`, `_compile` | |
| `RuntimeResolveProofs` | theorems about `RuntimeResolve` | |
| `LoopNest` | the tree of a schedule and `LoopNest.check` | `Descript`, `MlirNest`, `PlainScheduler` |
| `Descript` | the interpreter of specifications, `Descript.apply` up to the validation | `DescriptMlir` |
| `MlirNest` | the steps and chunks of the MLIR transform pass | `DescriptMlir`, `BackendSchedules` |
| `DescriptMlir` | the two together: an accepted specification, compiled | `Scheduling` |
| `PlainScheduler` | the dictionaries scheduler calls fill, the nest built back from them | `Scheduling` |
| `BackendSchedules` | the loops MLIR, TVM and JIR make of the same calls | `Scheduling` |
| `Scheduling` | a scheduler driven by `Descript.apply` or by its client | |
| `SchedulingProofs` | theorems about `Descript`, `LoopNest`, `MlirNest`, `PlainScheduler` and `Scheduling` | |
| `SearchSpace` | the strategies' spaces, filters and schedules of a sample | `StrategySearch` |
| `UniqueSampling` | `sample_uniques` | `StrategySearch` |
| `UniqueSamplingProofs` | theorems about `UniqueSampling` | |
| `StrategySearch` | a strategy created and asked for samples | |
| `Operators` | the operators of a graph: constructor, types, evaluation, dimensions, accesses | `BackendOps`, `GraphBuilder` |
| `BackendOps` | what each back end generates for an operator | `GraphBuilder` |
| `GraphBuilder` | building, typing, writing and loading graphs, by several threads | |
| `TtileScheme`, `TtileComputation` | schemes of atoms; the computations they tile | the modules below |
| `TtileFullAssoc`, `TtileSetAssoc` | the two cache models | `Ttile` |
| `TtileDescr` | from a scheme to a specification of `descript` | `Ttile` |
| `TtileMicrokernels`, `TtileSearch` | the database of microkernels; the random choice of a scheme | `Ttile` |
| `Ttile` | these from end to end | |
| `MeasureLoop` | the C loop that measures a payload | `Evaluation` |
| `Evaluation` | the evaluators, arrays and devices around it, evaluation after evaluation | |
| `EvaluationProofs` | theorems about `MeasureLoop` and `Evaluation` | |
| `MC*` | instances for TLC where a constant is more than a number or a set of names; the others are run as they are, with the values of their `.cfg` | |

Next to a definition may stand a *mutant* of it, commented as such: the form a
plausible slip would give it.  No specification uses the mutants; putting one in
the place of its original makes the property `PROJECT.json` names fail.

### 2.1 Pipeline

Tasks are consumed strictly in order by every `islice`, so the state of the
nested generators is one position each: `pulled` (outer `islice` of `generate`),
`submitted` and `received` (into and out of a compile pool), `dispatched` and
`delivered` (into and out of an execute pool).  `pc` says in which generator the
main thread is; it is blocked in `compile` or `execute` while it joins a pool on
leaving the `with`.  `status` is the state of each task.  A pool has exactly as
many workers as its batch has places, so every submitted task has a worker of
its own and may start at once.  `compile_func` and `execute_func` may raise at
any time.  An exception ends the run: what `executor.map` had not yet yielded,
and what the execute stage had taken but not dispatched, is dropped.

`SequentialRun` is the promise of `run()`: results one by one in order, then a
return or the exception of one of the next `Slack` tasks.  The slack is the
execute batch being filled: when task 5 fails to compile while 4 waits in the
same execute batch, 4 is never executed although it compiled.

### 2.2 Exploration

Takes the pipeline with `ReqCompileJobs <- Jobs` and execute jobs at their default
and splits the two abstract worker calls: a compilation per back end, each leaving
a library; an evaluation per back end, which loads the library, unlinks it and
calls the callbacks.  `executeOn` and `saveTemps` are configuration flags chosen
at the start.  The order of the result callbacks is that of
`get_result_callbacks`: memory, then CSV.  `Jobs = 0` is excluded because
`idx % jobs` then raises in every task.  The progress bars follow the tasks and are
left out.

### 2.3 ResultLog

A line of the file is what `csv.DictReader` makes of it: the header, a sample's
row, junk, or a cut line that the next write will continue.  `cache` is the file
as other processes read it, `disk` the prefix that `fsync` secured.  A crash
keeps `disk` and any prefix of the rest; where `tears` holds, it may cut the next line.
The samples are model values; a key is a sample with its back end.

### 2.4 ResumedSearch

What resuming is worth to the user: each session runs the same seeded search
from its first sample and hands every good result to the callback of
`ResultLog`; a failed evaluation records nothing.  The parallelism is left out:
that results reach the callback one by one and in the order of the samples is
`RecordedInOrder`, proved of `Exploration`.  The abstraction of a session is the
file an uninterrupted run leaves: without failures, every file of an
interrupted search is a beginning of it.  `tears` and `modes` are chosen at the
start: whether a crash may cut a line, and in which modes sessions open the file.
The promise about the whole file is for searches that are always resumed and whose
lines are not cut, the one about secured rows is for all.

### 2.5 IterativeSearch

One action per call of the loop.  The forest is abstract: its suggestions are any
batch of different samples, since nothing here depends on its predictions; what
is exact is which observations it was fit on.  `perSample` is the number of
results `evaluate_all_parallel` returns per sample: the number of back ends, or 0
when nothing is executed.  `Fewest` bounds from below how many candidates
`sample_uniques` comes back with, which decides whether `choices` and
`argpartition` can raise.

### 2.6 RuntimeResolve

Every read of a cache, every lock acquisition and every release is a step.
Libraries and tables are numbered in the order they are made, so sharing one is
equality of numbers.  The second check of `_compile` never finds a library: the
`entriesLock` of the caller already excludes others.  That branch has no action;
`LibStillMissing`, part of the proved invariant, is the reason.

### 2.7 LoopNest, Descript, MlirNest

`Descript` reads a specification one declaration at a time, so that a state of
the model is the interpreter's between two iterations of its loop: `nest` holds the
nodes built so far in depth-first order, `frames` the nested calls of
`_interpret_spec_into_node` with the `previous_cut` and `axes` of each.  A split
pushes a frame for its body; `EndSpec` returns from it; after the last return
`Check` gives the verdict of `LoopNest.check`.  An exception ends the
interpretation.  The parser is one operator, `Parsed`, since all it does to a
bound is to drop a 0.

`LoopNest` writes each check as what it raises for; `_check_sizes` is a fold that
carries the code's two dictionaries, because what it forgets and keeps from loop
to loop is the point.  A node also remembers its segments as they were
written (`asked`, `bounded`); only the properties read these.

`MlirNest` computes the vector `_generate_tiling_insns` gives each loop, and the
chunk `SplitState` gives each segment.  `Descript` is followed to the back end
through its loop order, which `_apply_node` replays unchanged.

Left out: annotations and the checks about them (vectorisation, unrolling,
external calls, GPU), symbolic sizes with the constraints they generate, and the
constraints the interpreter collects for the sampling strategies, which `apply`
does not evaluate.

### 2.8 SearchSpace, UniqueSampling, StrategySearch

`SearchSpace` turns a strategy and the sizes of an operation into the set of its
integer vectors, the filters that keep some, and the schedule `_generate` makes of
one.  The registered classes differ by data, so they are one record: a scheme of
letters (`prt`) read as the code reads it, or one of the fixed forms (`p1`, `goto`)
and the filters added to it.  The factor helpers of `utils/math.py` are operators
here (trial division, all factorings, sizes to factors and back).

`UniqueSampling` is the loop of `sample_uniques`: rounds of draws that double, from
a space of unknown size, until enough different samples are found or the
Good-Turing estimate says that another one is unlikely.  `draw` returns any list of
at most the samples asked for: the code promises no more.  `StrategySearch` creates
a strategy, asks for all samples, for some through `sample_uniques`, or for the
default of an optimisation level, and makes the schedule of one sample.

### 2.9 Operators, BackendOps, GraphBuilder

`Operators` gives each operator of `graphs/xtc` its constructor (with the defaults
and the forms of padding it fills in), the shape it forwards, the elements its
`forward` reads for each element of the output, the dimensions it declares to
schedulers, and its access maps.  Data is a *term*: the set of elements that are
multiplied for an output element.  Two definitions that read the same elements
compute the same sum whatever the numbers are.

`BackendOps` gives, for each back end, which operators, shapes and layouts it
takes, its own loops, and its own index expressions, read from `MlirOps.py`,
`TVMOps.py` and `JIROps.py`.

`GraphBuilder` is the state around them: scopes are per thread, the map from
expressions to nodes is shared, and each lookup of it is a step, since the lock
around it is made anew by every call and excludes nobody; so are the construction of
a missing node, which enters it in the map by uid, and its assignment to the map of
expressions.  Leaving a scope collects its nodes, inputs and outputs and forwards the
types; `Load` builds a graph again from what was written.  The programs a thread runs
are calls on any expressions, its own or those of another thread, with or without an
inner builder.

Where two threads use one expression each may make a node of it (`Doubled`).
`GraphIsWhole` says what stays true then: no thread makes two nodes of one expression,
every graph has one node for each of its expressions, its walk meets them all in an
order of use, and an output that is no node of its graph is such a doubled one (there are
such outputs: two threads that leave builders with one operator expression make one).
`LoadedIsTheSame` compares operators,
arguments, inputs, outputs, names and shapes; the layouts of the inputs are compared
with none, since they are not written, and devices and constness are no part of the model.

### 2.10 PlainScheduler, BackendSchedules, Scheduling

`PlainScheduler` keeps the dictionaries of `plain_schedule.py` by the name of a
loop and builds a nest back from them as `loop_nest_builder.py` does.
`BackendSchedules` gives the sequence of loops, with the iterations of each, that
every back end makes of one schedule: MLIR's strip-mining steps, JIR's commands,
TVM's splits and reorder after its two rewritings (a vectorized loop that is not
innermost, an unrolled loop larger than its factor).  The state of the rewriting is
`code`, filled by the action `Emit`.

In `Scheduling` a scheduler has one of two clients.  `Descript.apply` hands over an
accepted nest: what is built back must be what was applied, each segment by its start (that the
extents found from the starts are the ones written is `SegmentsAsWritten`).  Otherwise calls come
one by one in any order, to the plain scheduler and to JIR's own: what the back
ends make of them must be the same.  Each loop is vectorized at most once, as the
clients do.

### 2.11 Ttile

A scheme is a sequence of atoms, from the inside out: an unrolled, vectorized or
plain tile of a dimension, a partial tile, lambdas (a different ratio in each branch)
with the sequence that closes them, a loop over a reduction, a parallel one.
`TtileFullAssoc` computes the footprint of every prefix and finds the level at which
the cache overflows; `TtileSetAssoc` counts lines per cache set, shifted
loop by loop.  Both are functions of a scheme, checked in `Ttile` against the set of
cells the scheme really runs over, enumerated from its loops.

`TtileMicrokernels` has state: the lines of the file, those a run has written since, a
run that measures from the line it counted to, an interruption, a kill that loses
unflushed lines and may cut the last one within any column.  The next line is written on
the end of a cut one: the two are joined (`Joined`) into a line that has too many columns,
and is never read, unless the cut is in the first column, where the digits of both make up
one factor.  Factors are below 10 here (`UnrollMax`; below 20 in the code), so that a joined
factor has two digits and is none of the machine's; with two digits the joined line might
be another of its microkernels.  So a partial file can load: that is the run `ttile_partial`, and
`LoadedIsTheSpace` says that a file that loads is complete and in order if its rows are
microkernels of the machine at all.
`TtileSearch` is the random choice: its random numbers are `\E`.  `Ttile` goes from
the measured database to a drawn or hand-written scheme and puts it to one of its
three uses; `TtileDescr` writes it as the dictionary `descript` reads, in which of
two equal keys the first place and the last value remain, and asks `LoopNest` and
`BackendSchedules` what becomes of it.

### 2.12 MeasureLoop, Evaluation

`MeasureLoop` is `evaluate_perf.c` for one call: warm-up, then for each repeat
rounds of calls, twice as many each time, until one lasts `min_repeat_ms`.  `calls`
is what the machine has really executed; the counters are what the events show of
it.  The time a payload takes per call is its *pace*, any one for each round; a counter is
expressed in calls, so that a result is a fraction whose value should be 1.
`attempts` is a C `int`: where doubling passes `MaxInt` the call stops being
defined and nothing is claimed of it.

`Evaluation` is the Python side over several evaluations in one process.  The steps
are those of the evaluators (load, make or take parameters, register, initialise,
run once and compare, measure, write back, unload), each of which may raise; what
was open then stays open.  A library is a count of handles, an array is its host and
device side with the session its memory belongs to, a device has a session number
and its loaded modules.  An output is good, bad, zero or junk.  The four evaluators
are one set of actions with the differences in their guards.

Between two evaluations the caller makes arrays on the host or on the device, reads
its output, drops them, and deinitialises the device, which forgets none of the
arrays on it; whatever uses one afterwards initialises the device again (`Woken`) and
passes the handle of the session that is gone.  It may give an evaluation any
parameters: numpy arrays for a graph that is placed on the device, arrays on the device for
one that is not, arrays of an earlier session.  A payload whose tensors are not where
it looks for them may write them, write elsewhere or write anything (`Called`).  So
`UsedWhileAlive` promises of the caller's arrays only that they are there and, unless they
are of an earlier session, alive; `OutputsAreThePayloads` is for parameters that fit the graph
(`Fits`), and for any where TVM stages them, of which it writes only the host's side back.  The two
cases this leaves, a kept array and TVM's output on the device, do go wrong in the model (§5).

## 3. Runs

| Run | Instance | Shows |
|---|---|---|
| `pipeline` | 7 tasks, 3 compile and 2 execute workers: outer batches 3, 3, 1, an execute batch takes part of a compile batch | exclusion of compile and execute, bounded look-ahead, prompt first failure, refinement of `SequentialRun` |
| `exploration` | 3 tasks, 2 back ends, 2 workers: two outer batches, the last one short; with and without execution and saved files | order and content of the records, life of the libraries, refinement of `Pipeline` |
| `resumed_search` | 3 results, at most 5 lines, any number of sessions, crashes and failed evaluations, lines cut or not | a search always resumed leaves the file of one run; a secured row stays |
| `iterative` | 2 samples, 2 peaks, 5 trials by 2, first fit at 3; no execution, one back end or two; with failures | the best was measured, the model is fresh, the loop ends |
| `runtime_resolve` | 3 threads, 2 runtime types, with and without failures | one build, one table, calls return |
| `descript` | 2 axes: specifications of 4 declarations, cuts 1 and 3, tiles of 0, 1, 2; or 4 scheduler calls on sizes of 12 | accepted segments are the written ones, tiles fit, steps are the next tile inside, the nest is built back; the back ends make the same loops, TVM makes what the check accepts |
| `descript_chunks` | 1 axis, cuts 1, 2, 3 | *violated:* the second of three segments is split at the wrong size |
| `graph` | 2 threads, every operator on small shapes, inner builders, each graph loaded once | graphs are whole, but for doubled outputs; what loads is what was written, but for layouts; the back ends read what the evaluation reads, over loops that cover the output |
| `strategy` | 16 strategies on small matrix products; `sample(num)` on spaces of up to 3 | unique samples, bounded draws, a nest is a tiling, the space is all tilings, filters hold, sampling ends, a default schedule without fusions is a sample |
| `ttile` | 2 vector files, 8 requests, hand-written schemes of up to 5 atoms, 4 cache sizes, 3 sets of 1 to 3 ways | a database that loads is whole, if its rows are microkernels, choices and schemes are those asked for, both cache models count what is touched, larger caches miss no more, the specification is the scheme's nest |
| `ttile_partial` | the same databases, without requests | *violated:* a partial database loads after a cut in a first column |
| `evaluation` | 3 evaluations, 4 modules, host, MPPA, GPU and TVM, every origin of the tensors, an exception at any step | resources given back, payloads run in open libraries on the memory evaluators make, outputs are the payload's where the tensors fit, results per call |

Bounds.  A pipeline run repeats its outer batch; three outer batches with a short
last one contain every transition between batches, and the proofs remove the
bound.  Two back ends suffice for the orders within a sample.  Five lines hold a
header, the rows of three results, and one more that a repeat would need; three
results, so that one can be lost between two that are kept.  Three threads are one
more than the two that can race, so that one can wait behind a failing one; two
types show that locks are per type.  `IterativeSearch` needs the first fit and
two later batches: 5 trials.

Four declarations hold three segments, or two segments with a tile in each, or a
segment within a segment with a tile around it; two axes are what a loop needs to
be confused with one of another axis.  The axes play the same part in every
definition, hence the symmetry.  With 1 and 3 as cuts two neighbours differ in size,
and a segment may end at, before or after the size of the axis.  For scheduler calls
the size is 12 with tiles of 2 and 6, one dividing the other, and an unroll
factor of 3 that divides 6 and not 2.

The strategies' scale is that of their arguments: 1/4 stands for the stop
probability of 1/1000, and `MaxDraw` bounds what one draw returns, not what is
requested; `UniqueSamplingProofs` removes both.  The operations have sizes whose
divisors are few but not only primes, squares included.  A graph program is one or
two calls (a call on the result of a call is where types, accesses and reloads
meet) with its tensors made outside, or inside the builder; two threads may use all
expressions of each other.

In `ttile` a vector holds 2 elements and a line too; 4 and 8 registers bound the
unrolled tiles differently; three runs are what it takes to join two lines and then
make up their number.  The shipped kernels share a dimension by sizes 1, 2, 3 and 5, so that
Euclid's algorithm runs through each of its branches.  Five written atoms hold two lambdas, their sequence, and a tile above
and below it.  In `evaluation` a round is one or two calls, doubled up to four; the
next doubling passes `MaxInt` = 7.  The counter image holds 5 ranges (20 in the code)
and the device 2 modules (10 in the code), so that both overflow within three
evaluations, which is also the least in which the second can meet what the first
left and the third what both did.

Deadlock is off where the program returns and nothing follows: a specification,
a graph, a search or an evaluation may stop anywhere.

Fairness.  `Pipeline`, `Exploration`: the main thread is scheduled and every
compile and execute call returns or raises (`WF` per task: each has a worker of
its own).  A hung compiler or payload is outside the model; the code has no
timeout for it.  `IterativeSearch` and `StrategySearch`: the one thread runs; in
`SampleReturns` this is `WF` of the sampling steps alone, so the call must return
however unlucky the draws.  `RuntimeResolve`: a
thread inside a call runs, and takes a lock that stays free; `CallsReturn` is
claimed only when nothing fails, since under weak fairness threads that fail and
call again may keep a waiting one out.  The other modules claim no liveness; in
particular `MeasureLoop` ends only if doubling does, which is a matter of `MaxInt`.

## 4. Proofs

`PipelineProofs`, for any number of tasks, requested jobs (zero and negative
included) and CPUs, under `PipelineAssumption` (those are integers).  `TypeOK`
and the properties are not inductive: nothing in them says that a task between
two positions is in the state the generators believe.  `IInv` adds `Positions`
(order and distance of the five positions, by place), `LiveTasks` (workers run
only inside the `with` of their pool, on its batch), `Outcomes` (the states a task
can be in, by the interval it lies in) and `Raised` (which task can be the cause).
From it follow compile/execute exclusion, the widths (with the cardinality of an
interval, `BatchSize`), the prompt first failure, `StagesInOrder`, and that every
step is a step of `SequentialRun` or a stutter.

`RuntimeResolveProofs`, for any set of threads and of types.  `IInv` adds to the
lock discipline what the thread holding a lock knows of the caches: nobody else
can fill them.  From it: one build at a time, one build ever, one table.

`UniqueSamplingProofs`, for any space, any request and any stop
probability below 1.  `UniqueSamples` and the bound on the draws requested are not
inductive; `IInv` adds `CountsAreDraws` (the Good-Turing counters are those of the
draws made, so at least one draw is paid for each sample) and `LoopKnows` (what the
loop condition leaves true inside a round).  The bound then follows from the
condition the last doubling passed (`RequestedSoFar`): never more than
2 num / prob + num draws.  That the *loop* ends is model-checked.

`ExplorationProofs`, for any number of samples, back ends, jobs and CPUs, under
`ExplorationAssumption` (at least one back end; `Jobs` is not 0, with which every
task raises; a negative one is allowed).  Every step of the search
is a step of the pipeline (`RefinesPipeline`: the safety part of
`ImplementsPipeline`), so the theorems of `PipelineProofs` hold of its task states and
are used here through their instance; `MeasuredAlone` is what the pipeline is for, in terms
of samples.  `RecordedInOrder` is not inductive: nothing in it says that the sample
whose results are coming is the next one.  `IInv` adds to the pipeline's invariant
`OneAhead` (one sample executes, and no more are compiled ahead than there are jobs),
`StageCounts` (how many back ends a sample has behind it, given its stage), `LibsInv` (a
library on disk was compiled and, unless kept, not evaluated yet) and `ResultsInv`: the
number of results is that of the delivered samples and of the one under way, the
rows are those without error, and only the last result may lack its row, when the
callback raised between the two.  `LibrariesAreBounded` follows with the cardinality of
what `OneAhead` leaves.

`ResumedSearchProofs`, for any number of results, any longest file, and any number of
sessions and crashes, lines cut or not.  `RecordedStaysRecorded` says that secured rows are
read again where no line is cut, and that as many lines remain as rows were secured where
some are.  The second part rests on `LinesAreKept`: the disk has a line of its own,
which no later write continues, for each acknowledged row.  The first and
`ResumedFileIsWhole` rest on `RowsAreKept`: a file is a header and rows, the disk
begins the cache, each key in memory has its row, and a search that is always resumed
writes the rows in order and none twice.

`IterativeSearchProofs`, for any samples, batch size, number of trials and update period.
`BatchInv` says what has been observed where the loop stands, `ResultsMatch` that with one
result per sample the i-th is that of the i-th sample (what `observe` relies on and
`zip` does not check), `BestInv` that the best so far is the largest peak measured, and
`FitInv` that the forest was fit at the last boundary of its period; the last takes
lemmas about integer division (`QuotientBound`, `UpdatesGrow`).  From them
`BestWasMeasured`, `ModelIsFresh`, and that a search which ends has spent its trials.

`EvaluationProofs` begins with the measuring loop, for any calls asked for, any pace,
integer width and size of the counter image.  Its `LoopInv` adds `RoundCounts` (between the
start and the stop of a round, a counter minus its value at the start is the calls of this
round) and `RepeatsLeft`; `SlotsApart` shows that the places of two repeats in the result
array do not meet.  From it `ResultsAreOfOneRound`: a value that was stored is the count of
one round divided by the calls of that round, and no later repeat overwrites it.  `AskedInv`
adds whose value it is (`ResultsAreAsAsked`) and that where a repeat is one call, the calls
since the events were enabled are the repeats (`CallsAreRepeats`), which is what the MPPA
device divides its counts by.

Then the evaluations, for any modules, requests and number of evaluations in a process, an
exception at every step that may raise.  `EvaluationAssumption` types the requests and
states what `MppaEvaluator` asserts of them (`number` is 1, no least time); the calls they
make of the loop are among the `Asked` of `MeasureLoop`.  `IInv` says
what is held at each step relative to what was held when the evaluation began (`Taken`),
that the arrays an evaluation makes are of the present session of the device while those
of the caller are of one there has been, and that a registered kernel has its library open,
also after an earlier exception (`NothingStale`, with `CallerOwns` and `RequestFits`), and
where the tensors are: those the caller gave, or the evaluation's own where the payload looks
for them, numpy parameters on the host (`TensorsPlaced`).  From it `ReturnsWhatItTook`
and `UsedWhileAlive`.
`OutputsAreThePayloads` takes a second invariant on top, `OutputsInv`: an output holds what
the payload writes once it has been called, at every step up to the copy the caller gets, if
the parameters fit (`Usable`), which no step of an evaluation changes (`FitsStay`).
`ResultsArePerCall` takes the invariants of the loop: every step of an evaluation is a step
of `MeasureLoop` or leaves it alone (`StepsOfLoop`, and `RefinesLoop`: an evaluation implements
the loop's specification), so `LoopInv` and `AskedInv` hold here; when
the loop is done, the place of each event in its array is the one `HostPlace` gives
(`HostPlaces`, by the cardinality of the events before it), and what is made of the array is
the list asked for.

`SchedulingProofs`, for specifications of any length, nested to any depth, over any
finite set of axes, under `LoopNestAssumption` (`None` is no number, and no axis has the
name the code gives to no axis) and the assumptions that type the other constants.  `IInv` is
that of the interpreter: `Stack` (the nested calls are of nodes of the nest, an inner one of
a later node), `Segments` (the segments of an axis begin where the one before ends, up to
the cut of the call, or nowhere short of the axis when the call is over), `Tree` (a node is
the content of a segment of an earlier one, the tiles and segments of an axis are loops of
their node, the tiles in order).  `SegmentsAsWritten` follows since
the starts of segments that are not empty increase along a chain (`Increasing`), so that the
segment `LoopInfo` finds by its position is the one written next (`EndIsNextStart`).  For `TilesFit`, an accepted nest passed the check
(`Checked`); the check is a fold over nodes in a recursive function, and `NestChecked`,
`NodeFits` follow its two dictionaries along the loops of a node.  For
`BuiltBackAsApplied` a second invariant, `Branches`, says that every segment has exactly one
node and every node but the root is that of one.  So names of nodes differ (`RootsDiffer`), a
dictionary holds for each name what the calls for that node put there (`AppliedIs`,
`SplitsPut`, `TilesPut`), and what is built from a name is its node (`SingleNodeIs`,
`ChildrenAre`, `ReachedFromRoot`).  For `StepsAreInnerTiles` the two nested folds of
`_generate_tiling_insns` are solved from the last loop of the last node on (`NodeStripped`,
`NestMined`): what is carried into a loop is the size of the next tile inside it, or 1
(`Expected`), from loop to loop (`ExpectedOut`) and from node to node, where it is carried
exactly to the parent of a first segment (`PathOf`, `ExpectedCarried`).  `Driven`: with its two clients a scheduler
still implements the specification of `Descript` alone.

Proved and not listed as a property of a run, because a run on a small instance
adds nothing to the proof: the type invariants, `StagesInOrder`, `ExecutionWidth`,
`FirstFailureSurfaces`, `LocksFollowTheCode`, `OneBuildAtATime`, `PublishedOnce`,
`CountsAreDraws`, `MeasuredAlone`, `TrialsAreSpent`, and the inductive invariants.  They
rest on the named assumptions of the modules, which TLC evaluates on each instance, and on
the library's theorems about finite sets and sequences.  Induction over numbers is used in
the form of a set that holds 0 and the successor of each of its elements (`Induction`, from
the well-foundedness of finite subsets), since the library's own takes a predicate as its
parameter.  A recursive function is a `CHOOSE`, and so are the folds of the community
modules: where a proof needs one, a solution of its equation is built first, by that
induction (`RootsAre`, `Folded`, `NestChecked`), or two folds are shown to go the same way
(`SameFold`).

Only model-checked:

* liveness, which is out of the prover's reach: the fairness in `ImplementsSequentialRun`
  and `ImplementsPipeline`, `Termination`, `CallsReturn`, `SampleReturns`; and
* `SameLoops` and `ValidIsMadeByTvm`: they relate three sequences of rewritings of the same
  loops, swaps, splits and completed orders, of which each would need its own theory of
  permutations;
* `GraphBuilder` and `Ttile`, whose operators are recursive over terms, schemes and random
  choices, and are written as `RECURSIVE` operators in part; and
* the spaces of `StrategySearch` (its sampling is proved): they are products of
  divisors, and what the filters promise is non-linear arithmetic, which the solver
  does not do.

## 5. Disagreements between code and documentation

Two are shown by runs that expect a violation:

* `descript_chunks`: from the second segment on, the MLIR pass splits at the
  position where the segment ends instead of at its size, so that three segments
  are not those that were asked for (`MlirCompilerPasses.py:108`).
* `ttile_partial`: a database of microkernels that was cut in a first column is continued by
  its number of lines, and loads although it lacks microkernels (`microkernel.py:441`).

The others were met while modelling.  Where they matter, the models do what the code
does, and a property's condition names the case.

*Searching.*  Resume opens the file with `a` whatever its last line: after a cut line
the first row written is joined to it; it was synced, and no later resume finds it.
Resume skips the row of a recorded sample, not its compilation and measurement
(`docs/tutorials/cli_tools.md:45` says "skips already recorded samples").
`evaluate_iterative` gives `observe` one peak per sample and back end, so with two back
ends peaks go to the wrong samples.  With a scheme that fuses, `default_schedule` of an
optimisation level returns no values for the fusion flags, and `_generate` reads tile
factors in their place (`strategies.py:780`); GOTO's untiled default unrolls by 0
(`strategies.py:1059`); so `DefaultIsASample` leaves both out (it is part of `SpaceIsAllTilings`).

*Specifications and scheduler calls.*  Segments 0 to 1, 1 to 3, 3 to the end are
refused with "Inner loop ... must be smaller than outer loop", although the second
is beside the first: the size of a split loop stays current for its siblings.
`SplitState`'s lookup by root never finds anything.  An axis tiled twice has both sets
of tiles in the plain schedule and the last one in JIR's.  Without an interchange JIR
orders loops level by level, MLIR and TVM axis by axis (`_get_default_interchange`
has no caller).  A loop tiled after the interchange is not made by MLIR and appended by
the others.  Tiles that do not divide change size in TVM and raise in JIR.  TVM refuses
a schedule the check accepts when a vectorized tile whose size is no power of two is
inside another vectorized loop, or when a loop is unrolled by less than a tile inside
it; unrolling a loop with tiles inside unrolls fewer iterations.  MLIR ignores
`buffer_at` and the padding of `pack_at`.

*Graphs and operators.*  `with threading.Lock()` makes a lock per call (`context.py:70`), so
two threads may make two nodes of one expression; the outputs of a graph are then not all
its nodes, as `utils.py:33` asserts when the graph is printed (`GraphIsWhole` allows for it,
and fails without the `Doubled` in it).  Not reloadable: a graph with a `pad2d` that does not pad both
axes, with tensor nodes, without inputs, or with an input that is an operator of an outer
graph; layouts, devices and constness are not written; the name of a node first made as the
input of an inner graph is lost.  MLIR's relu ignores the threshold; its matmul unpacks 4 of 6 dimensions of its inputs; JIR ignores
layouts and compiles the last node only; TVM keys its tensors by name and looks them up
by identifier, and raises for negative axes of a transpose.  A stride that is an integer
or has one element is read differently by constructor and types; reshape accepts
another size; convolutions and unpad may produce negative dimensions; an axis padded
under a positive and a negative number counts twice in the shape and once in the data.

*Ttile.*  `full_assoc_model.py:745` asserts what two adjacent sequences break, although
the comment at line 255 gives one as an example; `footprint % cache_line_size == 0` is
asserted and does not hold for strided convolutions, whose cells have holes.  The
window of a convolution counts as reuse, so that estimates may fall below the lines
touched; the set associative estimate may grow with the number of ways.
`check_coherency` accepts a second group of lambdas after a sequence.  A scheme with a
sequence cannot be applied (`build_schedule_from_ttile` gives the interpreter no
sizes), nor a microkernel that is not unrolled along its vector dimension, so that the
full database its docstring promises cannot be measured that way; equal keys of the
printed specification collapse and may move a loop outward; unroll factors are
printed as sizes.  A line of the database that is cut in its last column loads with another
performance; the machine it was measured on is not compared.
`threshold_mickern_perf_ratio` is not read; some requests end in assertions or a
`KeyError` (strides drawn as tiles, dimensions a kernel lacks).

*Measuring.*  `g_metrics` of the GPU events is never cleared: a second evaluation in a
process throws through C once one has asked for GPU events.  Launches beyond the 20
ranges of the counter image are not recorded.  `attempts` doubles without an overflow
check.  `MppaDevice.evaluate_perf` returns nothing without events, and the first
repeat's host counts only.  `TVMGPUEvaluator` does not divide by `number`, ignores the
least time and the events, and its zeroes never reach the device.  Freeing an array on
a deinitialised MPPA device initialises it again, and frees a handle of an older
session.  An exception between load and unload leaves the module loaded (after ten,
"Maximum number of loaded kernels exceeded") and buffers registered.  `np.empty` outputs
may hold an earlier good result, so that a payload that writes nothing can pass
validation.  `TVMGPUEvaluator` takes arrays on the device ("regardless of" the annotation,
line 126) and copies an output to the host's side of them, over which `numpy()` then copies
the device's (`TVMGPUEvaluator.py:100`, `ndarray.py:105`): the output is lost.  `deinit_device`
leaves the caller's arrays with handles that the next session does not know, and the next
use passes them to the runtime (`MppaDevice.py:487`).  Both happen in the model, and are
named in the conditions of `OutputsAreThePayloads` and `UsedWhileAlive`, which fail without
them.  Numpy parameters ignore the device and the layout of the graph.

## 6. Not modelled, and what is left

Not modelled, because there is nothing to check with these tools: argument parsing
and printing (`cli`), operator tables (`artifacts`), abstract declarations (`itf`), tool
discovery (`utils`), the text and the external passes of the back ends, the system
calls of the perf-event glue.

Left out of components that are modelled in part; `PROJECT.json` says which:

* Exploration: making graphs and strategies, the manifest, the measure of the peak;
  each is a sequential call before or after the search.
* Specifications: annotations and their checks, symbolic sizes and their constraints;
  the strategies over specifications, whose solver is an external package.
* Scheduling: parallel loops, buffers, packing, fusion, distribution and GPU mapping,
  which the plain schedule keeps as it keeps what is modelled; their emission.
* Graphs: data types, devices, symbolic shapes.
* Ttile: parsing, normalisation, tables of sizes and machines, generating and measuring
  code.
* Measuring: creating the singletons, whose copies would differ only in state no longer
  shared; reductions over the processors of a device, layouts, more than 7 MPPA
  events; `CNDArray`'s reference count, which stays at one; executors, which call an
  evaluator, and the HostC and HostAR variants.  What a payload does to
  other memory than its output, and a process that dies of a payload called with memory
  that is gone, are not followed.

Next, in this order: the annotations of specifications, whose checks repeat those of
sizes; packing and fusion in MLIR against TVM; parallel loops and their limits; the
overflow of `attempts` as a property of its own.
