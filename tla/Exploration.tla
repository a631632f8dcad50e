---------------------------- MODULE Exploration ----------------------------
(***************************************************************************)
(* Exploration.evaluate_all_parallel (search/explore.py): the pipeline with *)
(* its two functions spelt out.  compile_func compiles the sample for every *)
(* backend, one after the other, and leaves one payload library per backend *)
(* on disk; execute_func evaluates them in the same order, unlinks them and *)
(* hands each result to the result callbacks.                               *)
(***************************************************************************)
EXTENDS Integers, Sequences, FiniteSets, SequencesExt

CONSTANTS
  NTasks,       \* len(all_in_x)
  NBackends,    \* len(config.backends)
  Jobs,         \* config.jobs
  CpuCount

\* Jobs = 0 is left out: compile_func evaluates idx % jobs and every task raises.
ASSUME ExplorationAssumption ==
  /\ NTasks \in Nat /\ NBackends \in Nat \ {0} /\ Jobs \in Int \ {0} /\ CpuCount \in Nat

VARIABLES
  executeOn,   \* config.execute, constant
  saveTemps,   \* config.save_temps, constant
  pc, pulled, submitted, received, dispatched, delivered, status, cause,
  compiled,    \* compiled[t]: backends compile_one_all_backends has done for t
  evaluated,   \* evaluated[t]: backends execute_func has done for t
  libs,        \* payload libraries on disk, <<task, backend>>
  memory,      \* MemoryCallback.results
  csv          \* the rows CSVCallback has written in this run

\* execute_jobs is left at its default.
P == INSTANCE Pipeline WITH ReqCompileJobs <- Jobs, ReqExecuteJobs <- 0

files   == <<compiled, evaluated, libs>>
records == <<memory, csv>>
config  == <<executeOn, saveTemps>>
pvars   == <<pc, pulled, submitted, received, dispatched, delivered, status, cause>>
vars    == <<config, pvars, files, records>>

Backends == 1 .. NBackends

Init ==
  /\ executeOn \in BOOLEAN /\ saveTemps \in BOOLEAN
  /\ P!Init
  /\ compiled = [t \in P!Tasks |-> 0] /\ evaluated = [t \in P!Tasks |-> 0]
  /\ libs = {}
  /\ memory = << >> /\ csv = << >>

Main == (P!Main \/ P!Stopped) /\ UNCHANGED <<config, files, records>>

-----------------------------------------------------------------------------
(* compile_func, in a worker of the compile executor. *)

CompileStart(t) == P!CompileStart(t) /\ UNCHANGED <<config, files, records>>

\* compile_one for the next backend: the module's library is dump_file.so.
CompileOne(t) ==
  /\ status[t] = "compiling" /\ compiled[t] < NBackends
  /\ compiled' = [compiled EXCEPT ![t] = @ + 1]
  /\ libs' = libs \cup {<<t, compiled[t] + 1>>}
  /\ UNCHANGED <<config, pvars, evaluated, records>>

\* A schedule the backend rejects, a failing tool: no library for this backend.
CompileFails(t) ==
  /\ compiled[t] < NBackends
  /\ P!CompileRaise(t)
  /\ UNCHANGED <<config, files, records>>

CompileEnd(t) ==
  /\ compiled[t] = NBackends
  /\ P!CompileReturn(t)
  /\ UNCHANGED <<config, files, records>>

-----------------------------------------------------------------------------
(* execute_func, in the worker of the execute executor. *)

ExecuteStart(t) == P!ExecuteStart(t) /\ UNCHANGED <<config, files, records>>

\* config.execute is off: execute_func returns None at once.
ExecuteSkip(t) ==
  /\ ~ executeOn
  /\ P!ExecuteReturn(t)
  /\ UNCHANGED <<config, files, records>>

Evaluating(t) == executeOn /\ status[t] = "executing" /\ evaluated[t] < NBackends

\* Mutant: the library is never unlinked.
NothingUnlinked(t) == libs
Unlinked(t) == IF saveTemps THEN libs ELSE libs \ {<<t, evaluated[t] + 1>>}

Result(t, code) == [task |-> t, backend |-> evaluated[t] + 1, code |-> code]

\* Mutant: the row is written without looking at the error code.
EvaluateOneWritesAll(t) ==
  /\ Evaluating(t)
  /\ <<t, evaluated[t] + 1>> \in libs
  /\ \E code \in {0, 1} :
       /\ memory' = Append(memory, Result(t, code))
       /\ csv' = Append(csv, Result(t, code))
  /\ libs' = Unlinked(t)
  /\ evaluated' = [evaluated EXCEPT ![t] = @ + 1]
  /\ UNCHANGED <<config, pvars, compiled>>

\* load_and_evaluate_sample for the next backend, with the evaluator's code: the
\* library goes whether or not the evaluation failed, and only a result without
\* error becomes a row.
EvaluateOne(t) ==
  /\ Evaluating(t)
  /\ <<t, evaluated[t] + 1>> \in libs
  /\ \E code \in {0, 1} :
       /\ memory' = Append(memory, Result(t, code))
       /\ csv' = IF code = 0 THEN Append(csv, Result(t, code)) ELSE csv
  /\ libs' = Unlinked(t)
  /\ evaluated' = [evaluated EXCEPT ![t] = @ + 1]
  /\ UNCHANGED <<config, pvars, compiled>>

\* Mutant: a task whose evaluator raised is put back in the queue.
EvaluatorRetries(t) ==
  /\ Evaluating(t)
  /\ P!Advance(t, "executing", "executeQueued")
  /\ UNCHANGED <<config, files, records>>

\* Loading or running the module raises: nothing was cleaned up yet.
EvaluatorRaises(t) ==
  /\ Evaluating(t)
  /\ P!ExecuteRaise(t)
  /\ UNCHANGED <<config, files, records>>

\* The row cannot be written: the callback before it already has the result.
CsvRaises(t) ==
  /\ Evaluating(t)
  /\ <<t, evaluated[t] + 1>> \in libs
  /\ P!ExecuteRaise(t)
  /\ libs' = Unlinked(t)
  /\ memory' = Append(memory, Result(t, 0))
  /\ UNCHANGED <<config, compiled, evaluated, csv>>

ExecuteEnd(t) ==
  /\ executeOn /\ evaluated[t] = NBackends
  /\ P!ExecuteReturn(t)
  /\ UNCHANGED <<config, files, records>>

Compile(t) == CompileStart(t) \/ CompileOne(t) \/ CompileFails(t) \/ CompileEnd(t)

Execute(t) ==
  \/ ExecuteStart(t) \/ ExecuteSkip(t) \/ EvaluateOne(t)
  \/ EvaluatorRaises(t) \/ CsvRaises(t) \/ ExecuteEnd(t)

Next == Main \/ \E t \in P!Tasks : Compile(t) \/ Execute(t)

Fairness ==
  /\ WF_vars(P!Main /\ UNCHANGED <<config, files, records>>)
  /\ \A t \in P!Tasks : WF_vars(Compile(t)) /\ WF_vars(Execute(t))

Spec == Init /\ [][Next]_vars /\ Fairness

-----------------------------------------------------------------------------
(* Properties. *)

Position(r) == (r.task - 1) * NBackends + r.backend

\* Whatever the compile workers do, results are recorded in sample order and
\* within a sample in backend order, none missing and none twice: result i is
\* the i-th, and the recorded file of a seeded search does not depend on timing.
RecordedInOrder ==
  \A i \in DOMAIN memory : Position(memory[i]) = i

\* The file holds the results without error, each once and in the order of the samples,
\* except the last one if writing its row raised.
RowsAreTheGoodResults ==
  LET good == {r \in ToSet(memory) : r.code = 0}
  IN  /\ ToSet(csv) \subseteq good
      /\ \A i, j \in DOMAIN csv : i < j => Position(csv[i]) < Position(csv[j])
      /\ \A r \in good \ ToSet(csv) :
           Position(r) = Len(memory) /\ \E t \in P!Tasks : status[t] = "executeRaised"

\* A library is on disk until its evaluation ended and no longer: what is there
\* is what was compiled and not yet evaluated, at most jobs samples of it.
LibrariesAreBounded ==
  executeOn /\ ~ saveTemps =>
    /\ Cardinality(libs) <= NBackends * P!CompileJobs
    /\ pc = "done" => libs = {}

\* Seen through its task states the exploration is the pipeline.
ImplementsPipeline == P!Spec
=============================================================================
