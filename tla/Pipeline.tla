------------------------------ MODULE Pipeline ------------------------------
(***************************************************************************)
(* CompileExecutePipeline (search/pipeline.py).                            *)
(*                                                                         *)
(* One main thread runs the nested generators of generate(); each compile  *)
(* batch and each execute batch runs in a ThreadPoolExecutor of its own,   *)
(* whose `with` block joins every worker before a result is looked at.     *)
(* Tasks are numbered 1..NTasks (task.id + 1).  Tasks are always taken in  *)
(* order, so each generator's position is one counter:                     *)
(*                                                                         *)
(*   delivered <= dispatched <= received <= submitted <= pulled <= NTasks  *)
(*                                                                         *)
(* pulled      taken from the payloads by the outer islice of generate()   *)
(* submitted   handed to a compile executor                                *)
(* received    compile results taken by the islice of _execute_tasks       *)
(* dispatched  handed to an execute executor                               *)
(* delivered   yielded to the consumer, the list() of run()                *)
(***************************************************************************)
EXTENDS Integers, FiniteSets

CONSTANTS
  NTasks,             \* number of payloads
  ReqCompileJobs,     \* the compile_jobs argument of the constructor
  ReqExecuteJobs,     \* the execute_jobs argument of the constructor
  CpuCount            \* multiprocessing.cpu_count()

ASSUME PipelineAssumption ==
  /\ NTasks \in Nat
  /\ ReqCompileJobs \in Int
  /\ ReqExecuteJobs \in Int
  /\ CpuCount \in Nat

Larger(a, b)  == IF a >= b THEN a ELSE b
Smaller(a, b) == IF a <= b THEN a ELSE b

CompileJobs ==
  IF ReqCompileJobs < 1 THEN Larger(1, CpuCount \div 2) ELSE ReqCompileJobs
\* Mutant: the default of compile_jobs for execute_jobs.
ExecuteJobsLikeCompile == IF ReqExecuteJobs < 1 THEN CompileJobs ELSE ReqExecuteJobs

ExecuteJobs == IF ReqExecuteJobs < 1 THEN 1 ELSE ReqExecuteJobs
MaxJobs     == Larger(CompileJobs, ExecuteJobs)

VARIABLES
  pc,          \* where the main thread is in the generators
  pulled, submitted, received, dispatched, delivered,
  status,      \* status[t]: progress of task t
  cause        \* the task whose exception reached the consumer, 0 if none

vars     == <<pc, pulled, submitted, received, dispatched, delivered, status, cause>>
counters == <<pulled, submitted, received, dispatched, delivered>>

Tasks == 1 .. NTasks

PCs == {"outer", "collect", "compile", "execute", "yield", "done", "raised"}

Statuses == {"new", "compileQueued", "compiling", "compiled", "compileRaised",
             "executeQueued", "executing", "executed", "executeRaised"}

CompileLive == {"compileQueued", "compiling"}
ExecuteLive == {"executeQueued", "executing"}

Batch(lo, hi) == {t \in Tasks : lo < t /\ t <= hi}

Init ==
  /\ pc = "outer"
  /\ pulled = 0 /\ submitted = 0 /\ received = 0 /\ dispatched = 0 /\ delivered = 0
  /\ status = [t \in Tasks |-> "new"]
  /\ cause = 0

-----------------------------------------------------------------------------
(* The main thread. *)

\* Mutant: the outer islice does not stop.
PullAll ==
  /\ pc = "outer" /\ pulled < NTasks
  /\ pulled' = NTasks
  /\ pc' = "collect"
  /\ UNCHANGED <<submitted, received, dispatched, delivered, status, cause>>

\* generate(): the next max_jobs payloads; compile_and_execute starts on them.
PullOuter ==
  /\ pc = "outer" /\ pulled < NTasks
  /\ pulled' = Smaller(pulled + MaxJobs, NTasks)
  /\ pc' = "collect"
  /\ UNCHANGED <<submitted, received, dispatched, delivered, status, cause>>

\* Mutant: one outer batch, and the run is over.
FinishEarly == pc = "outer" /\ pulled > 0 /\ pc' = "done" /\ UNCHANGED <<counters, status, cause>>

\* The payloads are exhausted: generate() returns, and with it run().
Finish ==
  /\ pc = "outer" /\ pulled = NTasks
  /\ pc' = "done"
  /\ UNCHANGED <<counters, status, cause>>

\* The islice of _execute_tasks is still asking for a compiled task.
Wanting == pc = "collect" /\ received - dispatched < ExecuteJobs

\* No compile result is left: _compile_tasks submits its next batch.
SubmitCompile ==
  /\ Wanting
  /\ received = submitted /\ submitted < pulled
  /\ submitted' = Smaller(submitted + CompileJobs, pulled)
  /\ status' = [t \in Tasks |->
                  IF t \in Batch(submitted, submitted') THEN "compileQueued"
                                                        ELSE status[t]]
  /\ pc' = "compile"
  /\ UNCHANGED <<pulled, received, dispatched, delivered, cause>>

\* Mutant: `yield from it_map` inside the `with`, the workers still running.
YieldBeforeJoin == pc = "compile" /\ pc' = "collect" /\ UNCHANGED <<counters, status, cause>>

\* Leaving the `with` of the compile executor joins all its workers.
JoinCompile ==
  /\ pc = "compile"
  /\ \A t \in Batch(received, submitted) : status[t] \in {"compiled", "compileRaised"}
  /\ pc' = "collect"
  /\ UNCHANGED <<counters, status, cause>>

ReceiveCompiled ==
  /\ Wanting
  /\ received < submitted /\ status[received + 1] = "compiled"
  /\ received' = received + 1
  /\ UNCHANGED <<pc, pulled, submitted, dispatched, delivered, status, cause>>

\* executor.map re-raises the task's exception when its result is asked for;
\* the tasks the islice had already taken are dropped with it.
CompileRaises ==
  /\ Wanting
  /\ received < submitted /\ status[received + 1] = "compileRaised"
  /\ pc' = "raised" /\ cause' = received + 1
  /\ UNCHANGED <<counters, status>>

\* The batch is full, or compile_and_execute has no more task for it.
SubmitExecute ==
  /\ pc = "collect"
  /\ received > dispatched
  /\ received - dispatched = ExecuteJobs \/ received = pulled
  /\ dispatched' = received
  /\ status' = [t \in Tasks |->
                  IF t \in Batch(dispatched, received) THEN "executeQueued"
                                                       ELSE status[t]]
  /\ pc' = "execute"
  /\ UNCHANGED <<pulled, submitted, received, delivered, cause>>

\* Mutant: the same slip in the execute stage.
YieldBeforeExecuted == pc = "execute" /\ pc' = "yield" /\ UNCHANGED <<counters, status, cause>>

JoinExecute ==
  /\ pc = "execute"
  /\ \A t \in Batch(delivered, dispatched) : status[t] \in {"executed", "executeRaised"}
  /\ pc' = "yield"
  /\ UNCHANGED <<counters, status, cause>>

Deliver ==
  /\ pc = "yield"
  /\ delivered < dispatched /\ status[delivered + 1] = "executed"
  /\ delivered' = delivered + 1
  /\ UNCHANGED <<pc, pulled, submitted, received, dispatched, status, cause>>

ExecuteRaises ==
  /\ pc = "yield"
  /\ delivered < dispatched /\ status[delivered + 1] = "executeRaised"
  /\ pc' = "raised" /\ cause' = delivered + 1
  /\ UNCHANGED <<counters, status>>

\* All results of the execute batch are yielded: fill the next one.
NextExecuteBatch ==
  /\ pc = "yield" /\ delivered = dispatched
  /\ pc' = "collect"
  /\ UNCHANGED <<counters, status, cause>>

\* The outer batch is exhausted.
OuterBatchDone ==
  /\ pc = "collect" /\ received = dispatched /\ received = pulled
  /\ pc' = "outer"
  /\ UNCHANGED <<counters, status, cause>>

Main ==
  \/ PullOuter \/ Finish \/ SubmitCompile \/ JoinCompile \/ ReceiveCompiled
  \/ CompileRaises \/ SubmitExecute \/ JoinExecute \/ Deliver \/ ExecuteRaises
  \/ NextExecuteBatch \/ OuterBatchDone

-----------------------------------------------------------------------------
(* The pool workers.  compile_func and execute_func may return or raise. *)

Advance(t, from, to) ==
  /\ status[t] = from
  /\ status' = [status EXCEPT ![t] = to]
  /\ UNCHANGED <<pc, counters, cause>>

CompileStart(t)  == Advance(t, "compileQueued", "compiling")
CompileReturn(t) == Advance(t, "compiling", "compiled")
CompileRaise(t)  == Advance(t, "compiling", "compileRaised")

ExecuteStart(t)  == Advance(t, "executeQueued", "executing")
ExecuteReturn(t) == Advance(t, "executing", "executed")
ExecuteRaise(t)  == Advance(t, "executing", "executeRaised")

Compile(t) == CompileStart(t) \/ CompileReturn(t) \/ CompileRaise(t)
Execute(t) == ExecuteStart(t) \/ ExecuteReturn(t) \/ ExecuteRaise(t)

Workers == \E t \in Tasks : Compile(t) \/ Execute(t)

\* A run that returned or raised takes no more step.
Stopped == pc \in {"done", "raised"} /\ UNCHANGED vars

Next == Main \/ Workers \/ Stopped

\* A runnable main thread runs, and every compile and execute call returns.
Fairness ==
  /\ WF_vars(Main)
  /\ \A t \in Tasks : WF_vars(Compile(t)) /\ WF_vars(Execute(t))

Spec == Init /\ [][Next]_vars /\ Fairness

-----------------------------------------------------------------------------
(* Properties. *)

Running(s) == {t \in Tasks : status[t] = s}

\* Types of the main thread's place, of the five positions and of the tasks.
TypeOK ==
  /\ pc \in PCs
  /\ pulled \in 0 .. NTasks /\ submitted \in 0 .. NTasks /\ received \in 0 .. NTasks
  /\ dispatched \in 0 .. NTasks /\ delivered \in 0 .. NTasks
  /\ status \in [Tasks -> Statuses]
  /\ cause \in 0 .. NTasks

\* A measurement never shares the machine with a compilation: while a task
\* executes none compiles, although both stages are lazily chained generators.
NoCompileWhileExecuting ==
  ~ \E s, t \in Tasks : status[s] \in CompileLive /\ status[t] \in ExecuteLive

\* At most execute_jobs tasks are measured at the same time, so that with the
\* default of one each measurement is alone.
ExecutionWidth == Cardinality(Running("executing")) <= ExecuteJobs

\* The generators never run ahead of the consumer by more than one outer batch:
\* compiled payloads waiting to be executed are bounded by max_jobs.
BoundedPrefetch ==
  /\ Cardinality(Running("compiled")) <= MaxJobs
  /\ pulled - delivered <= MaxJobs

\* When an exception reaches the consumer no worker is left running, and every
\* task but the execute_jobs - 1 nearest predecessors of the failing one was
\* executed and delivered before it.
FailureIsPrompt ==
  pc = "raised" =>
    /\ \A t \in Tasks : status[t] \notin CompileLive \cup ExecuteLive
    /\ delivered < cause /\ cause - delivered <= ExecuteJobs
    /\ \A t \in 1 .. delivered : status[t] = "executed"

\* A failure of an earlier task is never overtaken by a later one: at the time
\* an exception surfaces no task before its cause has raised.
FirstFailureSurfaces ==
  pc = "raised" =>
    \A t \in 1 .. cause - 1 : status[t] \notin {"compileRaised", "executeRaised"}

\* A task is executed at most once and never compiled again after that: the
\* stages of a task are passed in order, whatever the batches.
StagesInOrder ==
  [][\A t \in Tasks :
       /\ status[t] \in {"executed", "executeRaised", "compileRaised"} => status'[t] = status[t]
       /\ status'[t] = "executeQueued" /\ status[t] # "executeQueued" => status[t] = "compiled"
       /\ status'[t] = "compileQueued" /\ status[t] # "compileQueued" => status[t] = "new"]_vars

-----------------------------------------------------------------------------
(* The inductive invariant: where a task may be, given where the main thread is. *)

\* The generators' positions, and how far apart each `islice` lets them get.
Positions ==
  /\ delivered <= dispatched /\ dispatched <= received
  /\ received <= submitted /\ submitted <= pulled
  /\ received - dispatched <= ExecuteJobs
  /\ dispatched - delivered <= ExecuteJobs
  /\ pulled - delivered <= MaxJobs
  /\ pc \in {"outer", "done"} => delivered = pulled
  /\ pc \in {"collect", "compile"} => delivered = dispatched
  /\ pc \in {"execute", "yield"} => dispatched = received
  /\ pc = "done" => pulled = NTasks

\* Workers run only while the main thread waits in the `with` of their pool.
LiveTasks ==
  \A t \in Tasks :
    /\ status[t] \in CompileLive => pc = "compile" /\ received < t /\ t <= submitted
    /\ status[t] \in ExecuteLive => pc = "execute" /\ delivered < t /\ t <= dispatched

Outcomes ==
  \A t \in Tasks :
    /\ t <= delivered => status[t] = "executed"
    /\ delivered < t /\ t <= dispatched => status[t] \in ExecuteLive \cup {"executed", "executeRaised"}
    /\ dispatched < t /\ t <= received => status[t] = "compiled"
    /\ received < t /\ t <= submitted => status[t] \in CompileLive \cup {"compiled", "compileRaised"}
    /\ submitted < t => status[t] = "new"

Raised ==
  pc = "raised" => /\ delivered < cause /\ cause <= delivered + ExecuteJobs
                   /\ cause \in Tasks
                   /\ cause <= dispatched => cause = delivered + 1
                   /\ dispatched < cause => cause = received + 1 /\ delivered = dispatched

IInv == TypeOK /\ Positions /\ LiveTasks /\ Outcomes /\ Raised

-----------------------------------------------------------------------------
(* What run() promises: a sequential loop over the payloads. *)

RunState == IF pc = "done" THEN "returned" ELSE IF pc = "raised" THEN "raised" ELSE "running"

Sequential ==
  INSTANCE SequentialRun WITH
    N <- NTasks, Slack <- ExecuteJobs, done <- delivered, state <- RunState

\* Seen from its consumer the pipeline is the sequential loop: results come one
\* by one in submission order, the run ends by returning all of them or by the
\* exception of one of the next execute_jobs tasks, and it does end.
ImplementsSequentialRun == Sequential!Spec
=============================================================================
