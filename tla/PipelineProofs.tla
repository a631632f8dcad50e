--------------------------- MODULE PipelineProofs ---------------------------
(* Theorems about Pipeline, for every number of payloads, workers and CPUs. *)
EXTENDS Pipeline, TLAPS, FiniteSetTheorems

\* The constructor turns any requested job counts into positive ones.
LEMMA JobsPositive ==
  /\ CompileJobs \in Nat \ {0}
  /\ ExecuteJobs \in Nat \ {0}
  /\ MaxJobs \in Nat \ {0}
  /\ CompileJobs <= MaxJobs /\ ExecuteJobs <= MaxJobs
<1>1. CpuCount \div 2 \in Nat
  BY PipelineAssumption, SMT
<1>2. CompileJobs \in Nat \ {0} /\ ExecuteJobs \in Nat \ {0}
  BY <1>1, PipelineAssumption DEF CompileJobs, ExecuteJobs, Larger
<1> QED
  BY <1>2 DEF MaxJobs, Larger

LEMMA InitInv == Init => IInv
  BY JobsPositive, PipelineAssumption
  DEF Init, IInv, TypeOK, Positions, LiveTasks, Outcomes, Raised, PCs, Statuses,
      CompileLive, ExecuteLive, Tasks

\* The invariant is preserved by every step of the main thread and the workers.
LEMMA NextInv == IInv /\ [Next]_vars => IInv'
<1> SUFFICES ASSUME IInv, [Next]_vars PROVE IInv'
  OBVIOUS
<1> USE JobsPositive, PipelineAssumption
    DEF IInv, TypeOK, Positions, LiveTasks, Outcomes, Raised, PCs, Statuses,
        CompileLive, ExecuteLive, Tasks, counters
<1>1. CASE PullOuter
  BY <1>1 DEF PullOuter, Smaller
<1>2. CASE Finish
  BY <1>2 DEF Finish
<1>3. CASE SubmitCompile
  BY <1>3 DEF SubmitCompile, Wanting, Batch, Smaller
<1>4. CASE JoinCompile
  BY <1>4 DEF JoinCompile, Batch
<1>5. CASE ReceiveCompiled
  BY <1>5 DEF ReceiveCompiled, Wanting
<1>6. CASE CompileRaises
  BY <1>6 DEF CompileRaises, Wanting
<1>7. CASE SubmitExecute
  BY <1>7 DEF SubmitExecute, Batch
<1>8. CASE JoinExecute
  BY <1>8 DEF JoinExecute, Batch
<1>9. CASE Deliver
  BY <1>9 DEF Deliver
<1>10. CASE ExecuteRaises
  BY <1>10 DEF ExecuteRaises
<1>11. CASE NextExecuteBatch
  BY <1>11 DEF NextExecuteBatch
<1>12. CASE OuterBatchDone
  BY <1>12 DEF OuterBatchDone
<1>13. ASSUME NEW t \in Tasks, Compile(t) PROVE IInv'
  BY <1>13 DEF Compile, CompileStart, CompileReturn, CompileRaise, Advance
<1>14. ASSUME NEW t \in Tasks, Execute(t) PROVE IInv'
  BY <1>14 DEF Execute, ExecuteStart, ExecuteReturn, ExecuteRaise, Advance
<1>15. CASE UNCHANGED vars
  BY <1>15 DEF vars
<1> QED
  BY <1>1, <1>2, <1>3, <1>4, <1>5, <1>6, <1>7, <1>8, <1>9, <1>10, <1>11, <1>12,
     <1>13, <1>14, <1>15 DEF Next, Main, Workers, Stopped

\* Every reachable state satisfies the inductive invariant.
THEOREM Invariant == Spec => []IInv
  BY InitInv, NextInv, PTL DEF Spec

\* The positions, the place of the main thread and the task states keep their types.
THEOREM TypeCorrect == Spec => []TypeOK
  BY Invariant, PTL DEF IInv

\* No task compiles while another executes, for any job counts.
THEOREM CompileExcludesExecute == Spec => []NoCompileWhileExecuting
<1>1. IInv => NoCompileWhileExecuting
  BY DEF IInv, LiveTasks, NoCompileWhileExecuting
<1> QED
  BY <1>1, Invariant, PTL

\* An interval of task numbers holds as many tasks as it is long.
LEMMA BatchSize ==
  ASSUME NEW lo \in Nat, NEW hi \in Nat, lo <= hi, NEW S, S \subseteq lo + 1 .. hi
  PROVE  IsFiniteSet(S) /\ Cardinality(S) <= hi - lo
<1>1. IsFiniteSet(lo + 1 .. hi) /\ Cardinality(lo + 1 .. hi) = hi - lo
  <2>1. lo + 1 \in Int /\ hi \in Int
    OBVIOUS
  <2>2. IsFiniteSet(lo + 1 .. hi)
        /\ Cardinality(lo + 1 .. hi) = IF lo + 1 > hi THEN 0 ELSE hi - (lo + 1) + 1
    BY <2>1, FS_Interval
  <2> QED
    BY <2>2
<1> QED
  BY <1>1, FS_Subset

\* At most execute_jobs tasks execute at any time.
THEOREM ExecutionIsBounded == Spec => []ExecutionWidth
<1>1. IInv => ExecutionWidth
  <2> SUFFICES ASSUME IInv PROVE ExecutionWidth
    OBVIOUS
  <2>1. Running("executing") \subseteq delivered + 1 .. dispatched
    BY DEF IInv, TypeOK, LiveTasks, ExecuteLive, Running, Tasks
  <2>2. delivered \in Nat /\ dispatched \in Nat /\ delivered <= dispatched
    BY DEF IInv, TypeOK, Positions
  <2>3. Cardinality(Running("executing")) <= dispatched - delivered
    BY <2>1, <2>2, BatchSize
  <2>4. Cardinality(Running("executing")) \in Nat
    BY <2>1, <2>2, BatchSize, FS_CardinalityType
  <2> QED
    BY <2>2, <2>3, <2>4, JobsPositive DEF IInv, Positions, ExecutionWidth
<1> QED
  BY <1>1, Invariant, PTL

\* At most max_jobs compiled payloads wait, and the generators are never more
\* than max_jobs tasks ahead of the consumer.
THEOREM PrefetchIsBounded == Spec => []BoundedPrefetch
<1>1. IInv => BoundedPrefetch
  <2> SUFFICES ASSUME IInv PROVE BoundedPrefetch
    OBVIOUS
  <2>1. Running("compiled") \subseteq delivered + 1 .. pulled
    BY DEF IInv, TypeOK, Positions, Outcomes, Running, Tasks
  <2>2. delivered \in Nat /\ pulled \in Nat /\ delivered <= pulled
    BY DEF IInv, TypeOK, Positions
  <2>3. Cardinality(Running("compiled")) <= pulled - delivered
    BY <2>1, <2>2, BatchSize
  <2>4. Cardinality(Running("compiled")) \in Nat
    BY <2>1, <2>2, BatchSize, FS_CardinalityType
  <2> QED
    BY <2>2, <2>3, <2>4, JobsPositive DEF IInv, Positions, BoundedPrefetch
<1> QED
  BY <1>1, Invariant, PTL

\* An exception surfaces with no worker left running and with all results but
\* those of at most execute_jobs - 1 earlier tasks delivered.
THEOREM PromptFailure == Spec => []FailureIsPrompt
<1>1. IInv => FailureIsPrompt
  <2> SUFFICES ASSUME IInv, pc = "raised" PROVE FailureIsPrompt
    BY DEF FailureIsPrompt
  <2>1. \A t \in Tasks : status[t] \notin CompileLive \cup ExecuteLive
    BY DEF IInv, LiveTasks
  <2>2. delivered < cause /\ cause - delivered <= ExecuteJobs
    BY JobsPositive DEF IInv, TypeOK, Raised
  <2>3. \A t \in 1 .. delivered : status[t] = "executed"
    BY PipelineAssumption DEF IInv, TypeOK, Outcomes, Tasks
  <2> QED
    BY <2>1, <2>2, <2>3 DEF FailureIsPrompt
<1> QED
  BY <1>1, Invariant, PTL

\* The exception that surfaces is that of the first task that raised.
THEOREM FirstFailure == Spec => []FirstFailureSurfaces
<1>1. IInv => FirstFailureSurfaces
  BY JobsPositive, PipelineAssumption
  DEF IInv, TypeOK, Positions, Outcomes, Raised, FirstFailureSurfaces, Tasks
<1> QED
  BY <1>1, Invariant, PTL

\* The states a task has gone through are never entered again.
THEOREM StagesPassInOrder == Spec => StagesInOrder
<1> DEFINE Stages ==
      \A t \in Tasks :
        /\ status[t] \in {"executed", "executeRaised", "compileRaised"} => status'[t] = status[t]
        /\ status'[t] = "executeQueued" /\ status[t] # "executeQueued" => status[t] = "compiled"
        /\ status'[t] = "compileQueued" /\ status[t] # "compileQueued" => status[t] = "new"
<1>1. IInv /\ [Next]_vars => Stages
  <2> SUFFICES ASSUME IInv, [Next]_vars PROVE Stages
    OBVIOUS
  <2>1. CASE SubmitCompile
    BY <2>1, JobsPositive, PipelineAssumption
    DEF SubmitCompile, Batch, IInv, TypeOK, Positions, Outcomes, Tasks
  <2>2. CASE SubmitExecute
    BY <2>2, JobsPositive, PipelineAssumption
    DEF SubmitExecute, Batch, IInv, TypeOK, Positions, Outcomes, Tasks
  <2>3. ASSUME NEW t \in Tasks, Compile(t) \/ Execute(t) PROVE Stages
    BY <2>3 DEF Compile, CompileStart, CompileReturn, CompileRaise, Execute, ExecuteStart,
                ExecuteReturn, ExecuteRaise, Advance, IInv, TypeOK
  <2>4. CASE UNCHANGED status
    BY <2>4
  <2> QED
    BY <2>1, <2>2, <2>3, <2>4
    DEF Next, Main, Workers, Stopped, vars, PullOuter, Finish, JoinCompile, ReceiveCompiled,
        CompileRaises, JoinExecute, Deliver, ExecuteRaises, NextExecuteBatch, OuterBatchDone
<1>2. IInv /\ [Next]_vars => [Stages]_vars
  BY <1>1
<1> QED
  BY <1>2, Invariant, PTL DEF Spec, StagesInOrder

\* The safety part of the refinement: every step of the pipeline is a step of
\* the sequential loop or leaves what the consumer sees unchanged.
THEOREM RefinesSequentialRun ==
  Spec => Sequential!Init /\ [][Sequential!Next]_(Sequential!avars)
<1>1. Init => Sequential!Init
  BY DEF Init, Sequential!Init, RunState
<1>2. IInv /\ [Next]_vars => [Sequential!Next]_(Sequential!avars)
  <2> SUFFICES ASSUME IInv, [Next]_vars PROVE [Sequential!Next]_(Sequential!avars)
    OBVIOUS
  <2> USE DEF Sequential!avars, RunState
  <2>1. CASE Deliver
    BY <2>1, PipelineAssumption DEF Deliver, Sequential!Next, Sequential!Result, IInv, TypeOK, Positions
  <2>2. CASE Finish
    BY <2>2 DEF Finish, counters, Sequential!Next, Sequential!Return, IInv, Positions
  <2>3. CASE CompileRaises
    <3>1. received + 1 \in 1 .. NTasks
      BY <2>3, PipelineAssumption DEF CompileRaises, IInv, TypeOK, Positions
    <3>2. delivered < received + 1 /\ received + 1 <= delivered + ExecuteJobs
      BY <2>3, JobsPositive DEF CompileRaises, Wanting, IInv, TypeOK, Positions
    <3> QED
      BY <2>3, <3>1, <3>2 DEF CompileRaises, Wanting, counters, Sequential!Next, Sequential!Raise
  <2>4. CASE ExecuteRaises
    <3>1. delivered + 1 \in 1 .. NTasks
      BY <2>4, PipelineAssumption DEF ExecuteRaises, IInv, TypeOK, Positions
    <3>2. delivered < delivered + 1 /\ delivered + 1 <= delivered + ExecuteJobs
      BY JobsPositive DEF IInv, TypeOK
    <3> QED
      BY <2>4, <3>1, <3>2 DEF ExecuteRaises, counters, Sequential!Next, Sequential!Raise
  <2>5. CASE \/ PullOuter \/ SubmitCompile \/ JoinCompile \/ ReceiveCompiled \/ SubmitExecute
            \/ JoinExecute \/ NextExecuteBatch \/ OuterBatchDone \/ Workers \/ Stopped
            \/ UNCHANGED vars
    BY <2>5 DEF PullOuter, SubmitCompile, JoinCompile, ReceiveCompiled, SubmitExecute, JoinExecute,
                NextExecuteBatch, OuterBatchDone, Workers, Compile, CompileStart,
                CompileReturn, CompileRaise, Execute, ExecuteStart, ExecuteReturn,
                ExecuteRaise, Advance, Stopped,
                vars, counters, Wanting
  <2> QED
    BY <2>1, <2>2, <2>3, <2>4, <2>5 DEF Next, Main
<1> QED
  BY <1>1, <1>2, Invariant, PTL DEF Spec
=============================================================================
