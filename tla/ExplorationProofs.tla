-------------------------- MODULE ExplorationProofs --------------------------
(***************************************************************************)
(* Theorems about Exploration, for every number of samples, backends, jobs  *)
(* and CPUs.  Those of PipelineProofs hold of its task states.              *)
(***************************************************************************)
EXTENDS Exploration, TLAPS, SequenceTheorems, FiniteSetTheorems

Q == INSTANCE PipelineProofs WITH ReqCompileJobs <- Jobs, ReqExecuteJobs <- 0

Results == [task : P!Tasks, backend : Backends, code : {0, 1}]

TypeOK ==
  /\ executeOn \in BOOLEAN /\ saveTemps \in BOOLEAN
  /\ compiled \in [P!Tasks -> 0 .. NBackends] /\ evaluated \in [P!Tasks -> 0 .. NBackends]
  /\ libs \subseteq P!Tasks \X Backends
  /\ memory \in Seq(Results) /\ csv \in Seq(Results)

\* One sample executes at a time, and no more are compiled ahead than there are jobs.
OneAhead == dispatched <= delivered + 1 /\ submitted - delivered <= P!CompileJobs

\* How many backends of a sample were compiled and evaluated, given its stage.
StageCounts ==
  \A t \in P!Tasks :
    /\ status[t] \in {"new", "compileQueued"} => compiled[t] = 0
    /\ status[t] \notin {"executing", "executed", "executeRaised"} => evaluated[t] = 0
    /\ executeOn /\ status[t] = "executed" => evaluated[t] = NBackends

\* What is on disk was compiled, and not yet evaluated unless it is kept.
LibsInv ==
  \A t \in P!Tasks, b \in Backends :
    <<t, b>> \in libs => b <= compiled[t] /\ (saveTemps \/ evaluated[t] < b)

Failing == \E t \in P!Tasks : status[t] = "executeRaised"

\* The results so far: all of the delivered samples, and those of the one executing.
MemoryLength ==
  executeOn =>
    IF delivered = dispatched THEN Len(memory) = delivered * NBackends
    ELSE \/ Len(memory) = delivered * NBackends + evaluated[delivered + 1]
         \/ Failing /\ Len(memory) = delivered * NBackends + evaluated[delivered + 1] + 1

Ordered == \A i \in 1 .. Len(memory) : Position(memory[i]) = i

\* The rows are results, in their order, and only the last result may lack its row.
RowsInv ==
  /\ \A i \in 1 .. Len(csv) :
       \E j \in 1 .. Len(memory) : csv[i] = memory[j] /\ memory[j].code = 0
  /\ \A i, j \in 1 .. Len(csv) : i < j => Position(csv[i]) < Position(csv[j])
  /\ \A j \in 1 .. Len(memory) :
       memory[j].code = 0 =>
         (\E i \in 1 .. Len(csv) : csv[i] = memory[j]) \/ (j = Len(memory) /\ Failing)

ResultsInv == MemoryLength /\ Ordered /\ RowsInv

IInv == P!IInv /\ TypeOK /\ OneAhead /\ StageCounts /\ LibsInv /\ ResultsInv

-----------------------------------------------------------------------------
(* The pipeline inside the exploration. *)

\* The instance of the model and that of its theorems define the same.
LEMMA SamePipeline ==
  (P!IInv <=> Q!IInv) /\ (P!Init <=> Q!Init)
  BY DEF P!IInv, Q!IInv, P!TypeOK, Q!TypeOK, P!Positions, Q!Positions, P!LiveTasks, Q!LiveTasks,
         P!Outcomes, Q!Outcomes, P!Raised, Q!Raised, P!Tasks, Q!Tasks, P!PCs, Q!PCs,
         P!Statuses, Q!Statuses, P!CompileLive, Q!CompileLive, P!ExecuteLive, Q!ExecuteLive,
         P!ExecuteJobs, Q!ExecuteJobs, P!MaxJobs, Q!MaxJobs, P!CompileJobs, Q!CompileJobs,
         P!Larger, Q!Larger, P!Init, Q!Init

LEMMA SameSteps == [P!Next]_(P!vars) <=> [Q!Next]_(Q!vars)
<1>1. P!Tasks = Q!Tasks
  BY DEF P!Tasks, Q!Tasks
<1>2. P!CompileJobs = Q!CompileJobs /\ P!ExecuteJobs = Q!ExecuteJobs /\ P!MaxJobs = Q!MaxJobs
  BY DEF P!ExecuteJobs, Q!ExecuteJobs, P!MaxJobs, Q!MaxJobs, P!CompileJobs, Q!CompileJobs,
         P!Larger, Q!Larger
<1>3. \A a, b : P!Smaller(a, b) = Q!Smaller(a, b) /\ P!Batch(a, b) = Q!Batch(a, b)
  BY <1>1 DEF P!Smaller, Q!Smaller, P!Batch, Q!Batch
<1>4. P!Main <=> Q!Main
  <2>1. P!Wanting <=> Q!Wanting
    BY <1>2 DEF P!Wanting, Q!Wanting
  <2>2. P!PullOuter <=> Q!PullOuter
    BY <1>2, <1>3 DEF P!PullOuter, Q!PullOuter
  <2>3. P!SubmitCompile <=> Q!SubmitCompile
    BY <1>1, <1>2, <1>3, <2>1 DEF P!SubmitCompile, Q!SubmitCompile
  <2>4. P!JoinCompile <=> Q!JoinCompile
    BY <1>3 DEF P!JoinCompile, Q!JoinCompile, P!counters, Q!counters
  <2>5. P!SubmitExecute <=> Q!SubmitExecute
    BY <1>1, <1>2, <1>3 DEF P!SubmitExecute, Q!SubmitExecute
  <2>6. P!JoinExecute <=> Q!JoinExecute
    BY <1>3 DEF P!JoinExecute, Q!JoinExecute, P!counters, Q!counters
  <2>7. /\ P!Finish <=> Q!Finish
        /\ P!ReceiveCompiled <=> Q!ReceiveCompiled
        /\ P!CompileRaises <=> Q!CompileRaises
        /\ P!Deliver <=> Q!Deliver
        /\ P!ExecuteRaises <=> Q!ExecuteRaises
        /\ P!NextExecuteBatch <=> Q!NextExecuteBatch
        /\ P!OuterBatchDone <=> Q!OuterBatchDone
    BY <2>1
    DEF P!Finish, Q!Finish, P!ReceiveCompiled, Q!ReceiveCompiled, P!CompileRaises, Q!CompileRaises,
        P!Deliver, Q!Deliver, P!ExecuteRaises, Q!ExecuteRaises, P!NextExecuteBatch,
        Q!NextExecuteBatch, P!OuterBatchDone, Q!OuterBatchDone, P!counters, Q!counters
  <2> QED
    BY <2>2, <2>3, <2>4, <2>5, <2>6, <2>7 DEF P!Main, Q!Main
<1>5. P!Workers <=> Q!Workers
  BY <1>1
  DEF P!Workers, Q!Workers, P!Compile, Q!Compile, P!Execute, Q!Execute, P!CompileStart,
      Q!CompileStart, P!CompileReturn, Q!CompileReturn, P!CompileRaise, Q!CompileRaise,
      P!ExecuteStart, Q!ExecuteStart, P!ExecuteReturn, Q!ExecuteReturn, P!ExecuteRaise,
      Q!ExecuteRaise, P!Advance, Q!Advance, P!counters, Q!counters
<1> QED
  BY <1>4, <1>5 DEF P!Next, Q!Next, P!Stopped, Q!Stopped, P!vars, Q!vars

\* A step of the exploration is a step of the pipeline or leaves its state alone.
LEMMA StepsOfPipeline == [Next]_vars => [P!Next]_(P!vars)
<1> SUFFICES ASSUME Next, ~ UNCHANGED pvars PROVE P!Next
  BY DEF vars, pvars, P!vars
<1>1. CASE Main
  BY <1>1 DEF Main, P!Next
<1>2. ASSUME NEW t \in P!Tasks, Compile(t) PROVE P!Next
  BY <1>2 DEF Compile, CompileStart, CompileOne, CompileFails, CompileEnd, P!Next, P!Workers,
              P!Compile
<1>3. ASSUME NEW t \in P!Tasks, Execute(t) PROVE P!Next
  BY <1>3 DEF Execute, ExecuteStart, ExecuteSkip, EvaluateOne, EvaluatorRaises, CsvRaises,
              ExecuteEnd, P!Next, P!Workers, P!Execute
<1> QED
  BY <1>1, <1>2, <1>3 DEF Next

LEMMA PipelineInv == P!IInv /\ [Next]_vars => P!IInv'
<1>1. (P!IInv <=> Q!IInv) /\ (P!IInv <=> Q!IInv)'
  BY SamePipeline, PTL
<1> QED
  BY <1>1, StepsOfPipeline, SameSteps, Q!NextInv, ExplorationAssumption

-----------------------------------------------------------------------------
LEMMA Jobs1 == P!ExecuteJobs = 1 /\ P!CompileJobs \in Nat \ {0} /\ NBackends \in Nat \ {0}
<1>1. CpuCount \div 2 \in Nat
  BY ExplorationAssumption, SMT
<1> QED
  BY <1>1, ExplorationAssumption DEF P!ExecuteJobs, P!CompileJobs, P!Larger

\* The stages of a sample, given the positions of the generators.
LEMMA Places ==
  ASSUME P!IInv, OneAhead, NEW t \in P!Tasks
  PROVE  /\ t \in Nat \ {0} /\ delivered \in Nat /\ dispatched \in Nat /\ submitted \in Nat
         /\ delivered <= dispatched
         /\ status[t] \in {"executeQueued", "executing", "executeRaised"} =>
              t = delivered + 1 /\ dispatched = delivered + 1
         /\ t <= delivered => status[t] = "executed"
         /\ submitted < t => status[t] = "new"
  BY ExplorationAssumption
  DEF P!IInv, P!TypeOK, P!Positions, P!Outcomes, P!CompileLive, P!ExecuteLive, P!Tasks, OneAhead

LEMMA NotFailing ==
  ASSUME P!IInv, OneAhead, NEW t \in P!Tasks, t = delivered + 1, status[t] # "executeRaised"
  PROVE  ~ Failing
  BY Places DEF Failing

\* An exception of a task is not forgotten.
LEMMA FailingStays == P!IInv /\ [P!Next]_(P!vars) /\ Failing => Failing'
<1> SUFFICES ASSUME P!IInv, [P!Next]_(P!vars), NEW s \in P!Tasks, status[s] = "executeRaised"
             PROVE  status'[s] = "executeRaised"
  BY DEF Failing
<1>1. CASE P!SubmitCompile
  BY <1>1, ExplorationAssumption
  DEF P!SubmitCompile, P!Batch, P!IInv, P!TypeOK, P!Positions, P!Outcomes, P!Tasks
<1>2. CASE P!SubmitExecute
  BY <1>2, ExplorationAssumption
  DEF P!SubmitExecute, P!Batch, P!IInv, P!TypeOK, P!Positions, P!Outcomes, P!Tasks
<1>3. ASSUME NEW t \in P!Tasks, P!Compile(t) \/ P!Execute(t) PROVE status'[s] = "executeRaised"
  BY <1>3 DEF P!Compile, P!CompileStart, P!CompileReturn, P!CompileRaise, P!Execute,
              P!ExecuteStart, P!ExecuteReturn, P!ExecuteRaise, P!Advance, P!IInv, P!TypeOK
<1>4. CASE UNCHANGED status
  BY <1>4
<1> QED
  BY <1>1, <1>2, <1>3, <1>4
  DEF P!Next, P!Main, P!Workers, P!Stopped, P!vars, P!PullOuter, P!Finish, P!JoinCompile,
      P!ReceiveCompiled, P!CompileRaises, P!JoinExecute, P!Deliver, P!ExecuteRaises,
      P!NextExecuteBatch, P!OuterBatchDone

-----------------------------------------------------------------------------
(* Every step keeps the inductive invariant. *)

LEMMA InitInv == Init => IInv
<1> SUFFICES ASSUME Init PROVE IInv
  OBVIOUS
<1>1. P!IInv
  BY SamePipeline, Q!InitInv, ExplorationAssumption DEF Init
<1>2. TypeOK
  BY Jobs1, EmptySeq DEF Init, TypeOK
<1>3. OneAhead /\ StageCounts /\ LibsInv
  BY Jobs1 DEF Init, P!Init, OneAhead, StageCounts, LibsInv
<1>4. Len(memory) = 0 /\ Len(csv) = 0 /\ delivered = 0 /\ dispatched = 0
  BY DEF Init, P!Init
<1>5. 0 * NBackends = 0
  BY Jobs1
<1>6. ResultsInv
  BY <1>4, <1>5 DEF ResultsInv, MemoryLength, Ordered, RowsInv
<1> QED
  BY <1>1, <1>2, <1>3, <1>6 DEF IInv

LEMMA OneAheadInv == P!IInv /\ OneAhead /\ [P!Next]_(P!vars) => OneAhead'
<1> SUFFICES ASSUME P!IInv, OneAhead, [P!Next]_(P!vars) PROVE OneAhead'
  OBVIOUS
<1>0. /\ delivered \in Nat /\ dispatched \in Nat /\ received \in Nat /\ submitted \in Nat
      /\ pulled \in Nat
  BY ExplorationAssumption DEF P!IInv, P!TypeOK
<1>1. CASE P!SubmitCompile
  BY <1>0, <1>1, Jobs1
  DEF P!SubmitCompile, P!Wanting, P!Smaller, P!IInv, P!Positions, OneAhead, P!CompileJobs
<1>2. CASE P!SubmitExecute
  BY <1>0, <1>2, Jobs1 DEF P!SubmitExecute, P!IInv, P!Positions, OneAhead, P!CompileJobs
<1>3. CASE P!Deliver
  BY <1>0, <1>3, Jobs1 DEF P!Deliver, OneAhead, P!CompileJobs
<1>4. CASE UNCHANGED <<submitted, dispatched, delivered>>
  BY <1>4 DEF OneAhead, P!CompileJobs
<1> QED
  BY <1>1, <1>2, <1>3, <1>4
  DEF P!Next, P!Main, P!Workers, P!Stopped, P!vars, P!counters, P!PullOuter, P!Finish,
      P!JoinCompile, P!ReceiveCompiled, P!CompileRaises, P!JoinExecute, P!ExecuteRaises,
      P!NextExecuteBatch, P!OuterBatchDone, P!Compile, P!CompileStart, P!CompileReturn,
      P!CompileRaise, P!Execute, P!ExecuteStart, P!ExecuteReturn, P!ExecuteRaise, P!Advance

\* The steps of the pipeline alone: nothing is compiled, evaluated or recorded.
Moves ==
  \/ Main
  \/ \E t \in P!Tasks : \/ CompileStart(t) \/ CompileFails(t) \/ CompileEnd(t)
                        \/ ExecuteStart(t) \/ ExecuteSkip(t) \/ EvaluatorRaises(t)
                        \/ ExecuteEnd(t)

LEMMA MovesKeepFiles == Moves => UNCHANGED <<config, files, records>>
  BY DEF Moves, Main, CompileStart, CompileFails, CompileEnd, ExecuteStart, ExecuteSkip,
         EvaluatorRaises, ExecuteEnd

LEMMA MovesStages == IInv /\ Moves => StageCounts'
<1> SUFFICES ASSUME IInv, Moves PROVE StageCounts'
  OBVIOUS
<1>1. UNCHANGED <<executeOn, compiled, evaluated>>
  BY MovesKeepFiles DEF config, files
<1>2. CASE P!SubmitCompile
  <2>1. ASSUME NEW t \in P!Tasks
        PROVE  status'[t] = status[t] \/ (status[t] = "new" /\ status'[t] = "compileQueued")
    BY <1>2, ExplorationAssumption
    DEF P!SubmitCompile, P!Batch, IInv, P!IInv, P!TypeOK, P!Positions, P!Outcomes, P!Tasks
  <2> QED
    BY <1>1, <2>1 DEF IInv, StageCounts
<1>3. CASE P!SubmitExecute
  <2>1. ASSUME NEW t \in P!Tasks
        PROVE  status'[t] = status[t] \/ (status[t] = "compiled" /\ status'[t] = "executeQueued")
    BY <1>3, ExplorationAssumption
    DEF P!SubmitExecute, P!Batch, IInv, P!IInv, P!TypeOK, P!Positions, P!Outcomes, P!Tasks
  <2> QED
    BY <1>1, <2>1 DEF IInv, StageCounts
<1>4. ASSUME NEW s \in P!Tasks,
             \/ CompileStart(s) \/ CompileFails(s) \/ CompileEnd(s)
             \/ ExecuteStart(s) \/ ExecuteSkip(s) \/ EvaluatorRaises(s) \/ ExecuteEnd(s)
      PROVE  StageCounts'
  <2>1. /\ status' = [status EXCEPT ![s] = status'[s]]
        /\ \/ status[s] = "compileQueued" /\ status'[s] = "compiling"
           \/ status[s] = "compiling" /\ status'[s] \in {"compiled", "compileRaised"}
           \/ status[s] = "executeQueued" /\ status'[s] = "executing"
           \/ status[s] = "executing" /\ status'[s] = "executeRaised"
           \/ /\ status[s] = "executing" /\ status'[s] = "executed"
              /\ executeOn => evaluated[s] = NBackends
    BY <1>4 DEF IInv, P!IInv, P!TypeOK, CompileStart, CompileFails, CompileEnd, ExecuteStart,
                ExecuteSkip, EvaluatorRaises, ExecuteEnd, P!CompileStart, P!CompileRaise,
                P!CompileReturn, P!ExecuteStart, P!ExecuteReturn, P!ExecuteRaise, P!Advance
  <2>2. ASSUME NEW t \in P!Tasks, t # s PROVE status'[t] = status[t]
    BY <2>1, <2>2 DEF IInv, P!IInv, P!TypeOK
  <2> QED
    BY <1>1, <2>1, <2>2 DEF IInv, StageCounts
<1>5. CASE UNCHANGED status
  BY <1>1, <1>5 DEF IInv, StageCounts
<1> QED
  BY <1>2, <1>3, <1>4, <1>5
  DEF Moves, Main, P!Main, P!Stopped, P!vars, P!PullOuter, P!Finish, P!JoinCompile,
      P!ReceiveCompiled, P!CompileRaises, P!JoinExecute, P!Deliver, P!ExecuteRaises,
      P!NextExecuteBatch, P!OuterBatchDone

LEMMA MovesResults == IInv /\ Moves => ResultsInv'
<1> SUFFICES ASSUME IInv, Moves PROVE ResultsInv'
  OBVIOUS
<1>1. UNCHANGED <<executeOn, evaluated, memory, csv>>
  BY MovesKeepFiles DEF config, files, records
<1>2. [P!Next]_(P!vars) /\ (Failing => Failing')
  <2>1. Moves => Next
    BY DEF Moves, Next, Compile, Execute
  <2> QED
    BY <2>1, StepsOfPipeline, FailingStays DEF IInv
<1>3. Ordered'
  BY <1>1 DEF IInv, ResultsInv, Ordered, Position
<1>4. RowsInv'
  BY <1>1, <1>2 DEF IInv, ResultsInv, RowsInv, Position
<1>5. MemoryLength'
  <2> SUFFICES ASSUME executeOn PROVE MemoryLength'
    BY <1>1 DEF MemoryLength
  <2>0. /\ delivered \in 0 .. NTasks /\ dispatched \in 0 .. NTasks /\ received \in 0 .. NTasks
        /\ NTasks \in Nat /\ NBackends \in Nat
    BY ExplorationAssumption DEF IInv, P!IInv, P!TypeOK
  <2>1. CASE P!SubmitExecute
    <3>1. /\ delivered' = delivered /\ delivered = dispatched /\ dispatched < dispatched'
          /\ delivered + 1 \in P!Tasks /\ delivered + 1 <= received
      BY <2>0, <2>1 DEF P!SubmitExecute, IInv, P!IInv, P!Positions, P!Tasks
    <3>2. status[delivered + 1] = "compiled"
      BY <2>0, <3>1 DEF IInv, P!IInv, P!Outcomes
    <3>3. evaluated[delivered + 1] = 0
      BY <3>1, <3>2 DEF IInv, StageCounts
    <3>4. Len(memory) = delivered * NBackends
      BY <3>1 DEF IInv, ResultsInv, MemoryLength
    <3>5. delivered * NBackends \in Nat
      BY <2>0
    <3> QED
      BY <1>1, <2>0, <3>1, <3>3, <3>4, <3>5 DEF MemoryLength
  <2>2. CASE P!Deliver
    <3>1. /\ delivered' = delivered + 1 /\ dispatched' = dispatched /\ dispatched = delivered + 1
          /\ delivered + 1 \in P!Tasks /\ status[delivered + 1] = "executed"
      BY <2>0, <2>2 DEF P!Deliver, IInv, OneAhead, P!Tasks
    <3>2. ~ Failing
      BY <3>1, NotFailing DEF IInv
    <3>3. Len(memory) = delivered * NBackends + NBackends
      BY <2>0, <3>1, <3>2 DEF IInv, ResultsInv, MemoryLength, StageCounts
    <3>4. (delivered + 1) * NBackends = delivered * NBackends + NBackends
      BY <2>0
    <3> QED
      BY <1>1, <3>1, <3>3, <3>4 DEF MemoryLength
  <2>3. CASE UNCHANGED <<delivered, dispatched>>
    BY <1>1, <1>2, <2>3 DEF IInv, ResultsInv, MemoryLength
  <2> QED
    BY <1>2, <2>1, <2>2, <2>3
    DEF P!Next, P!Main, P!Workers, P!Stopped, P!vars, P!counters, P!PullOuter, P!Finish,
        P!SubmitCompile, P!JoinCompile, P!ReceiveCompiled, P!CompileRaises, P!JoinExecute,
        P!ExecuteRaises, P!NextExecuteBatch, P!OuterBatchDone, P!Compile, P!CompileStart,
        P!CompileReturn, P!CompileRaise, P!Execute, P!ExecuteStart, P!ExecuteReturn,
        P!ExecuteRaise, P!Advance
<1> QED
  BY <1>3, <1>4, <1>5 DEF ResultsInv

LEMMA MovesInv == IInv /\ Moves => TypeOK' /\ StageCounts' /\ LibsInv' /\ ResultsInv'
<1> SUFFICES ASSUME IInv, Moves PROVE TypeOK' /\ LibsInv'
  BY MovesStages, MovesResults
<1>1. UNCHANGED <<config, files, records>>
  BY MovesKeepFiles
<1> QED
  BY <1>1 DEF IInv, TypeOK, LibsInv, config, files, records

LEMMA CompileOneInv ==
  ASSUME IInv, NEW t \in P!Tasks, CompileOne(t)
  PROVE  TypeOK' /\ StageCounts' /\ LibsInv' /\ ResultsInv'
<1>1. /\ status[t] = "compiling" /\ compiled[t] \in 0 .. NBackends /\ compiled[t] < NBackends
      /\ compiled' = [compiled EXCEPT ![t] = compiled[t] + 1]
      /\ libs' = libs \cup {<<t, compiled[t] + 1>>}
      /\ UNCHANGED <<config, pvars, evaluated, records>>
  BY DEF CompileOne, IInv, TypeOK
<1>2. NBackends \in Nat \ {0} /\ evaluated[t] = 0
  BY <1>1, Jobs1 DEF IInv, StageCounts
<1>3. TypeOK'
  BY <1>1, <1>2 DEF IInv, TypeOK, config, records, Backends
<1>4. StageCounts'
  BY <1>1 DEF IInv, TypeOK, StageCounts, config, pvars
<1>5. LibsInv'
  <2> SUFFICES ASSUME NEW s \in P!Tasks, NEW b \in Backends, <<s, b>> \in libs'
               PROVE  b <= compiled'[s] /\ (saveTemps' \/ evaluated'[s] < b)
    BY DEF LibsInv
  <2>1. CASE <<s, b>> \in libs
    BY <1>1, <1>2, <2>1 DEF IInv, TypeOK, LibsInv, config, Backends
  <2>2. CASE s = t /\ b = compiled[t] + 1
    BY <1>1, <1>2, <2>2 DEF IInv, TypeOK, Backends
  <2> QED
    BY <1>1, <2>1, <2>2
<1>6. ResultsInv'
  BY <1>1 DEF IInv, ResultsInv, MemoryLength, Ordered, RowsInv, Position, Failing, config, pvars,
              records
<1> QED
  BY <1>3, <1>4, <1>5, <1>6

\* A result is added at the end, with its row or the exception that kept it out.
LEMMA ResultAdded ==
  ASSUME TypeOK, Ordered, RowsInv, ~ Failing, NEW r \in Results, Position(r) = Len(memory) + 1,
         memory' = Append(memory, r),
         \/ r.code = 0 /\ csv' = Append(csv, r)
         \/ (r.code # 0 \/ Failing') /\ csv' = csv
  PROVE  /\ memory' \in Seq(Results) /\ csv' \in Seq(Results) /\ Len(memory') = Len(memory) + 1
         /\ Ordered' /\ RowsInv'
<1>1. Len(memory) \in Nat /\ Len(csv) \in Nat
  BY LenProperties DEF TypeOK
<1>2. /\ memory' \in Seq(Results) /\ Len(memory') = Len(memory) + 1
      /\ \A i \in 1 .. Len(memory) : memory'[i] = memory[i]
      /\ memory'[Len(memory) + 1] = r
  BY AppendProperties DEF TypeOK
<1>3. \A i \in 1 .. Len(memory') : i \in 1 .. Len(memory) \/ i = Len(memory) + 1
  BY <1>1, <1>2
<1>4. 1 .. Len(memory) \subseteq 1 .. Len(memory') /\ Len(memory) + 1 \in 1 .. Len(memory')
  BY <1>1, <1>2
<1>5. Ordered'
  BY <1>2, <1>3 DEF Ordered, Position
<1>6. \A i \in 1 .. Len(csv) : Position(csv[i]) <= Len(memory)
  <2> TAKE i \in 1 .. Len(csv)
  <2>1. PICK j \in 1 .. Len(memory) : csv[i] = memory[j]
    BY DEF RowsInv
  <2> QED
    BY <1>1, <2>1 DEF Ordered
<1>7. CASE r.code = 0 /\ csv' = Append(csv, r)
  <2>1. /\ csv' \in Seq(Results) /\ Len(csv') = Len(csv) + 1
        /\ \A i \in 1 .. Len(csv) : csv'[i] = csv[i]
        /\ csv'[Len(csv) + 1] = r
    BY <1>7, AppendProperties DEF TypeOK
  <2>2. /\ \A i \in 1 .. Len(csv') : i \in 1 .. Len(csv) \/ i = Len(csv) + 1
        /\ 1 .. Len(csv) \subseteq 1 .. Len(csv') /\ Len(csv) + 1 \in 1 .. Len(csv')
    BY <1>1, <2>1
  <2>3. \A i \in 1 .. Len(csv') :
          \E j \in 1 .. Len(memory') : csv'[i] = memory'[j] /\ memory'[j].code = 0
    <3>1. \A i \in 1 .. Len(csv) :
            \E j \in 1 .. Len(memory') : csv'[i] = memory'[j] /\ memory'[j].code = 0
      BY <1>2, <1>4, <2>1 DEF RowsInv
    <3>2. csv'[Len(csv) + 1] = memory'[Len(memory) + 1] /\ memory'[Len(memory) + 1].code = 0
      BY <1>2, <1>7, <2>1
    <3> QED
      BY <1>4, <2>2, <3>1, <3>2
  <2>4. \A i, j \in 1 .. Len(csv') : i < j => Position(csv'[i]) < Position(csv'[j])
    <3> SUFFICES ASSUME NEW i \in 1 .. Len(csv'), NEW j \in 1 .. Len(csv'), i < j
                 PROVE  Position(csv'[i]) < Position(csv'[j])
      OBVIOUS
    <3>1. i \in 1 .. Len(csv)
      BY <1>1, <2>1
    <3>2. CASE j \in 1 .. Len(csv)
      BY <2>1, <3>1, <3>2 DEF RowsInv
    <3>3. CASE j = Len(csv) + 1
      <4>1. csv'[j] = r /\ csv'[i] = csv[i]
        BY <2>1, <3>1, <3>3
      <4>2. Position(csv[i]) <= Len(memory) /\ Position(r) = Len(memory) + 1
        BY <1>6, <3>1
      <4>3. Position(csv[i]) \in Int
        <5>1. csv[i] \in Results
          BY <3>1, ElementOfSeq DEF TypeOK
        <5>2. csv[i].task \in Int /\ csv[i].backend \in Int /\ NBackends \in Int
          BY <5>1, Jobs1, ExplorationAssumption DEF Results, P!Tasks, Backends
        <5> QED
          BY <5>2, SMT DEF Position
      <4> QED
        BY <1>1, <4>1, <4>2, <4>3
    <3> QED
      BY <2>2, <3>2, <3>3
  <2>5. \A j \in 1 .. Len(memory') :
          memory'[j].code = 0 => \E i \in 1 .. Len(csv') : csv'[i] = memory'[j]
    <3>1. \A j \in 1 .. Len(memory) :
            memory[j].code = 0 => \E i \in 1 .. Len(csv') : csv'[i] = memory[j]
      BY <2>1, <2>2 DEF RowsInv
    <3> QED
      BY <1>2, <1>3, <2>1, <2>2, <3>1
  <2> QED
    BY <1>2, <1>5, <2>1, <2>3, <2>4, <2>5 DEF RowsInv, Position
<1>8. CASE (r.code # 0 \/ Failing') /\ csv' = csv
  <2>1. \A i \in 1 .. Len(csv) :
          \E j \in 1 .. Len(memory') : csv[i] = memory'[j] /\ memory'[j].code = 0
    BY <1>2, <1>4 DEF RowsInv
  <2>2. \A j \in 1 .. Len(memory') :
          memory'[j].code = 0 =>
            (\E i \in 1 .. Len(csv) : csv[i] = memory'[j]) \/ (j = Len(memory') /\ Failing')
    BY <1>2, <1>3, <1>8 DEF RowsInv
  <2>3. csv' \in Seq(Results)
    BY <1>8 DEF TypeOK
  <2> QED
    BY <1>2, <1>5, <1>8, <2>1, <2>2, <2>3 DEF RowsInv, Position
<1> QED
  BY <1>7, <1>8

\* The sample being evaluated, and where its next result goes.
LEMMA EvaluatedNext ==
  ASSUME IInv, NEW t \in P!Tasks, Evaluating(t)
  PROVE  /\ t = delivered + 1 /\ dispatched = delivered + 1 /\ ~ Failing
         /\ evaluated[t] \in Nat /\ evaluated[t] + 1 \in Backends
         /\ Len(memory) = delivered * NBackends + evaluated[t]
         /\ \A code \in {0, 1} : /\ Result(t, code) \in Results
                                /\ Result(t, code).code = code
                                /\ Position(Result(t, code)) = Len(memory) + 1
<1>1. status[t] = "executing" /\ executeOn /\ evaluated[t] < NBackends
  BY DEF Evaluating
<1>2. t = delivered + 1 /\ dispatched = delivered + 1 /\ delivered \in Nat /\ t \in Nat
  BY <1>1, Places DEF IInv
<1>3. ~ Failing
  BY <1>1, <1>2, NotFailing DEF IInv
<1>4. NBackends \in Nat \ {0}
  BY Jobs1
<1>5. evaluated[t] \in 0 .. NBackends
  BY DEF IInv, TypeOK
<1>6. evaluated[t] \in Nat /\ evaluated[t] + 1 \in Backends
  BY <1>1, <1>4, <1>5 DEF Backends
<1>7. Len(memory) = delivered * NBackends + evaluated[t]
  BY <1>1, <1>2, <1>3 DEF IInv, ResultsInv, MemoryLength
<1>8. ASSUME NEW code \in {0, 1}
      PROVE  /\ Result(t, code) \in Results
             /\ Result(t, code).code = code
             /\ Position(Result(t, code)) = Len(memory) + 1
  <2>1. /\ Result(t, code).task = t /\ Result(t, code).backend = evaluated[t] + 1
        /\ Result(t, code).code = code /\ Result(t, code) \in Results
    BY <1>6 DEF Result, Results
  <2>2. t - 1 = delivered
    BY <1>2
  <2>3. delivered * NBackends \in Nat
    BY <1>2, <1>4
  <2> QED
    BY <1>6, <1>7, <2>1, <2>2, <2>3 DEF Position
<1> QED
  BY <1>2, <1>3, <1>6, <1>7, <1>8

LEMMA EvaluateOneInv ==
  ASSUME IInv, NEW t \in P!Tasks, EvaluateOne(t)
  PROVE  TypeOK' /\ StageCounts' /\ LibsInv' /\ ResultsInv'
<1>0. Evaluating(t)
  BY DEF EvaluateOne
<1>1. /\ status[t] = "executing" /\ executeOn /\ evaluated[t] < NBackends
      /\ <<t, evaluated[t] + 1>> \in libs
      /\ libs' = IF saveTemps THEN libs ELSE libs \ {<<t, evaluated[t] + 1>>}
      /\ evaluated' = [evaluated EXCEPT ![t] = evaluated[t] + 1]
      /\ UNCHANGED <<config, pvars, compiled>>
  BY DEF EvaluateOne, Evaluating, Unlinked
<1>2. /\ t = delivered + 1 /\ dispatched = delivered + 1 /\ delivered \in Nat /\ ~ Failing
      /\ NBackends \in Nat \ {0}
      /\ evaluated[t] \in Nat /\ evaluated[t] + 1 \in Backends
      /\ Len(memory) = delivered * NBackends + evaluated[t]
  BY <1>0, EvaluatedNext, Places, Jobs1 DEF IInv
<1>3. evaluated' \in [P!Tasks -> 0 .. NBackends] /\ evaluated'[t] = evaluated[t] + 1
      /\ \A s \in P!Tasks : s # t => evaluated'[s] = evaluated[s]
  BY <1>1, <1>2 DEF IInv, TypeOK, Backends
<1>4. /\ memory' \in Seq(Results) /\ csv' \in Seq(Results) /\ Len(memory') = Len(memory) + 1
      /\ Ordered' /\ RowsInv'
  <2>1. PICK code \in {0, 1} :
          /\ memory' = Append(memory, Result(t, code))
          /\ csv' = IF code = 0 THEN Append(csv, Result(t, code)) ELSE csv
    BY DEF EvaluateOne
  <2>2. /\ Result(t, code) \in Results /\ Result(t, code).code = code
        /\ Position(Result(t, code)) = Len(memory) + 1
    BY <1>0, EvaluatedNext
  <2>3. TypeOK /\ Ordered /\ RowsInv
    BY DEF IInv, ResultsInv
  <2>4. \/ Result(t, code).code = 0 /\ csv' = Append(csv, Result(t, code))
        \/ (Result(t, code).code # 0 \/ Failing') /\ csv' = csv
    BY <2>1, <2>2
  <2> HIDE DEF Result
  <2> QED
    BY <1>2, <2>1, <2>2, <2>3, <2>4, ResultAdded
<1>5. TypeOK'
  BY <1>1, <1>3, <1>4 DEF IInv, TypeOK, config
<1>6. StageCounts'
  BY <1>1, <1>3 DEF IInv, StageCounts, config, pvars
<1>7. LibsInv'
  <2> SUFFICES ASSUME NEW s \in P!Tasks, NEW b \in Backends, <<s, b>> \in libs'
               PROVE  b <= compiled'[s] /\ (saveTemps' \/ evaluated'[s] < b)
    BY DEF LibsInv
  <2>1. <<s, b>> \in libs /\ (saveTemps \/ <<s, b>> # <<t, evaluated[t] + 1>>)
    BY <1>1
  <2>2. b <= compiled[s] /\ (saveTemps \/ evaluated[s] < b)
    BY <2>1 DEF IInv, LibsInv
  <2>3. compiled' = compiled /\ saveTemps' = saveTemps
    BY <1>1 DEF config
  <2>4. CASE s # t
    BY <1>3, <2>2, <2>3, <2>4
  <2>5. CASE s = t
    <3>1. saveTemps \/ b # evaluated[t] + 1
      BY <2>1, <2>5
    <3>2. b \in Int
      BY <1>2 DEF Backends
    <3> QED
      BY <1>2, <1>3, <2>2, <2>3, <2>5, <3>1, <3>2
  <2> QED
    BY <2>4, <2>5
<1>8. MemoryLength'
  <2>1. delivered' = delivered /\ dispatched' = dispatched
    BY <1>1 DEF pvars
  <2>2. delivered * NBackends \in Nat
    BY <1>2
  <2> QED
    BY <1>2, <1>3, <1>4, <2>1, <2>2 DEF MemoryLength
<1> QED
  BY <1>4, <1>5, <1>6, <1>7, <1>8 DEF ResultsInv

LEMMA CsvRaisesInv ==
  ASSUME IInv, NEW t \in P!Tasks, CsvRaises(t)
  PROVE  TypeOK' /\ StageCounts' /\ LibsInv' /\ ResultsInv'
<1>0. Evaluating(t)
  BY DEF CsvRaises
<1>1. /\ status[t] = "executing" /\ executeOn
      /\ status' = [status EXCEPT ![t] = "executeRaised"]
      /\ libs' \subseteq libs
      /\ memory' = Append(memory, Result(t, 0))
      /\ UNCHANGED <<config, delivered, dispatched, compiled, evaluated, csv>>
  BY DEF CsvRaises, Evaluating, Unlinked, P!ExecuteRaise, P!Advance, P!counters
<1>2. /\ t = delivered + 1 /\ dispatched = delivered + 1 /\ delivered \in Nat /\ ~ Failing
      /\ NBackends \in Nat \ {0} /\ evaluated[t] \in Nat
      /\ Len(memory) = delivered * NBackends + evaluated[t]
  BY <1>0, EvaluatedNext, Places, Jobs1 DEF IInv
<1>3. /\ status'[t] = "executeRaised"
      /\ \A s \in P!Tasks : s # t => status'[s] = status[s]
  BY <1>1 DEF IInv, P!IInv, P!TypeOK
<1>4. Failing'
  <2>1. P!Tasks' = P!Tasks
    BY DEF P!Tasks
  <2> QED
    BY <1>3, <2>1 DEF Failing
<1>5. /\ memory' \in Seq(Results) /\ csv' \in Seq(Results) /\ Len(memory') = Len(memory) + 1
      /\ Ordered' /\ RowsInv'
  <2>1. Result(t, 0) \in Results /\ Position(Result(t, 0)) = Len(memory) + 1
    BY <1>0, EvaluatedNext
  <2>2. TypeOK /\ Ordered /\ RowsInv
    BY DEF IInv, ResultsInv
  <2> HIDE DEF Result
  <2> QED
    BY <1>1, <1>2, <1>4, <2>1, <2>2, ResultAdded
<1>6. TypeOK'
  BY <1>1, <1>5 DEF IInv, TypeOK, config
<1>7. StageCounts'
  BY <1>1, <1>3 DEF IInv, StageCounts, config
<1>8. LibsInv'
  BY <1>1 DEF IInv, LibsInv, config
<1>9. MemoryLength'
  <2>1. delivered * NBackends \in Nat
    BY <1>2
  <2> QED
    BY <1>1, <1>2, <1>4, <1>5, <2>1 DEF MemoryLength
<1> QED
  BY <1>5, <1>6, <1>7, <1>8, <1>9 DEF ResultsInv

LEMMA NextInv == IInv /\ [Next]_vars => IInv'
<1> SUFFICES ASSUME IInv, [Next]_vars PROVE IInv'
  OBVIOUS
<1>1. P!IInv'
  BY PipelineInv DEF IInv
<1>2. OneAhead'
  BY OneAheadInv, StepsOfPipeline DEF IInv
<1>3. CASE Moves
  BY <1>3, <1>1, <1>2, MovesInv DEF IInv
<1>4. ASSUME NEW t \in P!Tasks, CompileOne(t) PROVE IInv'
  BY <1>4, <1>1, <1>2, CompileOneInv DEF IInv
<1>5. ASSUME NEW t \in P!Tasks, EvaluateOne(t) PROVE IInv'
  BY <1>5, <1>1, <1>2, EvaluateOneInv DEF IInv
<1>6. ASSUME NEW t \in P!Tasks, CsvRaises(t) PROVE IInv'
  BY <1>6, <1>1, <1>2, CsvRaisesInv DEF IInv
<1>7. CASE UNCHANGED vars
  <2>1. UNCHANGED <<config, pvars, files, records>>
    BY <1>7 DEF vars
  <2>2. TypeOK' /\ StageCounts' /\ LibsInv'
    BY <2>1 DEF IInv, TypeOK, StageCounts, LibsInv, config, pvars, files, records
  <2>3. ResultsInv'
    BY <2>1 DEF IInv, ResultsInv, MemoryLength, Ordered, RowsInv, Position, Failing, config, pvars,
                files, records
  <2> QED
    BY <1>1, <1>2, <2>2, <2>3 DEF IInv
<1> QED
  BY <1>3, <1>4, <1>5, <1>6, <1>7 DEF Next, Compile, Execute, Moves

\* Every reachable state satisfies the inductive invariant.
THEOREM Invariant == Spec => []IInv
  BY InitInv, NextInv, PTL DEF Spec

-----------------------------------------------------------------------------
(* What the exploration promises. *)

\* Result i is that of the i-th sample and backend, in whatever order the
\* compile workers finished: the record of a seeded search does not depend on it.
THEOREM RecordsInOrder == Spec => []RecordedInOrder
<1>1. IInv => RecordedInOrder
  <2> SUFFICES ASSUME IInv PROVE RecordedInOrder
    OBVIOUS
  <2>1. DOMAIN memory = 1 .. Len(memory)
    BY LenProperties DEF IInv, TypeOK
  <2> QED
    BY <2>1 DEF IInv, ResultsInv, Ordered, RecordedInOrder
<1> QED
  BY <1>1, Invariant, PTL

\* The file has a row for each result without error, once and in order, but for
\* a last one whose row could not be written and ended the run.
THEOREM RowsAreResults == Spec => []RowsAreTheGoodResults
<1>1. IInv => RowsAreTheGoodResults
  <2> SUFFICES ASSUME IInv PROVE RowsAreTheGoodResults
    OBVIOUS
  <2> DEFINE good == {r \in ToSet(memory) : r.code = 0}
  <2>1. DOMAIN memory = 1 .. Len(memory) /\ DOMAIN csv = 1 .. Len(csv)
    BY LenProperties DEF IInv, TypeOK
  <2>2. /\ ToSet(memory) = {memory[i] : i \in 1 .. Len(memory)}
        /\ ToSet(csv) = {csv[i] : i \in 1 .. Len(csv)}
    BY <2>1 DEF ToSet
  <2>3. RowsInv /\ Ordered
    BY DEF IInv, ResultsInv
  <2>4. ToSet(csv) \subseteq good
    BY <2>2, <2>3 DEF RowsInv
  <2>5. \A i, j \in DOMAIN csv : i < j => Position(csv[i]) < Position(csv[j])
    BY <2>1, <2>3 DEF RowsInv
  <2>6. ASSUME NEW r \in good \ ToSet(csv)
        PROVE  Position(r) = Len(memory) /\ Failing
    <3>1. PICK j \in 1 .. Len(memory) : r = memory[j] /\ memory[j].code = 0
      BY <2>2, <2>6
    <3>2. j = Len(memory) /\ Failing
      BY <2>2, <2>3, <2>6, <3>1 DEF RowsInv
    <3> QED
      BY <2>3, <3>1, <3>2 DEF Ordered
  <2> QED
    BY <2>4, <2>5, <2>6 DEF RowsAreTheGoodResults, Failing
<1> QED
  BY <1>1, Invariant, PTL

\* The libraries on disk are those of samples compiled and not yet delivered.
LEMMA LibsAhead ==
  ASSUME IInv, executeOn, ~ saveTemps
  PROVE  libs \subseteq (delivered + 1 .. submitted) \X Backends
<1> SUFFICES ASSUME NEW t \in P!Tasks, NEW b \in Backends, <<t, b>> \in libs
             PROVE  t \in delivered + 1 .. submitted
  BY DEF IInv, TypeOK
<1>1. /\ t \in Nat /\ delivered \in Nat /\ submitted \in Nat
      /\ t <= delivered => status[t] = "executed"
      /\ submitted < t => status[t] = "new"
  BY Places DEF IInv
<1>2. b <= compiled[t] /\ evaluated[t] < b /\ b \in 1 .. NBackends /\ NBackends \in Nat
  BY Jobs1 DEF IInv, LibsInv, Backends
<1>3. status[t] # "executed"
  <2>1. status[t] = "executed" => evaluated[t] = NBackends
    BY DEF IInv, StageCounts
  <2> QED
    BY <1>2, <2>1
<1>4. status[t] # "new"
  <2>1. status[t] = "new" => compiled[t] = 0
    BY DEF IInv, StageCounts
  <2> QED
    BY <1>2, <2>1
<1> QED
  BY <1>1, <1>3, <1>4

LEMMA TimesMonotone ==
  ASSUME NEW a \in Nat, NEW b \in Nat, NEW n \in Nat, a <= b
  PROVE  a * n \in Nat /\ b * n \in Nat /\ a * n <= b * n
<1>1. b * n = a * n + (b - a) * n
  OBVIOUS
<1>2. (b - a) * n \in Nat /\ a * n \in Nat /\ b * n \in Nat
  OBVIOUS
<1> QED
  BY <1>1, <1>2

\* Never more than jobs samples have libraries on disk, and a run that ended
\* left none of them.
THEOREM DiskIsBounded == Spec => []LibrariesAreBounded
<1>1. IInv => LibrariesAreBounded
  <2> SUFFICES ASSUME IInv, executeOn, ~ saveTemps
               PROVE  /\ Cardinality(libs) <= NBackends * P!CompileJobs
                      /\ pc = "done" => libs = {}
    BY DEF LibrariesAreBounded
  <2> DEFINE ahead == delivered + 1 .. submitted
  <2>1. libs \subseteq ahead \X Backends
    BY LibsAhead
  <2>2. /\ delivered \in Nat /\ submitted \in Nat /\ delivered <= submitted
        /\ submitted - delivered <= P!CompileJobs /\ P!CompileJobs \in Nat /\ NBackends \in Nat
    BY Jobs1, ExplorationAssumption DEF IInv, P!IInv, P!TypeOK, P!Positions, OneAhead
  <2>3. IsFiniteSet(ahead) /\ Cardinality(ahead) = submitted - delivered
    <3>1. delivered + 1 \in Int /\ submitted \in Int
      BY <2>2
    <3>2. /\ IsFiniteSet(ahead)
          /\ Cardinality(ahead) =
               IF delivered + 1 > submitted THEN 0 ELSE submitted - (delivered + 1) + 1
      BY <3>1, FS_Interval
    <3> QED
      BY <2>2, <3>2
  <2>4. IsFiniteSet(Backends) /\ Cardinality(Backends) = NBackends
    BY <2>2, FS_Interval DEF Backends
  <2> HIDE DEF ahead
  <2>5. /\ IsFiniteSet(ahead \X Backends)
        /\ Cardinality(ahead \X Backends) = (submitted - delivered) * NBackends
    BY <2>3, <2>4, FS_Product
  <2>6. Cardinality(libs) \in Nat /\ Cardinality(libs) <= (submitted - delivered) * NBackends
    <3>1. IsFiniteSet(libs) /\ Cardinality(libs) <= Cardinality(ahead \X Backends)
      BY <2>1, <2>5, FS_Subset
    <3> QED
      BY <2>5, <3>1, FS_CardinalityType
  <2>7. /\ (submitted - delivered) * NBackends \in Nat
        /\ P!CompileJobs * NBackends \in Nat
        /\ (submitted - delivered) * NBackends <= P!CompileJobs * NBackends
    BY <2>2, TimesMonotone
  <2>8. P!CompileJobs * NBackends = NBackends * P!CompileJobs
    BY <2>2
  <2>9. ASSUME pc = "done" PROVE libs = {}
    <3>1. delivered = submitted
      BY <2>9, <2>2, ExplorationAssumption DEF IInv, P!IInv, P!TypeOK, P!Positions
    <3>2. ahead = {}
      BY <2>2, <3>1 DEF ahead
    <3> QED
      BY <2>1, <3>2
  <2> QED
    BY <2>6, <2>7, <2>8, <2>9
<1> QED
  BY <1>1, Invariant, PTL

\* Seen through its task states every step of the exploration is a step of the
\* pipeline: what its theorems say of the batches and of failures holds here.
THEOREM RefinesPipeline == Spec => P!Init /\ [][P!Next]_(P!vars)
<1>1. Init => P!Init
  BY DEF Init
<1>2. [Next]_vars => [P!Next]_(P!vars)
  BY StepsOfPipeline
<1> QED
  BY <1>1, <1>2, PTL DEF Spec

\* A sample is measured alone: no compilation runs, and no other sample executes.
THEOREM MeasuredAlone ==
  Spec => [](\A s, t \in P!Tasks :
               status[t] = "executing" =>
                 /\ status[s] \notin {"compileQueued", "compiling"}
                 /\ status[s] = "executing" => s = t)
<1>1. IInv => \A s, t \in P!Tasks :
                status[t] = "executing" =>
                  /\ status[s] \notin {"compileQueued", "compiling"}
                  /\ status[s] = "executing" => s = t
  <2> SUFFICES ASSUME IInv, NEW s \in P!Tasks, NEW t \in P!Tasks, status[t] = "executing"
               PROVE  /\ status[s] \notin {"compileQueued", "compiling"}
                      /\ status[s] = "executing" => s = t
    OBVIOUS
  <2>1. status[s] \notin {"compileQueued", "compiling"}
    BY DEF IInv, P!IInv, P!LiveTasks, P!CompileLive, P!ExecuteLive
  <2>2. status[s] = "executing" => s = delivered + 1 /\ t = delivered + 1
    BY Places DEF IInv
  <2> QED
    BY <2>1, <2>2
<1> QED
  BY <1>1, Invariant, PTL
=============================================================================
