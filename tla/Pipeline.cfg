\* Three compile and two execute workers, neither dividing the other: an execute
\* batch takes part of a compile batch.  Three outer batches, the last one short.
\* CpuCount gives compile_jobs = 3.
SPECIFICATION Spec
CONSTANTS
  NTasks = 7
  ReqCompileJobs = 0
  ReqExecuteJobs = 2
  CpuCount = 6
INVARIANTS NoCompileWhileExecuting BoundedPrefetch FailureIsPrompt
PROPERTY ImplementsSequentialRun
