\* Two outer batches of the loop-explore pipeline (jobs compile workers, one execution at a time), two backends.
SPECIFICATION Spec
CONSTANTS
  NTasks = 3
  NBackends = 2
  Jobs = 2
  CpuCount = 4
INVARIANTS RecordedInOrder RowsAreTheGoodResults LibrariesAreBounded
PROPERTIES ImplementsPipeline
