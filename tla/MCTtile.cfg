SPECIFICATION Spec
CHECK_DEADLOCK FALSE
CONSTANTS
  None = None
  VecRegs <- McVecRegs
  VecSize = 2
  UnrollMax = 3
  Perfs <- McPerfs
  Computations <- McComputations
  MaxRuns = 3
  Requests <- McRequests
  WrittenAtoms <- McWrittenAtoms
  MaxAtoms = 5
  Strides <- McStrides
  Shipped <- McShipped
  Caches <- McCaches
  LineSize = 2
  NumSets = 3
  Ways <- McWays
  Beginnings <- McBeginnings
INVARIANTS
  LoadedIsTheSpace DrawnAsAsked FootprintsAreExact MissesShrink DescribedAsTiled
