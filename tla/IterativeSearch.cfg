\* No execution, one or two backends, with failures.  The first fit falls inside a
\* batch, the last batch is short, the forest may lack candidates.
SPECIFICATION Spec
CONSTANTS
  Samples = {x1, x2}
  Fewest = 1
  Peaks = {1, 2}
  Trials = 5
  BatchSize = 2
  ReqUpdateFirst = 3
  ReqUpdatePeriod = 0
  ResultCounts = {0, 1, 2}
  MayFail = TRUE
INVARIANTS BestWasMeasured ModelIsFresh
PROPERTIES Termination
