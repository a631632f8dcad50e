\* Three evaluations in a process; rounds of one or two calls, doubled up to four.
SPECIFICATION Spec
CONSTANTS
  Requests <- McRequests
  Asked <- McAsked
  Paces = {0, 2}
  MaxInt = 7
  MaxRanges = 5
  MaxKernels = 2
  MaxEvaluations = 3
  MaxArrays = 6
  MaxSessions = 2
INVARIANTS ReturnsWhatItTook UsedWhileAlive OutputsAreThePayloads ResultsArePerCall
CHECK_DEADLOCK FALSE
