\* One or two calls on up to two tensors, each graph loaded once.
SPECIFICATION Spec
CONSTANTS
  Threads = {"a", "b"}
  Programs <- MCPrograms
  MaxLoads = 1
INVARIANTS GraphIsWhole LoadedIsTheSame BackendsComputeTheSame
CHECK_DEADLOCK FALSE
