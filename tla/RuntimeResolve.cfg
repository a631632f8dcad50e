\* Three threads on two runtime types, with and without failures.
SPECIFICATION Spec
CONSTANTS
  Threads = {t1, t2, t3}
  Types = {HOST, GPU}
  NoThread = NoThread
  Raised = Raised
INVARIANTS BuiltOnce ReturnsTheTable
PROPERTIES CallsReturn
