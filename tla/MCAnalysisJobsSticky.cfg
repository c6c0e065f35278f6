SPECIFICATION Spec
CONSTANTS
  Keys = {k1}
  Observers = {o1, o2}
  NStages = 1
  MaxFinished = 1
  MaxPending = 1
  MaxObservers = 2
  MaxJobs = 1
  None = None
INVARIANTS
  CancelledWorkIsNotSticky
CHECK_DEADLOCK FALSE
