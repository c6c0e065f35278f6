SPECIFICATION FairSpec
CONSTANTS
  Keys = {k1, k2}
  Observers = {o1, o2}
  NStages = 2
  MaxFinished = 1
  MaxPending = 2
  MaxObservers = 2
  MaxJobs = 2
  None = None
INVARIANTS
  TypeOK
  SingleFlight
  NothingStranded
  ObserversKeepTheirWork
PROPERTIES
  RevisionNamesProduct
  EveryJobEnds
CHECK_DEADLOCK FALSE
