SPECIFICATION FairSpec
CONSTANTS
  p1 = p1
  p2 = p2
  t1 = t1
  t2 = t2
  t3 = t3
  None = None
  Procs <- MCProcs
  Threads <- MCThreads
  ProcOf <- MCProcOf
  Events = {e1}
  MaxDepth = 2
INVARIANTS
  TypeOK
  MutualExclusion
  CancelEventIsTheHolders
  LockIsNotStranded
PROPERTIES
  ImplementsSection
  WaitEnds
CHECK_DEADLOCK FALSE
