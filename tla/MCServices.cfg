SPECIFICATION FairSpec
CONSTANTS
  Openers = {"o1", "o2"}
  Senders = {"s1"}
  MaxSessions = 3
  MaxFailedOpens = 1
  Requests = {"r1"}
  Browsers = {"b1", "b2"}
  Keys = {"k1"}
  Calls = {"c1", "c2"}
  Budgets = {1}
  QueueMax = 3
  QueueGrace = 1
  OrphanPoll = 1
  OrphanGrace = 2
  Writers = {"w1", "w2"}
  BufLen = 1
  Window = 2
  MaxEvents = 3
  MaxGens = 2
  MaxFailedWrites = 1
  MaxDrops = 1
  Handlers = {"q1"}
  Threads = {"t1"}
  Workers = {"w1"}
  Flags = {"f1", "f2"}
  MaxEngines = 2
  MaxTexts = 2
  MaxFaults = 1
  AllowConcurrent = FALSE
  MaxRenames = 2
  MaxRebuilds = 1
  None = None
INVARIANTS
  TypeOK
  
  HumansDecide
  
PROPERTIES
  NobodyWaitsForever
  DeferredRestartIsServed
  
CHECK_DEADLOCK FALSE
