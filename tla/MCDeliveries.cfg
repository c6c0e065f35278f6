SPECIFICATION FairSpec
CONSTANTS
  Names = {hkl, ctx}
  Hkl = hkl
  Ctx = ctx
  Edits = {edit}
  MaxTxn = 3
  MaxRev = 0
  MaxStoreFaults = 1
  MaxStoreEdits = 1
  DeliveredNodes = {n1, n2}
  MaxWrites = 2
  MaxChecks = 2
  MaxDeaths = 1
  Blocks = 2
  Pause = 1
  Stable = 2
  Timeout = 4
  Viewers = {"v1", "v2"}
  MaxBuilder = 2
  MaxUpsets = 2
  Bytes = {"x", "y"}
  KeepRecent = 1
  MaxJobs = 2
  MaxRevisions = 2
  MaxTouches = 1
  None = None
INVARIANTS
  TypeOK
  WorkingDataIsActive
  
  

  
CHECK_DEADLOCK FALSE
