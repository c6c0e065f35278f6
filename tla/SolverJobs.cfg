SPECIFICATION FairSpec
CONSTANTS
  Servers = {s1, s2}
  Home = s1
  MaxCrashes = 1
  MaxReopens = 1
  None = None
INVARIANTS TypeOK 
 
CHECK_DEADLOCK FALSE
