SPECIFICATION Spec
CONSTANTS
  Requests = {r1,r2}
  Threads = {t1, t2}
  Workers = {w1}
  Flags = {f1}
  MaxEngines = 3
  MaxTexts = 1
  MaxFaults = 0
  AllowConcurrent = FALSE
  None = None
PROPERTY EngineOutlivesTurn
CHECK_DEADLOCK FALSE
SYMMETRY Symmetry
