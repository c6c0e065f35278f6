SPECIFICATION Spec
CONSTANTS
  Requests = {r1, r2}
  Threads = {t1, t2}
  Workers = {w1}
  Flags = {f1, f2}
  MaxEngines = 2
  MaxTexts = 2
  MaxFaults = 1
  AllowConcurrent = FALSE
  None = None
SYMMETRY Symmetry
INVARIANTS
  TypeOK
  TurnsExclude
  RestEngineIsLive
CHECK_DEADLOCK FALSE
