SPECIFICATION Spec
CONSTANTS
  Procs = {p1}
  Kinds = {"model", "compound"}
  None = None
  MaxNode = 2
  MaxRev = 5
  MaxInputs = 1
  MaxFaults = 0
INVARIANTS
  BaselineIsCheckedOut
CHECK_DEADLOCK FALSE
