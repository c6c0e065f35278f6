SPECIFICATION Spec
CONSTANTS
  Procs = {p1, p2}
  Kinds = {"derived", "model", "reference", "metadata", "compound"}
  None = None
  MaxNode = 2
  MaxRev = 4
  MaxInputs = 1
  MaxFaults = 1
INVARIANTS
  TypeOK
  RevisionIdentifies
  
  InputsFollowCommits
  SessionsFollowTheStore
SYMMETRY Symmetry
CONSTRAINT Focus
CHECK_DEADLOCK FALSE
