SPECIFICATION FairSpec
CONSTANTS
  Names = {hkl, ctx}
  Hkl = hkl
  Ctx = ctx
  Edits = {edit}
  None = None
  MaxTxn = 2
  MaxRev = 1
  MaxFaults = 2
  MaxEdits = 1
INVARIANTS
  TypeOK
  DiskMatchesState
PROPERTIES
  AliasesFollowCommit
  ImplementsHistory
  RecoveryCompletes
