SPECIFICATION Spec
CONSTANTS
  Calls = {c1, c2, c3}
  Budgets = {1}
  QueueMax = 3
  QueueGrace = 1
  OrphanPoll = 1
  OrphanGrace = 2
  None = None
PROPERTIES GivesUpOnlyLate
CHECK_DEADLOCK FALSE
