SPECIFICATION Spec
CONSTANTS
  TotalVMs = 4
  WorldSize = 2
  BatchSize = 2
  MaxTurns = 2
  ForeignIds = {1, 2}
  NoVM = NoVM
INVARIANTS
  ExclusiveVM
CHECK_DEADLOCK FALSE
