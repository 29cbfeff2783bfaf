SPECIFICATION FairSpec
CONSTANTS
  TotalVMs = 3
  WorldSize = 2
  BatchSize = 2
  MaxTurns = 2
  ForeignIds = {}
  NoVM = NoVM
PROPERTIES
  DialoguesFinish
CHECK_DEADLOCK FALSE
