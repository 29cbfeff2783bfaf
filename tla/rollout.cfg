SPECIFICATION FairSpec
CONSTANTS
  TotalVMs = 4
  WorldSize = 2
  BatchSize = 2
  MaxTurns = 3
  ForeignIds = {}
  NoVM = NoVM
INVARIANTS
  TypeOK
  ExclusiveVM
  NoVMLost
  SealFindsLease
  NeverStarved
PROPERTIES
  DialoguesFinish
  VMsComeBack
  ImplementsLease
