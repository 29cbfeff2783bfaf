SPECIFICATION FairSpec
CONSTANTS
  NumWorkers = 2
  NumTasks = 5
  MaxFailures = 2
INVARIANTS
  SameListNoOverlap
  NothingOverlooked
  LaunchComplete
PROPERTY AllScored
\* The benchmark is over when every task has a result.
CHECK_DEADLOCK FALSE
