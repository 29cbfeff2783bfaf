SPECIFICATION Spec
CONSTANTS
  t1 = t1
  t2 = t2
  t3 = t3
  a1 = a1
  a2 = a2
  a3 = a3
  Tasks <- MCTasks
  Apis <- MCApis
  Matches <- MCMatches
  Expected <- MCExpected
  MaxQueries = 2
  MaxRunning = 2
  None = None
  Pending = Pending
  MaxBreaks = 1
INVARIANT OwnMatchesOnly
CHECK_DEADLOCK FALSE
