SPECIFICATION Spec
CONSTANTS
  NumWorkers = 3
  NumTasks = 3
  MaxFailures = 0
INVARIANT OneWorkerPerTask
CHECK_DEADLOCK FALSE
