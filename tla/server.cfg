SPECIFICATION Spec
CONSTANTS
  NumWorkers = 2
  NumParts = 2
  Placeholder = Placeholder
  None = None
  Flaky = {2}
  Size <- MCSize
  EvalBatches = 2
  MaxGenerations = 3
  MaxEvals = 2
  MaxSteps = 1
INVARIANTS
  OutputsInOrder
  OneModelPerBatch
  OneBehind
PROPERTIES
  GoesOn
  ImplementsGenerator
CHECK_DEADLOCK FALSE
