SPECIFICATION TaskSpec
CONSTANTS
  w1 = w1
  w2 = w2
  Runners <- MCRunners
  Me = w1
  MaxSteps = 3
  MaxRuns = 2
  MaxTorn = 1
  Lengths <- MCLengths
INVARIANTS
  TaskTypeOK
  CountedIsOneRun
  CountedIsFinal
  StepsTotal
  LatestAloneCounted
  HistoriesAgree
  PromptIsStory
\* A task that has its result is not listed again.
CHECK_DEADLOCK FALSE
