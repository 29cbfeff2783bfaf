SPECIFICATION ScoresSpec
CONSTANTS
  d1 = d1
  d2 = d2
  d3 = d3
  bracket = bracket
  gear = gear
  p1 = p1
  p2 = p2
  Dialogues <- MCDialogues
  Tasks <- MCTasks
  TaskOf <- MCTaskOf
  Reused <- MCReused
  Slow <- MCSlow
  Copied <- MCCopied
  Procs <- MCProcs
  ProcOf <- MCProcOf
  Faithful <- MCFaithful
  Low = 1
  High = 3
  Distances <- MCDistances
  NoFile = NoFile
  OldModel = OldModel
  Emptied = Emptied
  Mixed = Mixed
  NoModel = NoModel
  Failed = Failed
INVARIANTS
  ScoresTypeOK
  OwnTaskScored
  OldOnlyFromMachine
  AloneOwnScored
  ExactRewardedAlone
  CloserNeverWorse
\* When every dialogue has its reward the generation step is over.
CHECK_DEADLOCK FALSE
