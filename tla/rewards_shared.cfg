SPECIFICATION Spec
CONSTANTS
  d1 = d1
  d2 = d2
  d3 = d3
  bracket = bracket
  gear = gear
  Dialogues <- MCDialogues
  Tasks <- MCTasks
  TaskOf <- MCTaskOf
  Reused <- MCReused
  Slow <- MCSlow
  Copied <- MCCopied
  NoFile = NoFile
  OldModel = OldModel
  Emptied = Emptied
  Mixed = Mixed
  NoModel = NoModel
  Failed = Failed
INVARIANT OwnModelScored
CHECK_DEADLOCK FALSE
