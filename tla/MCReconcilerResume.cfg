SPECIFICATION Spec
CONSTANTS
  Windows = {}
  Pausing = TRUE
  BornWithFin = {FALSE}
  BornHeld = {FALSE}
  MaxUid = 1
  MaxGen = 1
  MaxEdits = 2
  Finalizing = TRUE
  PauseEnabled = TRUE
  Tracking = TRUE
  MaxAttempts = 1
  MaxFaults = 0
CHECK_DEADLOCK FALSE
INVARIANTS PausedConditionCleared
