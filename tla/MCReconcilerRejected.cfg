SPECIFICATION Spec
CONSTANTS
  Windows = {}
  Pausing = FALSE
  BornWithFin = {FALSE}
  BornHeld = {FALSE}
  MaxUid = 1
  MaxGen = 1
  MaxEdits = 0
  Finalizing = TRUE
  PauseEnabled = TRUE
  Tracking = TRUE
  MaxAttempts = 1
  MaxFaults = 1
CHECK_DEADLOCK FALSE
PROPERTIES RejectedIsFinal
