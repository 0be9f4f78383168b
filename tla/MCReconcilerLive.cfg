SPECIFICATION FairSpec
CONSTANTS
  w1 = w1
  Windows = {w1}
  Pausing = TRUE
  BornWithFin = {FALSE}
  BornHeld = {FALSE}
  MaxUid = 1
  MaxGen = 2
  MaxEdits = 2
  Finalizing = TRUE
  PauseEnabled = TRUE
  Tracking = TRUE
  MaxAttempts = 1
  MaxFaults = 1
CHECK_DEADLOCK FALSE
INVARIANTS AutoResumeScheduled
PROPERTIES DeletionCompletes Converges
