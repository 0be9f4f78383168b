SPECIFICATION Spec
CONSTANTS
  Windows = {}
  Pausing = TRUE
  BornWithFin = {FALSE}
  BornHeld = {TRUE, FALSE}
  MaxUid = 2
  MaxGen = 2
  MaxEdits = 2
  Finalizing = TRUE
  PauseEnabled = TRUE
  Tracking = TRUE
  MaxAttempts = 1
  MaxFaults = 2
CHECK_DEADLOCK FALSE
INVARIANTS TypeOK NoLeak NoSyncAfterFinalize ObservedIsSynced NoLostWork
PROPERTIES ObservedNeverDecreases ImplementsContract
