SPECIFICATION Spec
CONSTANTS
  Callers = {"c1", "c2"}
  FailureThreshold = 2
  SuccessThreshold = 2
  MaxHalfOpenRequests = 1
  MaxPanics = 0
INVARIANTS HalfOpenLimit
