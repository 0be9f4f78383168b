SPECIFICATION FairSpec
CONSTANTS
  Callers = {"c1", "c2", "c3", "c4"}
  FailureThreshold = 3
  SuccessThreshold = 3
  MaxHalfOpenRequests = 2
  MaxPanics = 2
INVARIANTS TypeOK ThresholdsAct SlotsAccounted NeverWedged
PROPERTIES TestConcludes
