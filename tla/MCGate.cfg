SPECIFICATION FairSpec
CONSTANTS
  Keys = {"app"}
  Deps = {"db", "creds"}
  ConditionTypes = {"Ready"}
  Setups <- MCSetups
  Failures <- MCFailures
  DefaultRetry = 1
  RateLimit = 1
  MaxAge = 3
  AgeCap = 4
  MaxEvents = 3
INVARIANTS TypeOK Tracked
PROPERTIES WaitedOut BackoffKept StopsOnPurpose Opens
