SPECIFICATION Spec
CONSTANTS
  w1 = w1
  Workers = {w1}
  Machines <- MCMachines
  Phases <- MCPhases
  LateCalls <- MCLateCalls
  ConditionTypes = {"Ready", "Available"}
  Required = {"Available"}
  MaxHistory = 2
  MaxLate = 2
INVARIANTS TypeOK ReadyFollowsPhase AnswersAgree
PROPERTIES AlongRules HistoryTells
