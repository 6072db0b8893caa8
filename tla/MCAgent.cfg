SPECIFICATION Spec
CONSTANTS
  Caller = {c1, c2}
  Candidates <- SomeTools
  Calls <- SomeCalls
  ToolLimits <- RequestLimits
  Limits <- RequestLimits
  Scenarios <- SomeScenarios
  Answers = {3, 10}
  Owner = 7
  InputPrice = 1
  OutputPrice = 2
  Window = 2
  MaxLine = 9
  ApprovalTTL = 1
  MaxTime = 2
  MaxRequests = 1
  MaxCalls = 3
  MaxAttempts = 2
SYMMETRY CallerSymmetry
INVARIANTS
  UsedInTime
  AuditIsTamperEvident
  RunsWereApproved
  HistoryIsKept
  AnswersWithinBudget
  RememberedIsFound
PROPERTIES
  DecisionIsFinal
CHECK_DEADLOCK FALSE
