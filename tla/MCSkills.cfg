SPECIFICATION Spec
CONSTANTS
  Caller = {c1, c2}
  Candidates <- SomeTools
  Calls <- AllCalls
  Scenarios <- SomeScenarios
  ToolLimits <- CallLimits
  Owner = 7
  ApprovalTTL = 1
  MaxTime = 0
  MaxRequests = 2
  MaxCalls = 6
  MaxSessions = 5
SYMMETRY CallerSymmetry
INVARIANTS
  SkillsStayInScope
  OneApprovalPerExecution
  NoSessionLost
  FailureHasACause
  ExecutionsAreCovered
CHECK_DEADLOCK FALSE
