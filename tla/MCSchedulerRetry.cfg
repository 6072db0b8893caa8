SPECIFICATION Spec
CONSTANTS
  JobInputs <- RetriedJob
  JobId = {1}
  Worker = {w1, w2}
  TicksPerSecond = 2
  MaxBackoff = 4
  LockTTL = 1
  HaveVerifier = TRUE
  Prompt = FALSE
  HonestCancel = FALSE
  MaxTime = 5
  MaxRestarts = 1
  MaxCalls = 1
SYMMETRY WorkerSymmetry
INVARIANTS
  TypeOK
  OneRunningPerJob
  AttemptsWithinBudget
PROPERTIES
  TerminalIsFinal
  NoStartAfterCancel
