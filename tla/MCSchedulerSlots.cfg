SPECIFICATION Spec
CONSTANTS
  JobInputs <- MixedJobs
  JobId = {1, 2}
  Worker = {w1}
  TicksPerSecond = 2
  MaxBackoff = 4
  LockTTL = 1
  HaveVerifier = FALSE
  Prompt = FALSE
  HonestCancel = TRUE
  MaxTime = 4
  MaxRestarts = 0
  MaxCalls = 1
INVARIANTS
  OneRunPerSlot
PROPERTIES
  NoSlotLost
