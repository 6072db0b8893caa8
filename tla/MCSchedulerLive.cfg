SPECIFICATION FairSpec
CONSTANTS
  JobInputs <- CompetingJobs
  JobId = {1, 2}
  Worker = {w1}
  TicksPerSecond = 2
  MaxBackoff = 4
  LockTTL = 1
  HaveVerifier = FALSE
  Prompt = FALSE
  HonestCancel = TRUE
  MaxTime = 5
  MaxRestarts = 1
  MaxCalls = 0
PROPERTIES
  LocksAreReleased
  DueSlotsAreTaken
