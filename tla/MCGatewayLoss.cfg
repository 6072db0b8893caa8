SPECIFICATION Spec
CONSTANTS
  Origin <- OneOwner
  MaxUpdates = 1
  BatchLimit = 2
  MaxAttempts = 2
  MaxTime = 3
  MaxRestarts = 0
  MaxFaults = 1
  TicksPerSecond = 1
  MaxBackoff = 4
INVARIANTS
  AtLeastOnce
