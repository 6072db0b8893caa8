SPECIFICATION FairSpec
CONSTANTS
  Origin <- HiddenFirst
  MaxUpdates = 3
  BatchLimit = 2
  MaxAttempts = 2
  MaxTime = 2
  MaxRestarts = 1
  MaxFaults = 0
  TicksPerSecond = 1
  MaxBackoff = 4
PROPERTIES
  MessagesSettle
  OwnerIsHeard
