SPECIFICATION Spec
CONSTANTS
  Origin <- MixedOrigin
  MaxUpdates = 3
  BatchLimit = 2
  MaxAttempts = 2
  MaxTime = 2
  MaxRestarts = 1
  MaxFaults = 1
  TicksPerSecond = 1
  MaxBackoff = 4
INVARIANTS
  TypeOK
  ReplyIffCompleted
  SentWasDelivered
  AttemptsBounded
  NothingForgotten
  ClaimedRowsAreHeld
PROPERTIES
  ImplementsDelivery
