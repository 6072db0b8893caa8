SPECIFICATION Spec
CONSTANTS
  TicksPerSecond = 2
  MaxBackoff = 4
  Worker = {w1, w2}
  Contents <- SomeContents
  Owner = 7
  ApprovalTTL = 3
  StageTTL = 3
  Margin = 2
  MaxAttempts = 2
  MaxPolls = 2
  MaxMedia = 2
  MaxFaults = 1
  MaxTime = 3
  MaxRequests = 1
SYMMETRY WorkerSymmetry
INVARIANTS
  OneApprovedPost
  OnePublisherUnlessRecovered
  MediaInUseIsKept
PROPERTIES
  PublishedIsFinal
CHECK_DEADLOCK FALSE
