SPECIFICATION GuardSpec
CONSTANTS
  TicksPerSecond = 5
  MaxBackoff = 50
  TicksPerMinute = 5
  PerMinute = 3
  Burst = 2
  Horizon = 14
  Intervals = {1, 3, 7}
INVARIANTS
  TextOrderWithinASecond
  NextRecurringIsNextSlot
  BackoffDoublesUpToCap
  RateBound
  PatienceIsRewarded
