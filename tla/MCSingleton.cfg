SPECIFICATION Spec
CONSTANTS
  Process = {p1, p2}
  MaxStarts = 3
INVARIANT
  OneHolder
CHECK_DEADLOCK FALSE
