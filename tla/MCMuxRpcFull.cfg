CONSTANTS
  Requests = {r1, r2, r3}
  Impatient = {r1}
  Reconnectable = TRUE
  Cap = 1
  MaxPushes = 2
  MaxLosses = 0
SPECIFICATION Spec
INVARIANT NeverJams
CHECK_DEADLOCK FALSE
