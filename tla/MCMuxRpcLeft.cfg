CONSTANTS
  Requests = {r1, r2, r3}
  Impatient = {r1}
  Reconnectable = TRUE
  Cap = 2
  MaxPushes = 1
  MaxLosses = 2
SPECIFICATION Spec
INVARIANT NobodyIsLeftBehind
CHECK_DEADLOCK FALSE
