SPECIFICATION FairSpec
CONSTANTS
  Requests = {r1, r2, r3}
  Impatient = {r1}
  Reconnectable = TRUE
  Cap = 1
  MaxPushes = 2
  MaxLosses = 2
INVARIANTS TypeOK AnswersGoHome
PROPERTIES EveryRequestSettles
CHECK_DEADLOCK FALSE
