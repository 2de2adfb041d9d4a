SPECIFICATION Spec
CONSTANTS
  Conns = {c1, c2}
  Backlog = 2
INVARIANTS TypeOK NoZombie DisconnectIsNeverLost
PROPERTIES OnlyGoneDeregistered GoneIsForgotten
CHECK_DEADLOCK FALSE
