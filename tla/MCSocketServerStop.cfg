SPECIFICATION Spec
CONSTANTS
  Conns = {c1, c2}
  Backlog = 2
PROPERTY StopRemovesFile
CHECK_DEADLOCK FALSE
