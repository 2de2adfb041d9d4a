SPECIFICATION Spec
CONSTANTS
  Panes = {p1, p2}
  WebViews = {v1, v2}
  Conns = {c1, c2}
  Requests <- OpenRequests
  ExitCodes = {0}
  Messages = {"m"}
  MaxRequests = 1
  MaxLines = 0
PROPERTIES ClosedLeaves EveryRequestAnswered
CHECK_DEADLOCK FALSE
