SPECIFICATION Spec
CONSTANTS
  Panes = {p1}
  WebViews = {v1}
  Conns = {c1, c2}
  Requests <- CloseRequests
  ExitCodes = {0}
  Messages = {"m"}
  MaxRequests = 1
  MaxLines = 0
PROPERTY EveryRequestAnswered
CHECK_DEADLOCK FALSE
