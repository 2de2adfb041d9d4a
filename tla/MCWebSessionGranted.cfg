SPECIFICATION SessionSpec
CONSTANTS
  c1 = c1
  c2 = c2
  v1 = v1
  v2 = v2
  Panes = {p1}
  WebViews = {v1}
  Conns = {c1}
  Requests <- OpenRequests
  ExitCodes = {0, 300}
  Messages = {"m", "n"}
  MaxRequests = 1
  MaxLines = 3
INVARIANT GrantedDoesNotFail
CHECK_DEADLOCK FALSE
