SPECIFICATION Spec
CONSTANTS
  Panes = {p1}
  WebViews = {v1, v2, v3}
  Conns = {c1, c2, c3}
  Requests <- AllRequests
  ExitCodes = {0}
  Messages = {"m"}
  MaxRequests = 1
  MaxLines = 2
SYMMETRY Symmetry
INVARIANTS TypeOK NoSilentDrop NothingAfterClosed TableIntegrity StackMatchesViews LabelsSettle
CHECK_DEADLOCK FALSE
