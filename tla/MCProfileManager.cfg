SPECIFICATION Spec
CONSTANTS
  Apps = {"app"}
  Callers = {"cli", "main"}
  AppOf <- OnlyApp
  Names = {"g", "h"}
  Texts = {"t", "u"}
  Requests <- TwoNames
INVARIANTS TypeOK Durable
PROPERTIES KeepsBookmarks
CHECK_DEADLOCK FALSE
