SPECIFICATION GoodSpec
CONSTANTS
  Apps = {"app"}
  Callers = {"cli", "main"}
  AppOf <- OnlyApp
  Names = {"g", "h"}
  Texts = {"t", "u"}
  Requests <- TwoNames
PROPERTIES EnsuredExists
CHECK_DEADLOCK FALSE
