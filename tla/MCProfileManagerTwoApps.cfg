SPECIFICATION GoodSpec
CONSTANTS
  Apps = {"a1", "a2"}
  Callers = {"a1", "a2"}
  AppOf <- OwnApp
  Names = {"g", "h"}
  Texts = {"t", "u"}
  Requests <- TwoNames
PROPERTIES NoRaces
CHECK_DEADLOCK FALSE
