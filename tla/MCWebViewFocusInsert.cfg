SPECIFICATION Spec
CONSTANTS
  Views = {v1}
  Habits = {"edit", "away"}
INVARIANT InsertModeHasTheField
CHECK_DEADLOCK FALSE
