SPECIFICATION Spec
CONSTANTS
  Views = {v1}
  Habits = {"edit"}
INVARIANT BarKnowsItsMode
CHECK_DEADLOCK FALSE
