SPECIFICATION Spec
CONSTANTS
  Views = {v1, v2}
  Habits = {}
PROPERTY ControlModeCtrlCCloses
CHECK_DEADLOCK FALSE
