SPECIFICATION Spec
CONSTANTS
  Views = {v1, v2}
  Habits = {"exit"}
INVARIANT CtrlCGuarantee
CHECK_DEADLOCK FALSE
