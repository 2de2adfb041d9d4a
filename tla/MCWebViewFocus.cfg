SPECIFICATION Spec
CONSTANTS
  Views = {v1, v2, v3}
  Habits = {"exit", "edit", "away"}
SYMMETRY Symmetry
INVARIANTS TypeOK OnlyBrowsedPagesGetKeys KeyboardIsOnTop TerminalGetsFocusBack
PROPERTY CtrlCEscapes
CHECK_DEADLOCK FALSE
