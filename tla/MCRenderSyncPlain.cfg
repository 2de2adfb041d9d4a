CONSTANTS
  H = 2
  StartTop = 1
  MaxTop = 1
  MaxEvents = 2
  FetchIds = {1, 2}
  AltScreens = {"plain"}
  Predicted = {}
  Hydrates = FALSE
SPECIFICATION RenderSpec
INVARIANT AllLinesAreUpToDate
ACTION_CONSTRAINTS ClientBetweenJobs PollsThatMatter
CHECK_DEADLOCK FALSE
