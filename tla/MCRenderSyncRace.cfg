CONSTANTS
  H = 2
  StartTop = 1
  MaxTop = 1
  MaxEvents = 3
  FetchIds = {1, 2}
  AltScreens = {"clear"}
  Predicted = {}
  Hydrates = FALSE
SPECIFICATION RenderSpec
INVARIANT AllLinesAreUpToDate
ACTION_CONSTRAINTS ClientBetweenJobs PollsThatMatter
CHECK_DEADLOCK FALSE
