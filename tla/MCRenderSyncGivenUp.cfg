CONSTANTS
  H = 2
  StartTop = 1
  MaxTop = 1
  MaxEvents = 2
  FetchIds = {1, 2}
  AltScreens = {"clear"}
  Predicted = {}
  Hydrates = FALSE
SPECIFICATION RenderSpec
INVARIANT FetchingIsUnderWay
ACTION_CONSTRAINTS ClientBetweenJobs PollsThatMatter
CHECK_DEADLOCK FALSE
