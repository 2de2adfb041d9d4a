CONSTANTS
  H = 2
  StartTop = 1
  MaxTop = 2
  MaxEvents = 3
  FetchIds = {1, 2, 3}
  AltScreens = {"clear", "plain"}
  Predicted = {"text", "motion"}
  Hydrates = FALSE
SPECIFICATION RenderFairSpec
INVARIANT RenderTypeOK LinesAreUpToDate
ACTION_CONSTRAINTS ClientBetweenJobs PollsThatMatter ServerFirst
  OneDeltaAtATime AfterAttaching MixedEvents CursorOnTheRow
PROPERTY Converges
CHECK_DEADLOCK FALSE
