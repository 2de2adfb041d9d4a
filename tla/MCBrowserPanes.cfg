CONSTANTS
  w1 = w1
  w2 = w2
  m1 = m1
  m2 = m2
  p1 = p1
  p2 = p2
  p3 = p3
  main = main
  io = io
  Main = main
  NoTimer = NoTimer
  Timers = {1, 2, 3}
  Threads <- TheThreads
  Panes <- ThreePanes
  Windows <- OneWindow
  MuxWindows <- TwoMuxWindows
  Home <- TheHome
  MaxEvents = 2
  MaxAsks = 1
SPECIFICATION FairSpec
INVARIANT TypeOK WorkIsCovered FrameIsCurrent
PROPERTY OpenIsShown
CHECK_DEADLOCK FALSE
