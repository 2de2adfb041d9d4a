CONSTANTS
  w1 = w1
  w2 = w2
  m1 = m1
  m2 = m2
  p1 = p1
  p2 = p2
  p3 = p3
  main = main
  io = io
  Main = main
  NoTimer = NoTimer
  Timers = {1, 2, 3}
  Threads <- TheThreads
  Panes <- ThreePanes
  Windows <- TwoWindows
  MuxWindows <- TwoMuxWindows
  Home <- TheHome
  MaxEvents = 1
  MaxAsks = 0
SPECIFICATION Spec
INVARIANT CtrlCReachesIt
CHECK_DEADLOCK FALSE
