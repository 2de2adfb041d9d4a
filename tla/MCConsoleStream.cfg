SPECIFICATION ConsoleSpec
CONSTANTS
  Settings <- EverySetting
  PipeRoom = 2
  Screen = 3
  MaxLines = 12
INVARIANTS ConsoleTypeOK
PROPERTIES EverythingSeen MainComesBack
CHECK_DEADLOCK FALSE
