SPECIFICATION ConsoleSpec
CONSTANTS
  Settings <- Paged
  PipeRoom = 2
  Screen = 3
  MaxLines = 12
PROPERTIES AlwaysComesBack
CHECK_DEADLOCK FALSE
