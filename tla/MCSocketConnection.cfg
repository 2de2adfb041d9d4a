SPECIFICATION Spec
CONSTANTS
  Scripts <- ShortScripts
  MaxChunk = 3
INVARIANTS TypeOK LinesInOrder AnswersInOrder
PROPERTIES EveryLineAnswered
CHECK_DEADLOCK FALSE
