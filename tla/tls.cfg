SPECIFICATION Spec
CONSTANTS
  Size = 3
  SplitHello = FALSE
  EarlyData = TRUE
  MayEnd = TRUE
  MaxMessage = 4
  Header = 1
  Trailer = 1
  MaxBytes = 5
  MaxRead = 3
CHECK_DEADLOCK FALSE
INVARIANTS TypeOK StreamsStartClean FailsForAReason NothingLost
PROPERTIES BothReturn ImplementsStream ReadEnds
