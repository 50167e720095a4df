SPECIFICATION Spec
CONSTANTS
  MaxReady = 2
  MaxUid = 2
  Levels = {1, 2}
CHECK_DEADLOCK FALSE
INVARIANTS TypeOK SlotsShownWereHeld
