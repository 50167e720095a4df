SPECIFICATION FairSpec
CONSTANTS
  Instants <- MCInstants
  Honest = FALSE
  MaxQueue = 2
CHECK_DEADLOCK FALSE
INVARIANTS TypeOK KeptOnlyByAnswer ClosedForAReason
PROPERTY LeaverIsNoticed
