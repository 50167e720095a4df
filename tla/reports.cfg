SPECIFICATION WireSpec
CONSTANTS
  Reports <- MCReports
  Null <- Unpaid
  BufLen = 10
  Fills <- Release
  Garbage <- Stretches
  Beyond <- MCBeyond
  WholeReports = TRUE
  MaxReports = 3
CHECK_DEADLOCK FALSE
INVARIANTS TypeOK EnteredAsReported
