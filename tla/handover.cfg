SPECIFICATION Spec
CONSTANTS
  MaxConns = 3
  Timely = TRUE
CHECK_DEADLOCK FALSE
INVARIANTS TypeOK OneHandlerPerConnection
