SPECIFICATION Spec
CONSTANTS
  MaxConns = 3
  MaxRequests = 2
INVARIANTS RegisteredIsLatest OneOpenSocket WaitsOnTheRegistered
PROPERTIES NothingLingers
CHECK_DEADLOCK FALSE
