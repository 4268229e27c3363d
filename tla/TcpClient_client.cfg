SPECIFICATION Spec
CONSTANTS
  InitDelay = 500
  MaxDelay = 30000
  MaxConns = 3
  MaxStops = 2
INVARIANT FdsAccounted
PROPERTIES  Reconnects StopsForGood
\* A client that is stopped, or destroyed, has nothing left to do.
CHECK_DEADLOCK FALSE
