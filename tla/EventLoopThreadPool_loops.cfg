SPECIFICATION LoopsSpec
CONSTANTS
  NumThreads = 2
  MaxFunctors = 2
INVARIANTS FunctorsInOrder NoSleepWithWork
PROPERTIES CallsComplete
\* The pool stops.
CHECK_DEADLOCK FALSE
