SPECIFICATION PoolSpec
CONSTANTS
  Workers = {w1, w2}
  Producers = {p1, p2}
  MaxQueueSizes = {0, 1, 2}
  NoTask = NoTask
  MaxTasks = 5
INVARIANTS TasksInOrder
PROPERTIES TaskStarts CallsReturn
\* The pool stops.
CHECK_DEADLOCK FALSE
