SPECIFICATION Spec
CONSTANTS
  a = a
  b = b
  c = c
  Workers <- TwoWorkers
  NTasks = 2
CHECK_DEADLOCK FALSE
INVARIANTS TaskAlive
