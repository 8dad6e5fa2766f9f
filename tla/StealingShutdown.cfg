SPECIFICATION Spec
CONSTANTS
  a = a
  b = b
  c = c
  Workers <- TwoWorkers
  Priorities <- TwoTasks
CHECK_DEADLOCK FALSE
PROPERTIES DestructorReturns
