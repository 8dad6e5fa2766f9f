SPECIFICATION Spec
CONSTANTS
  a = a
  b = b
  c = c
  Workers <- TwoWorkers
  NTasks = 1
CHECK_DEADLOCK FALSE
PROPERTIES DestructorReturns
