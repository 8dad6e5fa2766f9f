SPECIFICATION Spec
CONSTANTS
  a = a
  b = b
  c = c
  Workers <- ThreeWorkers
  NTasks = 4
CHECK_DEADLOCK FALSE
INVARIANTS TypeOK OneAtATime ExactlyOnce WorkConserving
PROPERTIES AllProcessed
