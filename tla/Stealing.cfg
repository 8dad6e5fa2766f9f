SPECIFICATION Spec
CONSTANTS
  a = a
  b = b
  c = c
  Workers <- ThreeWorkers
  Priorities <- FourTasks
CHECK_DEADLOCK FALSE
INVARIANTS TypeOK ExactlyOnce TargetAwake
PROPERTIES AllTasksRun MissedOrReturns
