SPECIFICATION Spec
CONSTANTS
  a = a
  b = b
  c = c
  Workers <- ThreeWorkers
  NTasks = 5
INVARIANTS TypeOK ExactlyOnce WorkConserving CleanShutdown
PROPERTIES DestructorReturns ImplementsTaskPool
