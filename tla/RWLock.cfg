SPECIFICATION Spec
CONSTANTS
  r1 = r1
  r2 = r2
  w1 = w1
  w2 = w2
  w3 = w3
  Readers <- TwoReaders
  Writers <- ThreeWriters
  Rounds = 2
INVARIANTS TypeOK Exclusion CountersExact NoLostWakeup
PROPERTIES StableUnderLock Termination ImplementsReadersWriters
