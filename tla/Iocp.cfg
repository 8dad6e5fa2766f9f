SPECIFICATION Spec
CONSTANTS
  ctx1 = ctx1
  ctx2 = ctx2
  w1 = w1
  w2 = w2
  None = None
  NClients = 2
  Contexts <- TwoContexts
  Workers <- TwoWorkers
  MaxPool = 1
  Window = 2
  MaxMessages = 2
CHECK_DEADLOCK FALSE
INVARIANTS TypeOK SoundWhilePatient ServedOnce PooledAtRest
PROPERTIES Answered
