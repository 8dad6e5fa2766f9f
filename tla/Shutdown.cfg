SPECIFICATION Spec
CONSTANTS
  a = a
  b = b
  Clients <- TwoClients
  Backlog = 1
  MaxParts = 2
CHECK_DEADLOCK FALSE
INVARIANTS TypeOK CleanStop
PROPERTIES StopsInSilence ClientReleased
