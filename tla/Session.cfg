SPECIFICATION Spec
CONSTANTS
  HeaderSize = 2
  Buffer = 4
  ErrorSize = 3
  Lengths <- SomeLengths
  Period = 2
  Timeout = 5
  MaxDelay = 1
  MaxMessages = 2
  MaxUnread = 3
INVARIANTS TypeOK KeptAlive
PROPERTIES Answered SessionEnds
