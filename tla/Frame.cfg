SPECIFICATION Spec
CONSTANTS
  Frames <- AllFrames
  HeaderSize = 2
  BufferSize = 4
  MaxFrames = 3
INVARIANTS TypeOK FrameBoundary InOrder
PROPERTIES ImplementsMessageChannel
