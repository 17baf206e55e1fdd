CONSTANTS
  PStart = 1
  PStop = 5
  Frames <- MCFrames
  Numbers = 3
SPECIFICATION Spec
INVARIANT TypeOK
PROPERTIES InOrder FramesDelivered
