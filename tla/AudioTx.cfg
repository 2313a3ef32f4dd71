SPECIFICATION Spec
CONSTANTS
  RingFrames = 2
  ReadFailures = 2
  InvalidFrames = 2
  SendFailures = 2
  AckMinSent = 2
  Disturbances = 4
INVARIANTS OneFrameOfEarlierRun OneFrameAfterStop
PROPERTIES QuietsDown Recovers
