SPECIFICATION BufferSpec
CONSTANTS
  TargetFrames = 2
  MaxFrames = 4
  StarvationFrames = 4
  SeqMod = 12
  Delay = 6
  None = None
INVARIANTS HeardAgain
