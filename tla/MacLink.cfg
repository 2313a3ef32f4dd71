SPECIFICATION Spec
CONSTANTS
  Mac = {m1, m2}
  None = None
  Unpaired = Unpaired
  MaxPairedMacs = 1
  HeartbeatMissLimit = 3
  MaxTokens = 4
  Disturbances = 3
INVARIANTS TokenOfIssuer Agreement
PROPERTIES Settles
CHECK_DEADLOCK FALSE
