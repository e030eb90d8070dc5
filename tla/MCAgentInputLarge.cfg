CONSTANTS
  Size = 8
  Block = 4
  MaxBytes = 20
  Closers = {}
  Hdr = 3
  MaxReqs = 2
  FrameLens = {6}
SPECIFICATION FairAgentSpec
PROPERTIES ExecutedOrAsleep
CHECK_DEADLOCK FALSE
