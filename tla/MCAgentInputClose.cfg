CONSTANTS
  Size = 8
  Block = 4
  MaxBytes = 20
  Closers = {}
  Hdr = 3
  MaxReqs = 2
  FrameLens = {3}
SPECIFICATION FairAgentSpec
PROPERTIES ProcessorEnds
CHECK_DEADLOCK FALSE
