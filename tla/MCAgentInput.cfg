CONSTANTS
  Size = 8
  Block = 4
  MaxBytes = 24
  Closers = {}
  Hdr = 3
  MaxReqs = 4
  FrameLens = {3, 5, 9}
SPECIFICATION FairAgentSpec
INVARIANTS AgentTypeOK Framed NoStall
PROPERTIES ExecutedOrAsleep ReceiverEnds
CHECK_DEADLOCK FALSE
