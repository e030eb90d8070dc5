CONSTANTS
  Base = 4
  HdrLen = 3
  PidBytes = 2
  Bytes = {0, 7}
  TextLens = {0, 4}
  MaxPid = 9
  Codes = {0, 6}
  KeepAlives = {41}
  MaxMsgs = 2
SPECIFICATION Spec
INVARIANTS TypeOK ReceivedAsSent Aligned NeverAsksForMore
CHECK_DEADLOCK FALSE
