CONSTANTS
  Size = 2
  Block = 1
  MaxBytes = 4
  Closers = {"stop"}
SPECIFICATION FairSpec
INVARIANTS TypeOK NoOverwrite InOrder NoLostWakeup
PROPERTIES ImplementsByteStream ParkedProducerWakes ParkedReadWakes
CHECK_DEADLOCK FALSE
