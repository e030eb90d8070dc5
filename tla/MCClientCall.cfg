CONSTANTS
  Callers = {c1, c2, c3}
  MaxCalls = 2
  Nobody = Nobody
SPECIFICATION FairSpec
INVARIANTS TypeOK OwnReply ExecutedOnceInOrder OneOutstanding
PROPERTIES CallReturns CallsAtomic
CHECK_DEADLOCK FALSE
