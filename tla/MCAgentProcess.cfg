CONSTANTS
  Pids = {p1, p2, p3}
  NoPid = NoPid
SPECIFICATION FairSpec
INVARIANTS TypeOK TrackedUnlessDropped DropNeedsOvertaking StaleEntriesExplained CloseLeavesOnlyDropped AbortNeedsExit
PROPERTIES ExitNoticed
CHECK_DEADLOCK FALSE
