CONSTANTS
  Pids = {p1, p2, p3}
  NoPid = NoPid
SPECIFICATION Spec
INVARIANTS StartedIsTracked
CHECK_DEADLOCK FALSE
