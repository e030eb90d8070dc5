CONSTANTS
  Conns = {c1, c2, c3}
  Names = {n1, n2}
  Handlers = {h1}
  None = None
SPECIFICATION Spec
INVARIANTS TypeOK UnlistedIsShadowed CloseStopsTheListed
CHECK_DEADLOCK FALSE
