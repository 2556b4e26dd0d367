SPECIFICATION Spec
CONSTANTS
  Browsers = {b1, b2}
  Requests = {r1, r2, r3}
  Demos = {d1, d2}
  Concurrency = 1
  QueueLimit = 1
  MaxSessions = 1
  None = None
CHECK_DEADLOCK FALSE
SYMMETRY Symmetry
INVARIANTS
  GateAgrees
  LiveUndisturbed
  FilesAreInUse
