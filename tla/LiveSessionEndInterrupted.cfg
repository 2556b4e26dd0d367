SPECIFICATION Spec
CONSTANTS
  Modes = {"PROTECTED_TANCMARK"}
  StopRequests = {s1}
  CleanupRequests = {p1}
  Calls = {c1}
  Verdicts = {"exact"}
  MaxCrashes = 1
  MaxFull = 0
  QuotaRefuses = FALSE
  Absent = Absent
INVARIANTS
  FailsOnVerdictOnly
\* A session at its end, or one no request can move, has nothing left to do.
CHECK_DEADLOCK FALSE
