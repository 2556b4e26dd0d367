SPECIFICATION FairSpec
CONSTANTS
  Modes = {"PROTECTED_TANCMARK", "TRANSPORT_ONLY"}
  StopRequests = {s1, s2}
  CleanupRequests = {p1, p2}
  Calls = {c1, c2}
  Verdicts = {"exact", "inexact", "error"}
  MaxCrashes = 1
  MaxFull = 2
  QuotaRefuses = TRUE
  Absent = Absent
\* A session at its end, or one no request can move, has nothing left to do.
CHECK_DEADLOCK FALSE
INVARIANTS
  ReceiptIsBacked
  AnswersTheAttempt
  CleanupAnswersHold
PROPERTIES
  OneDecision
  ImplementsOutcome
  StopSettles
