SPECIFICATION Spec
CONSTANTS
  k1 = k1
  k2 = k2
  Offers <- MCOffers
  a = a
  b = b
  c = c
  Calls = {c1, c2}
  Starts = {k1}
  Keys = {k1, k2}
  Sources = {a, b, c}
  Mfhd <- MCMfhd
  Variants = {x}
  Verdicts = {"EXACT_VERIFIED", "NOT_FOUND"}
  MaxSegments = 3
  SampleEvery = 2
  MaxQueue = 2
  MaxCrashes = 1
  MaxFaults = 0
  Absent = Absent
INVARIANT AnsweredStaysInLedger
\* A session that has ended has nothing left to do.
CHECK_DEADLOCK FALSE
