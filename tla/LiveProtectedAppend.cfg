SPECIFICATION FairSpec
CONSTANTS
  k1 = k1
  k2 = k2
  Offers <- MCOffers
  a = a
  b = b
  c = c
  Calls = {c1, c2}
  Starts = {k1, k2}
  Keys = {k1, k2}
  Sources = {a, b, c}
  Mfhd <- MCMfhd
  Variants = {x, y}
  Verdicts = {"EXACT_VERIFIED", "NOT_FOUND"}
  MaxSegments = 3
  SampleEvery = 2
  MaxQueue = 2
  MaxCrashes = 1
  MaxFaults = 1
  Absent = Absent
\* A session that has ended has nothing left to do.
CHECK_DEADLOCK FALSE
INVARIANTS
  TypeOK
  ReceiptsAreBacked
  RunningAgrees
  OneStart
  SamplesAreReal
PROPERTIES
  EndIsFinal
  ImplementsLog
  CallsReturn
