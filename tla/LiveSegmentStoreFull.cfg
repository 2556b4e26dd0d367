SPECIFICATION FaultSpec
CONSTANTS
  a = a
  b = b
  c = c
  Fragments = {a, b, c}
  Mfhd <- MCMfhd
  Keys = {k1, k2}
  Files = {f1, f2, f3, f4}
  MaxSegments = 2
  Absent = Absent
  Partial = Partial
  NoRequest = NoRequest
SYMMETRY FileSymmetry
INVARIANTS
  AckedDurable
  NoUntrackedMedia
  StoppedIsSettled
