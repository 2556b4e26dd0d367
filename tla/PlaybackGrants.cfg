CONSTANTS
  Sessions = {s1, s2}
  Tokens = {t1, t2}
  Grants = {g1, g2, g3}
  Requests = {q1}
  Lifetime = 1
  Leeway = 0
  Skew = 1
  MaxTime = 2
  MaxEpoch = 1
  Absent = Absent
  Nobody = Nobody
SPECIFICATION Spec
SYMMETRY Interchangeable
INVARIANTS
  SingleUse
  RevocationIsFinal
  DeliveredWorks
PROPERTIES
  ImplementsAccess
