SPECIFICATION FairSpec
CONSTANTS
  Tenants = {t1}
  Refs = {r1, r2}
  Digests = {d1, d2}
  Calendars = {c1}
  Instances = {n1, n2}
  Operators = {o1}
  t1 = t1
  o1 = o1
  n1 = n1
  n2 = n2
  r1 = r1
  Home <- MCHome
  About <- MCAbout
  BatchLimit = 1
  MaxLength = 1
  MaxFaults = 1
  None = None
CHECK_DEADLOCK FALSE
PROPERTY AnchoredKeepsProof
