SPECIFICATION FairSpec
CONSTANTS
  Ids = {i1, i2}
  Keys = {k1, k2}
  Workers = {w1, w2}
  Results = {r1, r2}
  Lease = 2
  Limits = {2}
  Delays = {1}
  MaxResumes = 1
  Absent = Absent
INVARIANTS
  ListedOnce
  OneHolder
PROPERTIES
  EveryJobEnds
  ImplementsJobs
