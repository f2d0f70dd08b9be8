SPECIFICATION SpecDelivery
CONSTANTS
  n1 = n1
  r1 = r1
  f1 = f1
  Nodes = {n1}
  Repos = {r1}
  Files = {f1}
  RepoOf <- MCRepoOf
  Sizes = {1}
  Absent = Absent
  MaxEpoch = 2
  MaxSeq = 1
  MaxLegacyEpoch = 0
  MaxLegacySeq = 0
INVARIANTS TypeOKDelivery PendingIsPursued
PROPERTIES TaskReachesNode
