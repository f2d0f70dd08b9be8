SPECIFICATION Spec
CONSTANTS
  n1 = n1
  n2 = n2
  r1 = r1
  r2 = r2
  f1 = f1
  f2 = f2
  Nodes = {n1, n2}
  Repos = {r1, r2}
  Files = {f1, f2}
  RepoOf <- MCRepoOf
  Sizes = {1, 2}
  Absent = Absent
  MaxEpoch = 2
  MaxSeq = 2
  MaxLegacyEpoch = 1
  MaxLegacySeq = 1
INVARIANTS TypeOK HoldingsMatchReports NoDanglingHolding StatusMatchesPending
PROPERTIES ReconcileNotPreempted ImplementsLedger
SYMMETRY NodeSymmetry
