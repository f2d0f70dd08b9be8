SPECIFICATION Spec
CONSTANTS
  a = a
  b = b
  c1 = c1
  c2 = c2
  r = r
  x = x
  y = y
  e = e
  Nodes = {a, b}
  Files <- MCFiles
  Callers = {c1, c2}
  Size = 2
  MaxRows = 2
INVARIANTS TypeOK NoDuplicates ReadStaysValid DownloadedIsWhole
PROPERTIES ImplementsProgress EveryCallReturns
