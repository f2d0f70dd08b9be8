SPECIFICATION Spec
CONSTANTS
  p = p
  q = q
  x = x
  h1 = h1
  h2 = h2
  i1 = i1
  i2 = i2
  i3 = i3
  Paths = {p, q}
  Contents = {x}
  NoFile = NoFile
  Keep = Keep
  Inside <- MCInside
  Ids = {i1, i2, i3}
  Requests <- MCRequests
  Handlers = {h1, h2}
SYMMETRY Symmetry
INVARIANTS TypeOK NoPathConflict OneRequestPerVersion
PROPERTIES ImplementsHistory
