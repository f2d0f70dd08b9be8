SPECIFICATION Spec
CONSTANTS
  h1 = h1
  h2 = h2
  Handlers = {h1, h2}
  MaxRows = 2
  MaxProcesses = 3
  Advertising = {1, 3}
SYMMETRY HandlerSymmetry
INVARIANTS TypeOK ModesKeepApart NoInheritedHealth SourceFollowsNode
