SPECIFICATION Spec
CONSTANTS
  h1 = h1
  h2 = h2
  Handlers = {h1}
  MaxRows = 2
  MaxProcesses = 3
  Advertising = {1, 2, 3}
INVARIANTS DeliveryFollowsNode
