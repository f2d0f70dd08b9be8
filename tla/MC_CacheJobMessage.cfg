SPECIFICATION Spec
CONSTANTS
  h1 = h1
  h2 = h2
  Handlers = {h1, h2}
  MaxJobs = 2
  NoRepo = NoRepo
  Unpinned = Unpinned
  Free = Free
SYMMETRY HandlerSymmetry
INVARIANTS RetryClearsPending
