SPECIFICATION Spec
CONSTANTS
  h1 = h1
  h2 = h2
  Handlers = {h1, h2}
  MaxJobs = 1
  NoRepo = NoRepo
  Unpinned = Unpinned
  Free = Free
PROPERTIES CompletionAcknowledged
