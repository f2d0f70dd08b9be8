SPECIFICATION SystemSpec
CONSTANTS
  h1 = h1
  m1 = m1
  Handlers = {h1}
  Mounters = {m1}
  MaxJobs = 1
  MaxRows = 2
  NoRepo = NoRepo
  Unpinned = Unpinned
  Free = Free
INVARIANTS MountedByReport StoppingIsOfThisProcess
PROPERTIES SignalEnds
