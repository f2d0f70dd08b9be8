SPECIFICATION Spec
CONSTANTS
  i1 = i1
  e = e
  p = p
  NoLfs = NoLfs
  CutEtag = CutEtag
  Instances = {i1}
  Persisted = {i1}
  Files <- MCFiles
  Snapshot <- MCSnapshot
  Narrow = {"pipeline_tag_id", "tags"}
  MaxRecords = 3
  Disk <- MCDisk
  Node = i1
  BatchSize = 2
  MaxRuns = 2
INVARIANTS TypeOK VerifiedWasHeld ImportLosesNoFile LogoOncePerWriter
PROPERTIES ImportAddsOnlyNew RegistrationReturns
