SPECIFICATION Spec
CONSTANTS
  EvidenceWindow = 2
  MinMaxAge = 2
  SilentMaxAge = 5
  Period = 1
  MaxDelay = 1
  Skew = 2
  MaxRequests = 2
  MaxTime = 5
  None = None
INVARIANTS TypeOK HealthyIsRecent NoFalseDisconnect
