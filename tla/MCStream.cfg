CONSTANTS
  e1 = e1
  e2 = e2
  r1 = r1
  r2 = r2
  e3 = e3
  c1 = c1
  Event = {e1, e2}
  Request = {r1, r2}
  Client = {}
  NoEvent = NoEvent
  NoView = NoView
  Generations = 1
  MinEventsPerSnapshot = 2
  Retries = "none"
  MaxCandidates = 4
  MaxCrashes = 1
  MaxFailures = 1
  MaxAmbiguous = 1
  MaxForced = 1
SPECIFICATION Spec
INVARIANTS
  AckedDurable
  ChainIntegrity
  Inv
PROPERTIES
  ImplementsLog
