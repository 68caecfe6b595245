CONSTANTS
  e1 = e1
  e2 = e2
  r1 = r1
  r2 = r2
  e3 = e3
  c1 = c1
  Event = {e1, e2, e3}
  Request = {r1}
  Client = {c1}
  NoEvent = NoEvent
  NoView = NoView
  Generations = 1
  MinEventsPerSnapshot = 2
  Retries = "none"
  MaxCandidates = 6
  MaxCrashes = 1
  MaxFailures = 0
  MaxAmbiguous = 0
  MaxForced = 1
SPECIFICATION Spec
INVARIANTS
  SnapshotsComplete
  SubscriberComplete
  CookiesStayValid
