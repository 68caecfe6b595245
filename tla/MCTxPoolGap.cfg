CONSTANTS
  Job = {j1, j2}
  MaxHash = 2
  MaxDrops = 1
  MaxFailures = 0
  MaxAmbiguous = 0
  MaxCrashes = 1
SPECIFICATION FairSpec
PROPERTIES
  WaitEnds
CHECK_DEADLOCK FALSE
