CONSTANTS
  Job = {j1, j2}
  MaxHash = 4
  MaxDrops = 2
  MaxFailures = 1
  MaxAmbiguous = 0
  MaxCrashes = 0
SPECIFICATION FairSpec
INVARIANTS
  ReceiptKnown
PROPERTIES
  WaitEnds
CHECK_DEADLOCK FALSE
