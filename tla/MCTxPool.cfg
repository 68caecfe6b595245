CONSTANTS
  Job = {j1, j2, j3}
  MaxHash = 4
  MaxDrops = 1
  MaxFailures = 1
  MaxAmbiguous = 1
  MaxCrashes = 1
SPECIFICATION Spec
INVARIANTS
  ExecutedOnce
  ReceiptsInOrder
SYMMETRY Jobs
CHECK_DEADLOCK FALSE
