CONSTANTS
  Job = {j1, j2}
  MaxHash = 3
  MaxDrops = 0
  MaxFailures = 0
  MaxAmbiguous = 1
  MaxCrashes = 0
SPECIFICATION Spec
INVARIANTS
  ReceiptKnown
SYMMETRY Jobs
CHECK_DEADLOCK FALSE
