SPECIFICATION Spec
CONSTANTS
  Calls = {b1, b2}
  Receipts = {x1}
  NoCall = NoCall
  Lease = 2
  Retention = 3
  MaxRecords = 1
  StoreFaults = FALSE
INVARIANT
  FailedCallLeavesNoClaim
CHECK_DEADLOCK FALSE
