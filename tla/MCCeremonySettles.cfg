SPECIFICATION FairCeremonySpec
CONSTANTS
  k1 = k1
  k2 = k2
  i1 = i1
  i2 = i2
  IdempotencyKeys = {k1, k2}
  Identities = {i1, i2}
  Runs = {r1, r2}
  None = None
  Recoverers = {c1}
  Requests <- TwoIdentities
  Faults = {"rpc", "drop", "revert", "guardian"}
  MaxCrashes = 2
  MaxVersion = 2
  maxConcurrency = 2
  dailyCeremonyLimit = 2
  dailyCostUnitsLimit = 5
INVARIANTS
  CostsMatchWork
  

  
CHECK_DEADLOCK FALSE
