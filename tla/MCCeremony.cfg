SPECIFICATION CeremonySpec
CONSTANTS
  k1 = k1
  k2 = k2
  i1 = i1
  i2 = i2
  IdempotencyKeys = {k1, k2}
  Identities = {i1}
  Runs = {r1, r2}
  None = None
  Recoverers = {c1, c2}
  Requests <- MCRequests
  Faults = {"rpc", "outage", "drop", "revert", "foreign"}
  MaxCrashes = 1
  MaxVersion = 2
  maxConcurrency = 2
  dailyCeremonyLimit = 2
  dailyCostUnitsLimit = 6
SYMMETRY CallSymmetry
INVARIANTS
  SettledOutcomeIsTrue
  UnsettledWriteIsGuarded
PROPERTIES
  JournalNeverForgets
  ImplementsSerializedWrites
CHECK_DEADLOCK FALSE
