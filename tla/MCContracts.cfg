SPECIFICATION ContractsSpec
CONSTANTS
  h1 = h1
  e1 = e1
  IdentityKeys = {k1, k2}
  Addresses = {a1}
  CodeHashes = {h1}
  Evidence = {e1}
  Accounts = {op}
  ZeroHash = ZeroHash
  ZeroAddress = ZeroAddress
  MAX_TTL = 2
  LockInputs <- MCLockInputs
  Reasons = {0, 1, 17}
  MaxVersion = 2
  MaxTime = 3
  Agents = {g1, g2}
  Targets = {t1}
  Senders = {o1, s1}
  Owner = o1
  NoAddress = NoAddress
  TokenIds = {0, 7}
  Verdicts <- SomeVerdicts
  DEFAULT_MAX_AGE = 1
  MaxWrites = 3
  MaxClock = 3
  DeployRuns = {r1, r2}
  Environments <- SomeEnvironments
  Deployer = deployer
  NoAccount = NoAccount
  LeastConfirmations = 2
  MaxPolicyVersion = 3
  NoRecord = NoRecord
  Absent = Absent
  Torn = Torn
  MaxHeight = 6
  MaxCreations = 4
  MaxReorgs = 1
  c1 = c1
  c2 = c2
  c3 = c3
INVARIANTS
  RecordsAreComplete
  
  EnumerationExact
  LeaseWellFormed
  DeploymentIsOneGraph
PROPERTIES
  VersionLifecycle
  ExecutesOnlyTheSafe
