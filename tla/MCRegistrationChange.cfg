SPECIFICATION ConsumerSpec
CONSTANTS
  h1 = h1
  e1 = e1
  k1 = k1
  a1 = a1
  a2 = a2
  r1 = r1
  r2 = r2
  agent1 = agent1
  IdentityKeys = {k1}
  Addresses = {a1, a2}
  CodeHashes = {h1}
  Evidence = {e1}
  Accounts = {op}
  ZeroHash = ZeroHash
  ZeroAddress = ZeroAddress
  AgentIds = {agent1}
  KeyOf <- MCKeyOf
  Unreadable = Unreadable
  IdentityViews <- RegistrationViews
  Registrations = {r1, r2}
  MAX_TTL = 3
  LockInputs <- CleanInputs
  Reasons = {1}
  MaxVersion = 1
  MaxTime = 3
  maxBehavioralScore = 60
  maxCodeRisk = 1
  minimumPolicyVersion = 1
  maximumAge = 1
  MaxAccepted = 0
PROPERTIES
  RegistrationChangeDenies
