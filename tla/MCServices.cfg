CONSTANTS
    IdentityKeys = {k1}
    Addresses = {w1}
    CodeHashes = {h1}
    Evidence <- SealedFingerprints
    Accounts = {scanner, guardian, admin}
    ZeroHash = ZeroHash
    ZeroAddress = ZeroAddress
    MAX_TTL = 1
    LockInputs <- Inputs
    Reasons = {3, 5, 6}
    MaxVersion = 2
    MaxTime = 1
    Checks = {c1}
    Owners = {o1}
    Registrations = {g1, g2}
    Targets = {t1}
    PolicyVersions = {1, 2}
    Kind <- Delegated
    NoTarget = NoTarget
    Scanner = scanner
    Guardian = guardian
    MaxChanges = 1
    MaxRestarts = 1
    w1 = w1
    w2 = w2
    h1 = h1
    o1 = o1
    g1 = g1
    g2 = g2
SPECIFICATION ServicesSpec
PROPERTIES OnlyComparedLeaseIsMarked 
