CONSTANTS
    a1 = a1
    a2 = a2
    h1 = h1
    e1 = e1
    k1 = k1
    n1 = n1
    IdentityKeys = {k1}
    Addresses = {a1, a2}
    CodeHashes = {h1}
    Evidence = {e1}
    Accounts = {}
    ZeroHash = ZeroHash
    ZeroAddress = ZeroAddress
    MAX_TTL = 4
    LockInputs = {}
    Reasons = {}
    MaxVersion = 1
    MaxTime = 2
    AgentIds = {n1}
    KeyOf <- KeyOfAgent
    Unreadable = Unreadable
    Registrations = {1}
    IdentityViews <- SomeIdentities
    maxBehavioralScore = 5
    maxCodeRisk = 0
    minimumPolicyVersion = 1
    maximumAge = 1
    Views <- SomeViews
    Forks <- SomeForks
    NoRead = NoRead
    SealedProofs = {p1, p2}
    NoProof = NoProof
    FirstBlock = 1
    Confirmations = 2
    Lookback = 3
    ChunkBlocks = 2
    QueryBudget = 2
    NegativeTtl = 1
    NegativeMax = 1
    MaxHead = 4
    MaxReorgs = 1
    Identities = {i1, i2, i3}
    NoSeal = NoSeal
    Window = 3
    Cap = 2
    Concurrency = 2
    FromBlockFloor = 0
    Blocks = 4
    Wallets = {w1, w2}
    NoWallet = NoWallet
    Signers = {s1, s2}
    Reseals = 2
    MaxMoments = 4
    wal = wal
    tgt = tgt
    imp = imp
    Facts <- SomeFacts
    Dossiers <- SomeDossiers
    Selectors <- SomeSelectors
    ModelScores = {0, 40, 80}
    MaxRows = 4
    DrainWindow = 2
    Nobody = Nobody
    Urls = {u1, u2, u3}
    BadUrl = BadUrl
    Public = {ip1}
    Private = {ip2}
    MaxBytes = 1
    MaxRedirects = 1
SPECIFICATION ReadsSpec
INVARIANTS
    
    
    ShownIsOfOneMoment
    
    SealedVerdictIsEarned
    FetchStaysInBounds
PROPERTY AnswersTruly
CHECK_DEADLOCK FALSE
