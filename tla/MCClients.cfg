CONSTANTS
    Calls = {c1, c2}
    Agents = {a1}
    Max = 1
    Window = 1
    Challenge = TRUE
    MaxTime = 2
    MaxVersion = 2
    MaxStarts = 3
    a2 = a2
    Subjects = {a1, a2}
    HasCode = {a2}
    Published <- SomeSources
    History <- SomeHistories
    ModelAnswers <- SomeAnswers
    MaxEnqueues = 2
    MaxManual = 1
    NoAgent = NoAgent
    MaxActs = 5
    Proofs = {p1, p2}
    NoProof = NoProof
    MaxQuestions = 5
    Leases = {l1, l2}
    NoLease = NoLease
    MaxCalls = 3
    MaxRoutes = 3
    NeedsToken = TRUE
    LastVersion = 2
    MaxSubmits = 2
    Accesses <- SomeAccesses
    NoAccess = NoAccess
    Terminals = {"MATCH", "UNAVAILABLE"}
    Ttl = 1
    LastTime = 2
    MaxTurns = 2
    MaxAsks = 1
SPECIFICATION ClientsSpec
INVARIANTS
    OvershootBounded  VerdictsAreEarned
    
 
CHECK_DEADLOCK FALSE
