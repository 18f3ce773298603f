CONSTANTS
    Calls = {b1, b2}
    Receipts = {x1, x2}
    NoCall = NoCall
    Lease = 2
    Retention = 3
    MaxRecords = 1
    StoreFaults = TRUE
    Roots = {r1}
    Uploads = {u1}
    Txs = {t1, t2}
    NoRoot = noRoot
    NoTx = noTx
    Faults = {"fails", "drops", "corrupts", "foreign"}
    MaxCrashes = 1
    FromBlock = 2
    Heads <- SmallHeads
    Chunk = 2
    Confirmations = 2
SPECIFICATION StoresSpec
INVARIANTS
    AcceptanceIsRemembered
    JournaledBroadcastIsKept CommitmentIsFinal ChunksMatchOnePass
PROPERTIES
    ReceiptAcceptedOnce ClaimsLapse 
CHECK_DEADLOCK FALSE
