SPECIFICATION NodeSpec
CONSTANTS
    Tx = {}
    Contract = {1, 2}
    AccountManager = 0
    Key = {"a", "b"}
    Val = {1}
    NoWrite = NoWrite
    NoRWSet = NoRWSet
    RunVM <- NoRun
    LocOrder <- MCLocOrder
    RWSets <- OneContractPerKey
    MaxAccess = 2
    MaxLen = 3
    p1 = p1
    p2 = p2
    Peer = {p1, p2}
    NoPeer = NoPeer
    TopHeight = 3
    ArchivedHeight <- MCArchived
    MaxPendingBlocks = 1
    MinLagThreshold = 0
    MaxInFlight = 1
    SyncConfigs <- MCSyncConfigs
INVARIANT DagMatchesConflicts
INVARIANT ReceivedIsHeld
 
INVARIANT PendingIsTracked
INVARIANT NextIsAccepted
PROPERTY CatchesUp
CHECK_DEADLOCK FALSE
