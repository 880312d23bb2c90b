SPECIFICATION Spec
CONSTANTS
    Tx <- OccTxs
    Contract = {1}
    AccountManager = 0
    Key = {"a", "b"}
    Val <- MCVal
    NoWrite = NoWrite
    NoRWSet = NoRWSet
    NoEntry = NoEntry
    RunVM <- MCRunVM
    constructKey <- MCConstructKey
    UsesIterator <- MCUsesIterator
    LocOrder <- MCLocOrder
    Sender <- MCSender
    Worker = {w1, w2}
    Batches <- AllBatches
    EnableSenderGroup = TRUE
    EnableSqlSupport = TRUE
    MaxTx = 3
    MaxHeight = 1
    MaxHalts = 0
INVARIANTS SenderOrder CompleteUnlessCut
 
CHECK_DEADLOCK FALSE
