SPECIFICATION Spec
CONSTANTS
    Tx <- OccTxs
    Contract = {1}
    AccountManager = 0
    Key = {"a", "b"}
    Val <- MCVal
    NoWrite = NoWrite
    NoRWSet = NoRWSet
    NoEntry = NoEntry
    RunVM <- MCRunVM
    constructKey <- MCConstructKey
    UsesIterator <- MCUsesIterator
    LocOrder <- MCLocOrder
    Sender <- MCSender
    Worker = {w1, w2}
    Batches <- UnorderedBatches
    EnableSenderGroup = FALSE
    EnableSqlSupport = FALSE
    MaxTx = 3
    MaxHeight = 2
    MaxHalts = 1
SYMMETRY WorkerSymmetry
INVARIANT BlockIsConsistent
PROPERTIES Serializable
CHECK_DEADLOCK FALSE
