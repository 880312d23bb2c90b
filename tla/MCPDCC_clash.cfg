SPECIFICATION MCSpec
CONSTANTS
    Tx <- ClashTxs
    Contract = {1, 2}
    AccountManager = 0
    Key = {"a"}
    Val <- MCVal
    NoWrite = NoWrite
    NoRWSet = NoRWSet
    RunVM <- MCRunVM
    HighBatchSize = 3
    LowBatchSize = 2
    AdjustMinTxCount = 2
    HighToLowDiff = 1
    LowToHighDiff = 1
    Batches <- AllBatches
    MaxHeight = 1
    MaxTx = 2
PROPERTY Serializable
CHECK_DEADLOCK FALSE
