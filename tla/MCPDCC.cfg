SPECIFICATION MCSpec
CONSTANTS
    Tx <- PointTxs
    Contract = {1}
    AccountManager = 0
    Key = {"a", "b", "c"}
    Val <- MCVal
    NoWrite = NoWrite
    NoRWSet = NoRWSet
    RunVM <- MCRunVM
    HighBatchSize = 3
    LowBatchSize = 2
    AdjustMinTxCount = 2
    HighToLowDiff = 1
    LowToHighDiff = 1
    Batches <- AllBatches
    MaxHeight = 1
    MaxTx = 4
INVARIANTS AbortsExplained OutcomeDetermined RemainingInOrder
PROPERTIES RoundsShrinkTheBatch Serializable ScheduleReturns
CHECK_DEADLOCK FALSE
