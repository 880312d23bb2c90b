SPECIFICATION MCSpec
CONSTANTS
    Tx <- PointTxs
    Contract = {1}
    AccountManager = 0
    Key = {"a", "b", "c"}
    Val <- MCVal
    NoWrite = NoWrite
    NoRWSet = NoRWSet
    RunVM <- MCRunVM
    constructKey <- MCConstructKey
    BatchSize = 3
    Batches <- AllBatches
    MaxHeight = 1
    MaxTx = 3
INVARIANTS AbortRule ReadersFirst RoundSerializable OutcomeDetermined
PROPERTIES RoundsShrinkTheBatch ScheduleReturns
CHECK_DEADLOCK FALSE
