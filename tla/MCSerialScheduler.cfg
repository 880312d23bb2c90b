SPECIFICATION Spec
CONSTANTS
    Tx <- SerialTxs
    Contract = {1}
    AccountManager = 0
    Key = {"a", "b"}
    Val <- MCVal
    NoWrite = NoWrite
    NoRWSet = NoRWSet
    NoEntry = NoEntry
    RunVM <- MCRunVM
    constructKey <- MCConstructKey
    UsesIterator <- MCUsesIterator
    Batches <- AllBatches
    MaxTx = 3
INVARIANTS NeverConflicts PacksTheBatch
PROPERTIES Serializable ScheduleReturns
CHECK_DEADLOCK FALSE
