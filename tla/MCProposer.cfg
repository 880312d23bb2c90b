SPECIFICATION ProposingSpec
CONSTANTS
    Tx <- DagTxs
    Contract = {1}
    AccountManager = 0
    Key = {"a", "b"}
    Val <- MCVal
    NoWrite = NoWrite
    NoRWSet = NoRWSet
    NoEntry = NoEntry
    RunVM <- MCRunVM
    constructKey <- MCConstructKey
    UsesIterator <- MCUsesIterator
    LocOrder <- MCLocOrder
    Batches <- AllBatches
    MaxTx = 3
    LastProposer = 2
    r1 = r1
    r2 = r2
    Round = {r1, r2}
    ProposerConfigs <- MCProposerConfigs
 
INVARIANT OneRound
INVARIANT OneProposing
INVARIANT TimerNotLost
 
PROPERTY RoundsEnd
PROPERTY KeepsProposing
CHECK_DEADLOCK FALSE
