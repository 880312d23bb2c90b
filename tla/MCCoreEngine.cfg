SPECIFICATION Spec
CONSTANTS
  NoResult = NoResult
  NoHash = NoHash
  BadHash = BadHash
  TimestampVerify = TRUE
  OptimizeChargeGas = FALSE
  CanProposeEmpty = FALSE
  Txs = {t1, t2}
  NonDet = {t2}
  Self = self
  Peer = peer
  Calls = {c1}
  Nested = nested
  Configs <- ConfigsAll
  MaxObj = 2
  MaxStamp = 1
  Defects = {"none"}
  Solo = FALSE
  Turbo = FALSE
 
INVARIANT CommittedOnce
INVARIANT OptimisticHasResults
 
 
INVARIANT CommittedIsForgotten
CHECK_DEADLOCK FALSE
