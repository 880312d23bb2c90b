-------------------------- MODULE BlockValidation --------------------------
(***************************************************************************)
(* What the verifier checks of a block before it may be cached and voted   *)
(* for: core/common/block_helper.go and core/common/tx_helper.go, and the  *)
(* two verifiers' own validateBlock.  Every check is a predicate of the    *)
(* header hd, the body txs, the parent and the verification mode; a        *)
(* verdict is "ok", "reject", or "rwset" when a transaction's results      *)
(* differ from the ones in the block.                                      *)
(***************************************************************************)
EXTENDS CoreData

CONSTANTS TimestampVerify,   \* chain config Block.BlockTimestampVerify
          OptimizeChargeGas, \* a block may end with one gas transaction
          CanProposeEmpty    \* the consensus type admits empty blocks

ASSUME {TimestampVerify, OptimizeChargeGas, CanProposeEmpty} \subseteq BOOLEAN

IsTxCountValid(hd) == hd.bad # "count"

IsHeightValid(hd, proposedHeight) == proposedHeight + 1 = hd.height

IsPreHashValid(hd, lastHash) == hd.pre = lastHash

IsBlockHashValid(hd) == BlockHash(hd) = CalcBlockHash(hd)

IsTxDuplicate(txs) == \E i, j \in DOMAIN txs : i # j /\ txs[i] = txs[j]

IsMerkleRootValid(hd, txs) == hd.txs = txs /\ hd.bad # "txroot"

IsDagHashValid(hd) == hd.bad # "dag"

IsRWSetHashValid(hd) == hd.bad # "rwset"

VerifyBlockSig(hd) == hd.bad # "sig"

(* The three digests, in the order CheckBlockDigests compares them.        *)
CheckBlockDigests(hd, txs) ==
  IsMerkleRootValid(hd, txs) /\ IsDagHashValid(hd) /\ IsRWSetHashValid(hd)

CheckVacuumBlock(txs) == Len(txs) = 0 => CanProposeEmpty

CheckPreBlock(hd, last) ==
  IsHeightValid(hd, last.height) /\ IsPreHashValid(hd, BlockHash(last))

(* timely: the block's timestamp is within Block.BlockTimeout of the clock.*)
verifyBlockTimestamp(mode, timely) ==
  (TimestampVerify /\ mode = "consensus") => timely

(* capacity is chain config Block.BlockTxCapacity.                         *)
TxCapacity(capacity) == IF OptimizeChargeGas THEN capacity + 1 ELSE capacity

-----------------------------------------------------------------------------
(* Transactions.  inPool: the pool's copy exists; onChain: the filter's    *)
(* answer.  A transaction the pool holds is only compared with the pool's  *)
(* copy during consensus, because the pool checked it when it came in.     *)

ValidateTx(tx, mode, inPool, onChain) ==
  (mode = "consensus" /\ tx \in inPool) \/ tx \notin onChain

verifierTxsWithoutResult(txs, mode, inPool, onChain) ==
  \A i \in DOMAIN txs : ValidateTx(txs[i], mode, inPool, onChain)

(* The transactions whose own results differ from the block's: res is what *)
(* this node computed, hd.res what the proposer did.  differ names the     *)
(* transactions that two executions need not agree on.                     *)
RwSetVerifyFailTxs(hd, txs, res, differ) ==
  IF hd.res = res THEN {} ELSE TxSet(txs) \cap differ

verifierTxs(hd, txs, mode, res, differ, inPool, onChain) ==
  IF ~ \A i \in DOMAIN txs : ValidateTx(txs[i], mode, inPool, onChain) THEN "reject"
  ELSE IF RwSetVerifyFailTxs(hd, txs, res, differ) # {} THEN "rwset"
  ELSE IF hd.res # res THEN "reject"
  ELSE "ok"

(* The read-write sets came with the block: their hashes are put into the  *)
(* transactions and only the roots are compared.                           *)
verifierTxsWithRWSet(hd, res) == hd.res = res

-----------------------------------------------------------------------------
(* The checks before a block is executed; a snapshot exists only after.    *)
BeforeSnapshot(hd, txs, mode, timely) ==
  /\ verifyBlockTimestamp(mode, timely)
  /\ IsBlockHashValid(hd)
  /\ VerifyBlockSig(hd)
  /\ CheckVacuumBlock(txs)

ValidateBlock(hd, txs, mode, timely, res, differ, inPool, onChain) ==
  CASE ~ BeforeSnapshot(hd, txs, mode, timely) -> "reject"
    [] Len(txs) = 0 -> IF CheckBlockDigests(hd, txs) THEN "ok" ELSE "reject"
    [] IsTxDuplicate(txs) -> "reject"
    [] OTHER ->
         LET v == verifierTxs(hd, txs, mode, res, differ, inPool, onChain)
         IN  IF v = "ok" /\ ~ CheckBlockDigests(hd, txs) THEN "reject" ELSE v

(* Nothing is executed and no signature, dag or result digest is compared. *)
ValidateBlockWithoutSimulate(hd, txs, mode, timely, inPool, onChain) ==
  CASE ~ (/\ verifyBlockTimestamp(mode, timely)
          /\ IsBlockHashValid(hd)
          /\ CheckVacuumBlock(txs)) -> "reject"
    [] Len(txs) = 0 -> IF CheckBlockDigests(hd, txs) THEN "ok" ELSE "reject"
    [] IsTxDuplicate(txs) -> "reject"
    [] ~ verifierTxsWithoutResult(txs, mode, inPool, onChain) -> "reject"
    [] OTHER -> IF IsMerkleRootValid(hd, txs) THEN "ok" ELSE "reject"

(* Shared by the two fast-sync validations; only the optimistic one also   *)
(* verifies the proposer's signature.                                      *)
ValidateBlockWithRWSets(hd, txs, res) ==
  IF /\ IsBlockHashValid(hd)
     /\ VerifyBlockSig(hd)
     /\ verifierTxsWithRWSet(hd, res)
     /\ CheckBlockDigests(hd, txs)
  THEN "ok" ELSE "reject"

ValidateBlockWithoutExecuting(hd, txs, res, afterPropose) ==
  IF /\ IsBlockHashValid(hd)
     /\ (~ afterPropose => VerifyBlockSig(hd))
     /\ verifierTxsWithRWSet(hd, res)
     /\ CheckBlockDigests(hd, txs)
  THEN "ok" ELSE "reject"

-----------------------------------------------------------------------------
(* The verifiers' own entry checks.  The deterministic verifier leaves room*)
(* for the gas transaction, the optimistic one does not; the optimistic    *)
(* fast path compares only the parent.                                     *)

FitsOptimistic(hd, txs, last, capacity) ==
  /\ Len(txs) <= capacity
  /\ IsTxCountValid(hd)
  /\ CheckPreBlock(hd, last)

FitsDeterministic(hd, txs, last, capacity) ==
  /\ Len(txs) <= TxCapacity(capacity)
  /\ IsTxCountValid(hd)
  /\ CheckPreBlock(hd, last)
=============================================================================
