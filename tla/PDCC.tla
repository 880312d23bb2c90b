-------------------------------- MODULE PDCC --------------------------------
(***************************************************************************)
(* The PDCC scheduler (WriaScheduler): one call of Schedule per block, in  *)
(* rounds.  A round takes a prefix of the remaining transactions, runs     *)
(* them concurrently on the same snapshot, aborts those that read a key an *)
(* earlier one of the round wrote, rescues those of them whose every       *)
(* conflicting predecessor was itself aborted, applies the merged writes   *)
(* of the rest and puts the aborted ones back in front.                    *)
(*                                                                         *)
(* The loops of the code that the proofs go through one transaction at a   *)
(* time are one step per transaction here.  Schedule holds the scheduler's *)
(* lock, so nobody sees the states in between.                             *)
(***************************************************************************)
EXTENDS Transactions, Integers, Sequences

CONSTANTS
    HighBatchSize,   \* runtime.NumCPU() * HighBatchSizeMultiplier
    LowBatchSize,    \* runtime.NumCPU() * LowBatchSizeMultiplier
    AdjustMinTxCount, HighToLowDiff, LowToHighDiff,
    Batches,         \* the transaction lists Schedule may be called with
    MaxHeight        \* bound on the number of calls

ASSUME BatchSizeAssumption ==
    /\ HighBatchSize \in Nat \ {0}
    /\ LowBatchSize \in Nat \ {0}

ASSUME AdjustAssumption ==
    AdjustMinTxCount \in Nat /\ HighToLowDiff \in Nat /\ LowToHighDiff \in Nat

ASSUME MaxHeightAssumption == MaxHeight \in Nat

Distinct(s) == \A i, j \in DOMAIN s : s[i] = s[j] => i = j

\* The transaction pool hands out a transaction once.
ASSUME BatchesAssumption ==
    Batches \subseteq {b \in Seq(Tx) : Distinct(b)}

NotRun == [reads |-> {}, writes |-> NoWrites, ok |-> FALSE]

VARIABLES
    pc,            \* where the call is
    height,        \* number of calls of Schedule so far
    store,         \* the committed state below the snapshot
    db,            \* the state as read through the snapshot
    txBatch,       \* remaining transactions
    batchSize,     \* of the scheduler, survives the call
    roundNum,
    selectedTxs,
    executed,      \* indexes whose goroutine has finished
    execInfos,     \* read/write set of each selected transaction
    abortFlags,
    conflictDeps,
    txIndex,       \* loop index of rechecking and of the commit loop
    mergedWrites,
    committedTxs,  \* transactions of this round going into block.Txs
    abortedTxs,
    blockTxs,      \* block.Txs
    txRWSetMap

roundVars == <<selectedTxs, executed, execInfos, abortFlags, conflictDeps,
               txIndex, mergedWrites, committedTxs, abortedTxs>>

vars == <<pc, height, store, db, txBatch, batchSize, roundNum, roundVars,
          blockTxs, txRWSetMap>>

MinNat(a, b) == IF a <= b THEN a ELSE b

-----------------------------------------------------------------------------

Init ==
    /\ pc = "idle"
    /\ height = 0
    /\ store \in State
    /\ db = store
    /\ txBatch = << >>
    /\ batchSize = HighBatchSize
    /\ roundNum = 0
    /\ selectedTxs = << >>
    /\ executed = {}
    /\ execInfos = << >>
    /\ abortFlags = << >>
    /\ conflictDeps = << >>
    /\ txIndex = 1
    /\ mergedWrites = NoWrites
    /\ committedTxs = << >>
    /\ abortedTxs = << >>
    /\ blockTxs = << >>
    /\ txRWSetMap = [t \in Tx |-> NoRWSet]

(***************************************************************************)
(* Schedule is called with the transactions of a proposed block and the    *)
(* snapshot of its predecessor.  The previous block either was committed   *)
(* or is given up, in which case the next one starts from the same state.  *)
(***************************************************************************)
Schedule ==
    /\ pc = "idle"
    /\ height < MaxHeight
    /\ height' = height + 1
    /\ \E base \in {store, db} : store' = base /\ db' = base
    /\ txBatch' \in Batches
    /\ txRWSetMap' = [t \in Tx |-> NoRWSet]
    /\ blockTxs' = << >>
    /\ roundNum' = 0
    /\ pc' = "round"
    /\ UNCHANGED <<batchSize, roundVars>>

\* Phase 1, deterministic selection.
Select ==
    /\ pc = "round"
    /\ txBatch # << >>
    /\ roundNum' = roundNum + 1
    /\ LET n == MinNat(batchSize, Len(txBatch)) IN
        /\ selectedTxs' = SubSeq(txBatch, 1, n)
        /\ txBatch' = SubSeq(txBatch, n + 1, Len(txBatch))
        /\ execInfos' = [i \in 1..n |-> NotRun]
        /\ abortFlags' = [i \in 1..n |-> FALSE]
        /\ conflictDeps' = [i \in 1..n |-> {}]
    /\ executed' = {}
    /\ txIndex' = 1
    /\ mergedWrites' = NoWrites
    /\ committedTxs' = << >>
    /\ abortedTxs' = << >>
    /\ pc' = "execute"
    /\ UNCHANGED <<height, store, db, batchSize, blockTxs, txRWSetMap>>

\* Mutant: the goroutine of a failing transaction returns without wg.Done().
ExecuteIfOk(i) ==
    /\ pc = "execute"
    /\ i \notin executed
    /\ ExecuteTx(selectedTxs[i], db, store).ok
    /\ execInfos' = [execInfos EXCEPT ![i] = ExecuteTx(selectedTxs[i], db, store)]
    /\ executed' = executed \cup {i}
    /\ UNCHANGED <<pc, height, store, db, txBatch, batchSize, roundNum,
                   selectedTxs, abortFlags, conflictDeps, txIndex,
                   mergedWrites, committedTxs, abortedTxs, blockTxs, txRWSetMap>>

\* Phase 2: the goroutine of transaction i finishes.
Execute(i) ==
    /\ pc = "execute"
    /\ i \notin executed
    /\ execInfos' = [execInfos EXCEPT ![i] = ExecuteTx(selectedTxs[i], db, store)]
    /\ executed' = executed \cup {i}
    /\ UNCHANGED <<pc, height, store, db, txBatch, batchSize, roundNum,
                   selectedTxs, abortFlags, conflictDeps, txIndex,
                   mergedWrites, committedTxs, abortedTxs, blockTxs, txRWSetMap>>

\* Phases 3 and 4: masterWS[k] is the versions of key name k, in ascending order.
masterWS(k) ==
    {i \in DOMAIN selectedTxs : \E c \in Contract : Writes(execInfos[i], <<c, k>>)}

\* The predecessors of the round that wrote a key transaction i read.
isRAWConflictWithDeps(i) ==
    {j \in DOMAIN selectedTxs :
        j < i /\ \E r \in execInfos[i].reads : j \in masterWS(r[2])}

\* Mutant: phase 5 without wg.Wait().
DetectWithoutWait ==
    /\ pc = "execute"
    /\ conflictDeps' = [i \in DOMAIN selectedTxs |-> isRAWConflictWithDeps(i)]
    /\ abortFlags' = [i \in DOMAIN selectedTxs |-> isRAWConflictWithDeps(i) # {}]
    /\ pc' = "recheck"
    /\ UNCHANGED <<height, store, db, txBatch, batchSize, roundNum, selectedTxs,
                   executed, execInfos, txIndex, mergedWrites, committedTxs,
                   abortedTxs, blockTxs, txRWSetMap>>

\* Phase 5, after wg.Wait().
DetectConflicts ==
    /\ pc = "execute"
    /\ executed = DOMAIN selectedTxs
    /\ conflictDeps' = [i \in DOMAIN selectedTxs |-> isRAWConflictWithDeps(i)]
    /\ abortFlags' = [i \in DOMAIN selectedTxs |-> isRAWConflictWithDeps(i) # {}]
    /\ pc' = "recheck"
    /\ UNCHANGED <<height, store, db, txBatch, batchSize, roundNum, selectedTxs,
                   executed, execInfos, txIndex, mergedWrites, committedTxs,
                   abortedTxs, blockTxs, txRWSetMap>>

\* Mutant: one aborted predecessor is enough for a rescue.
recheckAnyAborted(i) == \E j \in conflictDeps[i] : abortFlags[j]

recheckTransaction(i) == \A j \in conflictDeps[i] : abortFlags[j]

\* Phase 6, one transaction of the rechecking loop.
Recheck ==
    /\ pc = "recheck"
    /\ txIndex <= Len(selectedTxs)
    /\ abortFlags' = [abortFlags EXCEPT ![txIndex] =
                        abortFlags[txIndex] /\ ~recheckTransaction(txIndex)]
    /\ txIndex' = txIndex + 1
    /\ UNCHANGED <<pc, height, store, db, txBatch, batchSize, roundNum,
                   selectedTxs, executed, execInfos, conflictDeps, mergedWrites,
                   committedTxs, abortedTxs, blockTxs, txRWSetMap>>

RecheckDone ==
    /\ pc = "recheck"
    /\ txIndex > Len(selectedTxs)
    /\ txIndex' = 1
    /\ pc' = "commit"
    /\ UNCHANGED <<height, store, db, txBatch, batchSize, roundNum, selectedTxs,
                   executed, execInfos, abortFlags, conflictDeps, mergedWrites,
                   committedTxs, abortedTxs, blockTxs, txRWSetMap>>

\* Mutant: the first writer of a key name keeps its entry.
MergeFirstWins(merged, w) ==
    [l \in Loc |-> IF merged[l] = NoWrite THEN w[l] ELSE merged[l]]

(***************************************************************************)
(* mergedWrites is a map from key names to writes: entering the writes of  *)
(* one transaction, in the order of their contracts, replaces the entry of *)
(* the key name whatever contract it belongs to.  The map is represented   *)
(* by the locations it would write.                                        *)
(***************************************************************************)
MergeInto(merged, w) ==
    [l \in Loc |->
        LET writers == {c \in Contract : w[<<c, l[2]>>] # NoWrite} IN
        IF writers = {} THEN merged[l]
        ELSE IF l[1] \in writers /\ \A c \in writers : c <= l[1] THEN w[l]
        ELSE NoWrite]

(***************************************************************************)
(* Phases 7 and 8 for one transaction.  The two loops of the code visit    *)
(* the transactions in the same order with the same flags.                 *)
(***************************************************************************)
Commit ==
    /\ pc = "commit"
    /\ txIndex <= Len(selectedTxs)
    /\ ~abortFlags[txIndex]
    /\ LET t == selectedTxs[txIndex]
           rwset == execInfos[txIndex]
       IN /\ txRWSetMap' = [txRWSetMap EXCEPT ![t] = rwset]
          /\ mergedWrites' = MergeInto(mergedWrites, rwset.writes)
          /\ committedTxs' = Append(committedTxs, t)
    /\ txIndex' = txIndex + 1
    /\ UNCHANGED <<pc, height, store, db, txBatch, batchSize, roundNum,
                   selectedTxs, executed, execInfos, abortFlags, conflictDeps,
                   abortedTxs, blockTxs>>

Abort ==
    /\ pc = "commit"
    /\ txIndex <= Len(selectedTxs)
    /\ abortFlags[txIndex]
    /\ abortedTxs' = Append(abortedTxs, selectedTxs[txIndex])
    /\ txIndex' = txIndex + 1
    /\ UNCHANGED <<pc, height, store, db, txBatch, batchSize, roundNum,
                   selectedTxs, executed, execInfos, abortFlags, conflictDeps,
                   mergedWrites, committedTxs, blockTxs, txRWSetMap>>

\* Mutant: the aborted transactions go to the end of txBatch.
EndRoundAppending ==
    /\ pc = "commit"
    /\ txIndex > Len(selectedTxs)
    /\ db' = ApplyWrites(db, mergedWrites)
    /\ blockTxs' = blockTxs \o committedTxs
    /\ txBatch' = txBatch \o abortedTxs
    /\ selectedTxs' = << >>
    /\ executed' = {}
    /\ execInfos' = << >>
    /\ abortFlags' = << >>
    /\ conflictDeps' = << >>
    /\ txIndex' = 1
    /\ mergedWrites' = NoWrites
    /\ committedTxs' = << >>
    /\ abortedTxs' = << >>
    /\ pc' = "round"
    /\ UNCHANGED <<height, store, batchSize, roundNum, txRWSetMap>>

\* Mutant: every selected transaction goes back.
EndRoundKeepingAll ==
    /\ pc = "commit"
    /\ txIndex > Len(selectedTxs)
    /\ db' = ApplyWrites(db, mergedWrites)
    /\ blockTxs' = blockTxs \o committedTxs
    /\ txBatch' = selectedTxs \o txBatch
    /\ selectedTxs' = << >>
    /\ executed' = {}
    /\ execInfos' = << >>
    /\ abortFlags' = << >>
    /\ conflictDeps' = << >>
    /\ txIndex' = 1
    /\ mergedWrites' = NoWrites
    /\ committedTxs' = << >>
    /\ abortedTxs' = << >>
    /\ pc' = "round"
    /\ UNCHANGED <<height, store, batchSize, roundNum, txRWSetMap>>

\* The end of phases 7 and 8: the merged writes reach the snapshot, the
\* committed transactions the block, the aborted ones the head of txBatch.
EndRound ==
    /\ pc = "commit"
    /\ txIndex > Len(selectedTxs)
    /\ db' = ApplyWrites(db, mergedWrites)
    /\ blockTxs' = blockTxs \o committedTxs
    /\ txBatch' = abortedTxs \o txBatch
    /\ selectedTxs' = << >>
    /\ executed' = {}
    /\ execInfos' = << >>
    /\ abortFlags' = << >>
    /\ conflictDeps' = << >>
    /\ txIndex' = 1
    /\ mergedWrites' = NoWrites
    /\ committedTxs' = << >>
    /\ abortedTxs' = << >>
    /\ pc' = "round"
    /\ UNCHANGED <<height, store, batchSize, roundNum, txRWSetMap>>

CeilDiv(a, b) == (a + b - 1) \div b

adjustBatchSize(size, txCount, rounds) ==
    LET diff == rounds - CeilDiv(txCount, size) IN
    IF txCount < AdjustMinTxCount THEN size
    ELSE IF size = HighBatchSize
         THEN IF diff >= HighToLowDiff THEN LowBatchSize ELSE size
    ELSE IF size = LowBatchSize
         THEN IF diff < LowToHighDiff THEN HighBatchSize ELSE size
    ELSE size

\* The loop ends: nothing remains.
Finish ==
    /\ pc = "round"
    /\ txBatch = << >>
    /\ batchSize' = adjustBatchSize(batchSize, Len(blockTxs), roundNum)
    /\ pc' = "idle"
    /\ UNCHANGED <<height, store, db, txBatch, roundNum, roundVars, blockTxs,
                   txRWSetMap>>

\* The loop ends: more than ScheduleTimeout seconds have passed.  The round
\* that did not start is counted; the remaining transactions are dropped.
Timeout ==
    /\ pc = "round"
    /\ txBatch # << >>
    /\ roundNum' = roundNum + 1
    /\ batchSize' = adjustBatchSize(batchSize, Len(blockTxs), roundNum + 1)
    /\ pc' = "idle"
    /\ UNCHANGED <<height, store, db, txBatch, roundVars, blockTxs, txRWSetMap>>

Next ==
    \/ Schedule
    \/ Select
    \/ \E i \in DOMAIN selectedTxs : Execute(i)
    \/ DetectConflicts
    \/ Recheck
    \/ RecheckDone
    \/ Commit
    \/ Abort
    \/ EndRound
    \/ Finish
    \/ Timeout

Spec == Init /\ [][Next]_vars

(***************************************************************************)
(* The goroutines of a round are runnable and the loops of Schedule run    *)
(* without waiting for anybody.  Nothing makes a caller call Schedule, and *)
(* no timeout is needed for a call to return.                              *)
(***************************************************************************)
Step ==
    \/ Select
    \/ \E i \in DOMAIN selectedTxs : Execute(i)
    \/ DetectConflicts
    \/ Recheck
    \/ RecheckDone
    \/ Commit
    \/ Abort
    \/ EndRound
    \/ Finish

FairSpec == Spec /\ WF_vars(Step)

-----------------------------------------------------------------------------

Elements(s) == {s[i] : i \in DOMAIN s}

\* Types, and the shape of the round's arrays.
TypeOK ==
    /\ pc \in {"idle", "round", "execute", "recheck", "commit"}
    /\ height \in Nat
    /\ store \in State
    /\ db \in State
    /\ txBatch \in Seq(Tx)
    /\ batchSize \in {HighBatchSize, LowBatchSize}
    /\ roundNum \in Nat
    /\ selectedTxs \in Seq(Tx)
    /\ executed \in SUBSET DOMAIN selectedTxs
    /\ execInfos \in [DOMAIN selectedTxs -> RWSet]
    /\ abortFlags \in [DOMAIN selectedTxs -> BOOLEAN]
    /\ conflictDeps \in [DOMAIN selectedTxs -> SUBSET DOMAIN selectedTxs]
    /\ txIndex \in 1..(Len(selectedTxs) + 1)
    /\ mergedWrites \in WriteSet
    /\ committedTxs \in Seq(Tx)
    /\ abortedTxs \in Seq(Tx)
    /\ blockTxs \in Seq(Tx)
    /\ txRWSetMap \in [Tx -> RWSet \cup {NoRWSet}]

(***************************************************************************)
(* The outcome of rechecking: a transaction of the round is put back       *)
(* exactly when an earlier transaction that is committed wrote a key name  *)
(* it read.  A rescue never lets a stale read through, and no transaction  *)
(* is aborted on account of one that was itself aborted.                   *)
(***************************************************************************)
AbortsExplained ==
    pc = "commit" =>
        \A i \in DOMAIN selectedTxs :
            abortFlags[i] <=> \E j \in isRAWConflictWithDeps(i) : ~abortFlags[j]

(***************************************************************************)
(* The inductive invariant, in parts.                                      *)
(***************************************************************************)

RunsRecorded ==
    /\ \A i \in executed : execInfos[i] = ExecuteTx(selectedTxs[i], db, store)
    /\ pc \in {"recheck", "commit"} => executed = DOMAIN selectedTxs

RoundShape ==
    /\ pc \in {"idle", "round"} <=> selectedTxs = << >>
    /\ pc = "execute" => txIndex = 1
    /\ pc # "commit" => /\ mergedWrites = NoWrites
                        /\ committedTxs = << >>
                        /\ abortedTxs = << >>
    /\ pc = "commit" => /\ Len(committedTxs) + Len(abortedTxs) = txIndex - 1
                        /\ txIndex > 1 => Len(committedTxs) > 0

\* What rechecking has settled, and what it has yet to look at.
FlagsSettled ==
    pc \in {"recheck", "commit"} =>
        \A i \in DOMAIN selectedTxs :
            /\ conflictDeps[i] = isRAWConflictWithDeps(i)
            /\ pc = "commit" \/ i < txIndex =>
                  (abortFlags[i] <=> \E j \in conflictDeps[i] : ~abortFlags[j])
            /\ pc = "recheck" /\ i >= txIndex =>
                  (abortFlags[i] <=> conflictDeps[i] # {})

MergedByCommitted ==
    \A l \in Loc : mergedWrites[l] # NoWrite =>
        \E j \in DOMAIN selectedTxs :
            j < txIndex /\ ~abortFlags[j] /\ Writes(execInfos[j], l)

NoTxTwice ==
    /\ Distinct(txBatch) /\ Distinct(selectedTxs) /\ Distinct(abortedTxs)
    /\ \A i \in DOMAIN txBatch, j \in DOMAIN selectedTxs : txBatch[i] # selectedTxs[j]
    /\ \A i \in DOMAIN abortedTxs : \E j \in DOMAIN selectedTxs :
            j < txIndex /\ abortedTxs[i] = selectedTxs[j]

IInv ==
    TypeOK /\ RunsRecorded /\ RoundShape /\ FlagsSettled /\ MergedByCommitted
        /\ NoTxTwice

(***************************************************************************)
(* Every round commits a transaction, so the loop of Schedule needs no     *)
(* timeout to end: fewer transactions remain after a round than before.    *)
(***************************************************************************)
RoundsShrinkTheBatch ==
    [][pc = "commit" /\ pc' = "round"
        => Len(txBatch') < Len(selectedTxs) + Len(txBatch)]_vars

\* Schedule returns, whatever the conflicts among its transactions.
ScheduleReturns == pc = "round" ~> pc = "idle"

(***************************************************************************)
(* The serial execution the round so far amounts to: the committed         *)
(* transactions have run, their merged writes are on top of the snapshot.  *)
(***************************************************************************)
Pending ==
    Elements(txBatch) \cup Elements(abortedTxs)
        \cup {selectedTxs[i] : i \in {j \in DOMAIN selectedTxs :
                                        pc = "commit" => j >= txIndex}}

Ledger == INSTANCE SerialLedger
            WITH base    <- store,
                 state   <- ApplyWrites(db, mergedWrites),
                 pending <- Pending,
                 order   <- blockTxs \o committedTxs,
                 results <- txRWSetMap

(***************************************************************************)
(* Schedule implements a serial execution in the order of block.Txs: each  *)
(* committed transaction has the read/write set and the result it would    *)
(* have had in that order, the snapshot ends in the state of the serial    *)
(* execution, and no transaction is lost or run twice.                     *)
(***************************************************************************)
Serializable == Ledger!LedgerSpec
=============================================================================
