-------------------------- MODULE SerialScheduler --------------------------
(***************************************************************************)
(* The serial scheduler: one goroutine runs the transactions one after the *)
(* other, while the caller waits for it, for the deadline or for Halt, and *)
(* then seals the snapshot and packs what has been applied.  The goroutine *)
(* is not waited for: it may still be running when the call returns.       *)
(***************************************************************************)
EXTENDS Snapshot

CONSTANT Batches   \* the transaction lists Schedule may be called with

Distinct(s) == \A i, j \in DOMAIN s : s[i] = s[j] => i = j

\* The transaction pool hands out a transaction once.
ASSUME SerialBatchesAssumption ==
    Batches \subseteq {b \in Seq(Tx) : Distinct(b)}

VARIABLES
    pc,          \* the caller
    worker,      \* the goroutine
    txBatch,
    index,       \* of the transaction the goroutine is at
    txExecSeq,   \* of its simulation context
    txRWSet,     \* of its simulation context
    special,     \* its run opened an iterator
    ctx,         \* "open", "deadline" or "cancelled"
    finishC,     \* messages in the channel
    errC,
    failed,      \* handleTxsSerially returned an error (it is only logged)
    blockTxs,    \* block.Txs
    txRWSetMap,
    err          \* the call returned an error

callVars == <<pc, blockTxs, txRWSetMap, err>>
simContext == <<txExecSeq, txRWSet, special>>
workVars == <<worker, index, simContext, failed>>
channels == <<ctx, finishC, errC>>
vars == <<snapshot, callVars, workVars, channels, txBatch>>

NotRun == [reads |-> {}, writes |-> NoWrites, ok |-> FALSE]

\* Mutant: room for one error only.
ErrCapOne == 1

\* One entry for a panic of the goroutine, one for the caller.
ErrCap == 2

Init ==
    /\ NewSnapshot
    /\ txBatch = << >>
    /\ pc = "idle"
    /\ worker = "idle"
    /\ index = 1
    /\ txExecSeq = 0
    /\ txRWSet = NotRun
    /\ special = FALSE
    /\ ctx = "open"
    /\ finishC = 0
    /\ errC = 0
    /\ failed = FALSE
    /\ blockTxs = << >>
    /\ txRWSetMap = [t \in Tx |-> NoRWSet]
    /\ err = FALSE

\* The call comes in and starts its goroutine.
Schedule ==
    /\ pc = "idle"
    /\ txBatch' \in Batches
    /\ pc' = "select"
    /\ worker' = "loop"
    /\ UNCHANGED <<snapshot, channels, index, simContext, failed, blockTxs,
                   txRWSetMap, err>>

-----------------------------------------------------------------------------
(* The goroutine.                                                          *)

tx == txBatch[index]

\* handleTxsSerially comes back, with an error or without.
Return(e) ==
    /\ worker' = "finish"
    /\ failed' = e
    /\ UNCHANGED <<snapshot, callVars, channels, txBatch, index, simContext>>

EndLoop == worker = "loop" /\ index > Len(txBatch) /\ Return(FALSE)

GiveUp ==
    /\ worker = "loop"
    /\ index <= Len(txBatch)
    /\ ctx # "open" \/ sealed
    /\ Return(TRUE)

\* The checks pass; the simulation context is made.
StartTx ==
    /\ worker = "loop"
    /\ index <= Len(txBatch)
    /\ ctx = "open"
    /\ ~sealed
    /\ txExecSeq' = GetSnapshotSize
    /\ worker' = "execute"
    /\ UNCHANGED <<snapshot, callVars, channels, txBatch, index, txRWSet, special, failed>>

Execute ==
    /\ worker = "execute"
    /\ txRWSet' = ExecuteTx(tx, View, IteratorView)
    /\ special' = UsesIterator(tx, View)
    /\ worker' = "apply"
    /\ UNCHANGED <<snapshot, callVars, channels, txBatch, index, txExecSeq, failed>>

\* The recover clause; the error channel has room or the goroutine waits.
Panic ==
    /\ worker = "execute"
    /\ errC < ErrCap
    /\ errC' = errC + 1
    /\ worker' = "finish"
    /\ UNCHANGED <<snapshot, callVars, txBatch, index, simContext, failed, ctx,
                   finishC>>

\* ApplyTxSimContext, applySpecialTx = true: an iterator transaction is not checked.
StartApply ==
    /\ worker = "apply"
    /\ ~special =>
        ~sealed /\ ~Conflicted(txRWSet, txExecSeq)
    /\ worker' = "lock"
    /\ UNCHANGED <<snapshot, callVars, channels, txBatch, index, simContext, failed>>

RefuseEarly ==
    /\ worker = "apply"
    /\ ~special
    /\ sealed \/ Conflicted(txRWSet, txExecSeq)
    /\ Return(TRUE)

ApplyWriteSet ==
    /\ worker = "lock"
    /\ ~special => ~sealed /\ Applicable(txRWSet, txExecSeq)
    /\ PutWrites(txRWSet)
    /\ worker' = "rwset"
    /\ UNCHANGED <<callVars, channels, txBatch, index, simContext, failed>>

RefuseLocked ==
    /\ worker = "lock"
    /\ ~lock
    /\ ~special
    /\ sealed \/ ~Applicable(txRWSet, txExecSeq)
    /\ Return(TRUE)

\* Mutant: the transaction is listed before its read/write set.
ListTxFirst ==
    /\ worker = "rwset"
    /\ txTable' = Append(txTable, tx)
    /\ worker' = "table"
    /\ UNCHANGED <<store, sealed, lock, writeTable, txRWSetTable, callVars, channels,
                   txBatch, index, simContext, failed>>

ListRWSet ==
    /\ worker = "rwset"
    /\ AppendRWSet(tx, txRWSet)
    /\ worker' = "table"
    /\ UNCHANGED <<callVars, channels, txBatch, index, simContext, failed>>

ListTx ==
    /\ worker = "table"
    /\ AppendTx(tx)
    /\ worker' = "loop"
    /\ index' = index + 1
    /\ UNCHANGED <<callVars, channels, txBatch, simContext, failed>>

\* The deferred send: finishC has room for it.
SignalFinish ==
    /\ worker = "finish"
    /\ finishC' = 1
    /\ worker' = "done"
    /\ UNCHANGED <<snapshot, callVars, txBatch, index, simContext, failed, ctx, errC>>

Goroutine ==
    \/ EndLoop \/ GiveUp \/ StartTx \/ Execute \/ Panic
    \/ StartApply \/ RefuseEarly \/ ApplyWriteSet \/ RefuseLocked
    \/ ListRWSet \/ ListTx \/ SignalFinish

-----------------------------------------------------------------------------
(* The caller.                                                             *)

ReceiveFinish ==
    /\ pc = "select"
    /\ finishC = 1
    /\ finishC' = 0
    /\ ctx' = IF ctx = "open" THEN "cancelled" ELSE ctx
    /\ pc' = "seal"
    /\ UNCHANGED <<snapshot, workVars, txBatch, errC, blockTxs, txRWSetMap, err>>

\* context.WithTimeout; the deferred cancel stops the clock.
Deadline ==
    /\ ctx = "open"
    /\ pc \notin {"idle", "done"}
    /\ ctx' = "deadline"
    /\ UNCHANGED <<snapshot, callVars, workVars, txBatch, finishC, errC>>

ReceiveDeadline ==
    /\ pc = "select"
    /\ ctx = "deadline"
    /\ pc' = "seal"
    /\ UNCHANGED <<snapshot, workVars, channels, txBatch, blockTxs, txRWSetMap, err>>

\* Halt does not wait: it is heard only while the caller waits.
Halt ==
    /\ pc = "select"
    /\ ctx' = IF ctx = "open" THEN "cancelled" ELSE ctx
    /\ pc' = "halted"
    /\ UNCHANGED <<snapshot, workVars, txBatch, finishC, errC, blockTxs, txRWSetMap, err>>

ReportHalt ==
    /\ pc = "halted"
    /\ errC < ErrCap
    /\ errC' = errC + 1
    /\ pc' = "seal"
    /\ UNCHANGED <<snapshot, workVars, txBatch, finishC, ctx, blockTxs, txRWSetMap, err>>

SealSnapshot ==
    /\ pc = "seal"
    /\ Seal
    /\ pc' = "errors"
    /\ UNCHANGED <<workVars, channels, txBatch, blockTxs, txRWSetMap, err>>

ReturnError ==
    /\ pc = "errors"
    /\ errC > 0
    /\ errC' = errC - 1
    /\ err' = TRUE
    /\ ctx' = IF ctx = "open" THEN "cancelled" ELSE ctx
    /\ pc' = "done"
    /\ UNCHANGED <<snapshot, workVars, txBatch, finishC, blockTxs, txRWSetMap>>

PackTxs ==
    /\ pc = "errors"
    /\ errC = 0
    /\ blockTxs' = txTable
    /\ pc' = "pack"
    /\ UNCHANGED <<snapshot, workVars, channels, txBatch, txRWSetMap, err>>

PackRWSets ==
    /\ pc = "pack"
    /\ txRWSetMap' = GetTxRWSetTable
    /\ ctx' = IF ctx = "open" THEN "cancelled" ELSE ctx
    /\ pc' = "done"
    /\ UNCHANGED <<snapshot, workVars, txBatch, finishC, errC, blockTxs, err>>

Caller ==
    \/ ReceiveFinish \/ ReceiveDeadline \/ ReportHalt
    \/ SealSnapshot \/ ReturnError \/ PackTxs \/ PackRWSets

Next == Schedule \/ Goroutine \/ Caller \/ Deadline \/ Halt

(***************************************************************************)
(* The caller and the clock go on; nothing is assumed of the contracts,    *)
(* which may run forever.                                                  *)
(***************************************************************************)
Spec == Init /\ [][Next]_vars /\ WF_vars(Caller) /\ WF_vars(Deadline)

-----------------------------------------------------------------------------
(* Properties.                                                             *)

TypeOK ==
    /\ SnapshotTypeOK
    /\ txBatch \in Batches \cup {<< >>}
    /\ pc \in {"idle", "select", "halted", "seal", "errors", "pack", "done"}
    /\ worker \in {"idle", "loop", "execute", "apply", "lock", "rwset", "table",
                   "finish", "done"}
    /\ index \in 1..(Len(txBatch) + 1)
    /\ txExecSeq \in Nat
    /\ txRWSet \in RWSet
    /\ special \in BOOLEAN
    /\ ctx \in {"open", "deadline", "cancelled"}
    /\ finishC \in 0..1
    /\ errC \in 0..ErrCap
    /\ failed \in BOOLEAN
    /\ blockTxs \in Seq(Tx)
    /\ txRWSetMap \in [Tx -> RWSet \cup {NoRWSet}]
    /\ err \in BOOLEAN

(***************************************************************************)
(* Transactions run serially, so none conflicts with another: the          *)
(* goroutine leaves its loop early only when the call was cut short.       *)
(***************************************************************************)
NeverConflicts == failed => sealed \/ ctx # "open"

(***************************************************************************)
(* A call that returns no error and met no deadline has packed the whole   *)
(* batch in its order; one that met its deadline, a prefix of it.  The     *)
(* tables are read without a lock while the goroutine may be adding to     *)
(* them; still no transaction is packed without its read/write set.        *)
(***************************************************************************)
PacksTheBatch ==
    pc = "done" /\ ~err =>
        /\ Len(blockTxs) <= Len(txBatch)
        /\ \A i \in DOMAIN blockTxs :
              blockTxs[i] = txBatch[i] /\ txRWSetMap[blockTxs[i]] # NoRWSet
        /\ ctx # "deadline" => blockTxs = txBatch

(***************************************************************************)
(* The snapshot is filled as by a serial execution of the batch.           *)
(***************************************************************************)
applying == worker \in {"rwset", "table"}
appliedTxs == IF applying THEN Append(txTable, tx) ELSE txTable
appliedSet == {appliedTxs[i] : i \in DOMAIN appliedTxs}

Ledger == INSTANCE SerialLedger WITH
    base    <- store,
    state   <- View,
    pending <- {txBatch[i] : i \in DOMAIN txBatch} \ appliedSet,
    order   <- appliedTxs,
    results <- [t \in Tx |-> IF applying /\ t = tx THEN txRWSet ELSE GetTxRWSetTable[t]]

Serializable == Ledger!LedgerSpec

-----------------------------------------------------------------------------
(* The inductive invariant.                                                *)

\* The tables hold the beginning of the batch; an apply under way is one ahead.
TablesInv ==
    /\ Len(txTable) = index - 1
    /\ \A i \in DOMAIN txTable : txTable[i] = txBatch[i]
    /\ Len(txRWSetTable) = Len(txTable) + IF worker = "table" THEN 1 ELSE 0
    /\ \A i \in DOMAIN txRWSetTable : txRWSetTable[i].tx = txBatch[i]
    /\ worker = "table" => txRWSetTable[index].rwset = txRWSet
    /\ \A k \in FinalKey : writeTable[k] # NoEntry =>
            writeTable[k].seq < Len(txTable) + IF applying THEN 1 ELSE 0

\* Where the goroutine is, and why it stopped.
GoroutineInv ==
    /\ worker \in {"execute", "apply", "lock", "rwset", "table"} =>
            index <= Len(txBatch) /\ txExecSeq = Len(txTable)
    /\ lock <=> applying
    /\ finishC = 1 => worker = "done"
    /\ worker \in {"finish", "done"} /\ ~failed /\ errC = 0 /\ ~err => index > Len(txBatch)
    /\ NeverConflicts

\* Where the caller is, and what it has packed.
CallerInv ==
    /\ pc = "idle" => worker = "idle" /\ index = 1 /\ txBatch = << >> /\ View = store
    /\ sealed => pc \in {"errors", "pack", "done"}
    /\ pc \in {"idle", "select"} => ctx # "cancelled"
    /\ pc \notin {"idle", "select"} => ctx # "open"
    /\ err => pc = "done"
    /\ pc \in {"seal", "errors"} /\ ctx # "deadline" => errC > 0 \/ (worker = "done" /\ ~failed)
    /\ pc \in {"pack", "done"} /\ ~err =>
            /\ Len(blockTxs) <= Len(txTable)
            /\ \A i \in DOMAIN blockTxs : blockTxs[i] = txBatch[i]
            /\ ctx # "deadline" => blockTxs = txBatch
    /\ pc = "done" /\ ~err => \A i \in DOMAIN blockTxs : txRWSetMap[blockTxs[i]] # NoRWSet

\* Iterators see what GetKey sees, unless an apply is under way.
IteratorsInv ==
    NamesTellLocations =>
        View = IF worker = "rwset" THEN ApplyWrites(IteratorView, txRWSet.writes) ELSE IteratorView

\* What is about to be applied is what a run on the current state gives.
ResultInv ==
    (NoIterators \/ NamesTellLocations) /\ worker \in {"apply", "lock"} =>
        txRWSet = ExecuteTx(tx, View, View)

IInv == TypeOK /\ TablesInv /\ GoroutineInv /\ CallerInv

SerialInv == IteratorsInv /\ ResultInv

(***************************************************************************)
(* Schedule returns: at the latest when the deadline has passed, whatever  *)
(* the contract does, and also when Halt and a panic meet.                 *)
(***************************************************************************)
ScheduleReturns == (pc = "select") ~> (pc = "done")

(***************************************************************************)
(* Once the snapshot is sealed, nothing is added to it (the comment on the *)
(* field SnapshotImpl.sealed).                                             *)
(***************************************************************************)
SealedIsFinal == [][sealed => UNCHANGED <<writeTable, txRWSetTable, txTable>>]_vars
=============================================================================
