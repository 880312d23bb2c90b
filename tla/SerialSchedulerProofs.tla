----------------------- MODULE SerialSchedulerProofs -----------------------
(***************************************************************************)
(* Proofs about the serial scheduler, for any contracts and any batch.     *)
(***************************************************************************)
EXTENDS SerialScheduler, SnapshotProofs

-----------------------------------------------------------------------------
(* Type correctness.                                                       *)

LEMMA BatchType ==
    ASSUME TypeOK
    PROVE  txBatch \in Seq(Tx) /\ Distinct(txBatch) /\ Len(txBatch) \in Nat
                /\ DOMAIN txBatch = 1..Len(txBatch)
<1>1. CASE txBatch = << >>
    BY <1>1 DEF Distinct
<1>2. CASE txBatch \in Batches
    BY <1>2, SerialBatchesAssumption
<1> QED
    BY <1>1, <1>2 DEF TypeOK

LEMMA NotRunType == NotRun \in RWSet
BY DEF NotRun, RWSet, NoWrites, WriteSet

LEMMA InitType == Init => TypeOK
<1> SUFFICES ASSUME Init PROVE TypeOK
    OBVIOUS
<1>1. SnapshotTypeOK
    BY NewSnapshotType DEF Init
<1>2. /\ txRWSetMap \in [Tx -> RWSet \cup {NoRWSet}] /\ blockTxs \in Seq(Tx)
      /\ txRWSet \in RWSet /\ errC \in 0..ErrCap /\ index \in 1..(Len(txBatch) + 1)
    BY NotRunType DEF Init, ErrCap
<1>3. special \in BOOLEAN /\ failed \in BOOLEAN /\ err \in BOOLEAN
    BY Zenon DEF Init
<1>4. txExecSeq \in Nat /\ finishC \in 0..1
    BY DEF Init
<1>5. /\ txBatch \in Batches \cup {<< >>}
      /\ pc = "idle" /\ worker = "idle" /\ ctx = "open"
    BY DEF Init
<1> QED
    BY <1>1, <1>2, <1>3, <1>4, <1>5 DEF TypeOK

\* A step of the goroutine that only moves it keeps the types.
LEMMA NextType ==
    ASSUME IInv, [Next]_vars
    PROVE  TypeOK'
<1>0. /\ TypeOK /\ SnapshotTypeOK /\ txBatch \in Seq(Tx) /\ Len(txBatch) \in Nat
      /\ DOMAIN txBatch = 1..Len(txBatch)
    BY BatchType DEF IInv, TypeOK
<1>t. worker \in {"execute", "apply", "lock", "rwset", "table"} =>
            index \in 1..Len(txBatch) /\ tx \in Tx
    BY <1>0 DEF IInv, TypeOK, GoroutineInv, tx
<1>1. CASE Schedule
    <2>1. index = 1 /\ txBatch' \in Seq(Tx) /\ Len(txBatch') \in Nat
        BY <1>1, SerialBatchesAssumption DEF Schedule, IInv, CallerInv
    <2>2. index' \in 1..(Len(txBatch') + 1)
        BY <1>1, <2>1 DEF Schedule
    <2> QED
        BY <1>0, <1>1, <2>2 DEF Schedule, TypeOK, SnapshotTypeOK, snapshot, channels, simContext
<1>2. CASE EndLoop \/ GiveUp \/ StartTx \/ Panic \/ StartApply \/ RefuseEarly \/ RefuseLocked
            \/ SignalFinish
    <2>1. UNCHANGED snapshot /\ UNCHANGED <<txBatch, index, callVars, ctx, txRWSet, special>>
        BY <1>2 DEF EndLoop, GiveUp, StartTx, Panic, StartApply, RefuseEarly, RefuseLocked,
                    SignalFinish, Return, simContext, channels
    <2>2. SnapshotTypeOK'
        BY <1>0, <2>1 DEF SnapshotTypeOK, snapshot
    <2>3. txExecSeq' \in Nat /\ finishC' \in 0..1 /\ errC' \in 0..ErrCap
        BY <1>0, <1>2 DEF EndLoop, GiveUp, StartTx, Panic, StartApply, RefuseEarly, RefuseLocked,
                    SignalFinish, Return, simContext, channels, TypeOK, ErrCap, GetSnapshotSize,
                    SnapshotTypeOK
    <2>4. failed' \in BOOLEAN /\ worker' \in {"execute", "lock", "finish", "done"}
        BY <1>0, <1>2 DEF EndLoop, GiveUp, StartTx, Panic, StartApply, RefuseEarly, RefuseLocked,
                    SignalFinish, Return, TypeOK
    <2> QED
        BY <1>0, <2>1, <2>2, <2>3, <2>4 DEF TypeOK, callVars
<1>3. CASE Execute
    <2>1. tx \in Tx /\ View \in State /\ IteratorView \in State
        BY <1>0, <1>3, <1>t, ViewType, IteratorViewType DEF Execute
    <2>2. txRWSet' \in RWSet
        BY <1>3, <2>1, ExecuteTxType DEF Execute
    <2>3. special' \in BOOLEAN
        BY <1>3, <2>1, UsesIteratorType DEF Execute
    <2> QED
        BY <1>0, <1>3, <2>2, <2>3 DEF Execute, TypeOK, SnapshotTypeOK, snapshot, channels, callVars
<1>4. CASE ApplyWriteSet
    <2>1. writeTable' \in [FinalKey -> SV \cup {NoEntry}]
        BY <1>0, <1>4, FinalWriteKvsType DEF ApplyWriteSet, PutWrites, TypeOK
    <2> QED
        BY <1>0, <1>4, <2>1 DEF ApplyWriteSet, PutWrites, TypeOK, SnapshotTypeOK, channels,
                                callVars, simContext
<1>5. CASE ListRWSet
    <2>1. tx \in Tx /\ txRWSet \in RWSet
        BY <1>0, <1>5, <1>t DEF ListRWSet, TypeOK
    <2>2. txRWSetTable' \in Seq([tx : Tx, rwset : RWSet])
        BY <1>0, <1>5, <2>1 DEF ListRWSet, AppendRWSet, SnapshotTypeOK
    <2> QED
        BY <1>0, <1>5, <2>2 DEF ListRWSet, AppendRWSet, TypeOK, SnapshotTypeOK, channels,
                                callVars, simContext
<1>6. CASE ListTx
    <2>1. tx \in Tx /\ index + 1 \in 1..(Len(txBatch) + 1)
        BY <1>0, <1>6, <1>t DEF ListTx
    <2>2. txTable' \in Seq(Tx)
        BY <1>0, <1>6, <2>1 DEF ListTx, AppendTx, SnapshotTypeOK
    <2> QED
        BY <1>0, <1>6, <2>1, <2>2 DEF ListTx, AppendTx, TypeOK, SnapshotTypeOK, channels,
                                callVars, simContext
<1>7. CASE ReceiveFinish \/ ReceiveDeadline \/ ReportHalt \/ Deadline \/ Halt
    BY <1>0, <1>7 DEF ReceiveFinish, ReceiveDeadline, ReportHalt, Deadline, Halt, ErrCap,
                      TypeOK, SnapshotTypeOK, snapshot, channels, callVars, workVars, simContext
<1>8. CASE SealSnapshot \/ ReturnError
    <2>1. SnapshotTypeOK' /\ UNCHANGED <<workVars, txBatch, finishC, blockTxs, txRWSetMap>>
        BY <1>0, <1>8 DEF SealSnapshot, Seal, ReturnError, SnapshotTypeOK, snapshot, channels
    <2>2. /\ errC' \in 0..ErrCap /\ pc' \in {"errors", "done"}
          /\ ctx' \in {"open", "deadline", "cancelled"}
        BY <1>0, <1>8 DEF SealSnapshot, ReturnError, TypeOK, ErrCap, channels
    <2>3. err' \in BOOLEAN
        BY <1>0, <1>8, Zenon DEF SealSnapshot, ReturnError, TypeOK
    <2> QED
        BY <1>0, <2>1, <2>2, <2>3 DEF TypeOK, workVars, simContext
<1>9. CASE PackTxs \/ PackRWSets
    <2>1. GetTxRWSetTable \in [Tx -> RWSet \cup {NoRWSet}]
        BY <1>0, GetTxRWSetTableType
    <2>2. UNCHANGED snapshot /\ UNCHANGED workVars /\ txBatch' = txBatch
        BY <1>9 DEF PackTxs, PackRWSets
    <2>3. SnapshotTypeOK'
        BY <1>0, <2>2 DEF SnapshotTypeOK, snapshot
    <2>4. /\ blockTxs' \in Seq(Tx) /\ txRWSetMap' \in [Tx -> RWSet \cup {NoRWSet}]
          /\ ctx' \in {"open", "deadline", "cancelled"} /\ pc' \in {"pack", "done"}
          /\ UNCHANGED <<finishC, errC, err>>
        BY <1>0, <1>9, <2>1 DEF PackTxs, PackRWSets, TypeOK, SnapshotTypeOK, channels
    <2> QED
        BY <1>0, <2>2, <2>3, <2>4 DEF TypeOK, workVars, simContext
<1>10. CASE UNCHANGED vars
    BY <1>0, <1>10 DEF TypeOK, SnapshotTypeOK, vars, snapshot, channels, callVars, workVars,
                       simContext
<1> QED
    BY <1>1, <1>2, <1>3, <1>4, <1>5, <1>6, <1>7, <1>8, <1>9, <1>10
       DEF Next, Goroutine, Caller
-----------------------------------------------------------------------------
(* The inductive invariant.                                                *)

\* What the types say about the lengths of the lists.
LEMMA Lengths ==
    ASSUME TypeOK
    PROVE  /\ Len(txTable) \in Nat /\ DOMAIN txTable = 1..Len(txTable)
           /\ Len(txRWSetTable) \in Nat /\ DOMAIN txRWSetTable = 1..Len(txRWSetTable)
           /\ Len(blockTxs) \in Nat /\ DOMAIN blockTxs = 1..Len(blockTxs)
           /\ Len(txBatch) \in Nat /\ DOMAIN txBatch = 1..Len(txBatch)
           /\ index \in 1..(Len(txBatch) + 1) /\ index \in Nat
<1>1. /\ txTable \in Seq(Tx) /\ blockTxs \in Seq(Tx)
      /\ txRWSetTable \in Seq([tx : Tx, rwset : RWSet])
    BY DEF TypeOK, SnapshotTypeOK
<1>2. index \in 1..(Len(txBatch) + 1)
    BY DEF TypeOK
<1> QED
    BY <1>1, <1>2, BatchType

\* Every entry was written by a transaction before the one that is running.
LEMMA NothingConflicts ==
    ASSUME IInv, worker \in {"apply", "lock"}
    PROVE  ~Conflicted(txRWSet, txExecSeq) /\ Applicable(txRWSet, txExecSeq)
<1>1. /\ TypeOK /\ txExecSeq = Len(txTable) /\ Len(txTable) \in Nat
      /\ ~applying
    BY Lengths DEF IInv, GoroutineInv, applying
<1>2. \A k \in FinalKey : writeTable[k] # NoEntry => writeTable[k].seq < Len(txTable)
    BY <1>1 DEF IInv, TablesInv
<1>3. \A k \in FinalKey : writeTable[k] # NoEntry => writeTable[k].seq \in Nat
    BY <1>1 DEF TypeOK, SnapshotTypeOK, SV
<1>4. \A l \in txRWSet.reads : constructKey(l) \in FinalKey
    BY <1>1 DEF TypeOK, RWSet, FinalKey
<1>5. ~Conflicted(txRWSet, txExecSeq)
    BY <1>1, <1>2, <1>3, <1>4 DEF Conflicted
<1> QED
    BY <1>1, <1>5 DEF Applicable, GetSnapshotSize

LEMMA TablesStep ==
    ASSUME IInv, [Next]_vars
    PROVE  TablesInv'
<1>0. TypeOK /\ SnapshotTypeOK /\ TablesInv
    BY DEF IInv, TypeOK
<1>a. /\ Len(txTable) \in Nat /\ DOMAIN txTable = 1..Len(txTable)
      /\ Len(txRWSetTable) \in Nat /\ DOMAIN txRWSetTable = 1..Len(txRWSetTable)
      /\ index \in Nat /\ Len(txTable) = index - 1
    BY <1>0, Lengths DEF TablesInv
<1>1. CASE Schedule
    <2>1. worker = "idle" /\ index = 1
        BY <1>1 DEF Schedule, IInv, CallerInv
    <2>2. Len(txTable) = 0 /\ Len(txRWSetTable) = 0
        BY <1>0, <1>a, <2>1 DEF TablesInv
    <2>3. DOMAIN txTable = {} /\ DOMAIN txRWSetTable = {}
        BY <1>a, <2>2
    <2>4. UNCHANGED <<txTable, txRWSetTable, writeTable, index>> /\ worker' = "loop"
        BY <1>1 DEF Schedule, snapshot
    <2>5. ~applying /\ ~applying'
        BY <2>1, <2>4 DEF applying
    <2> QED
        BY <1>0, <2>1, <2>2, <2>3, <2>4, <2>5 DEF TablesInv
<1>2. CASE ApplyWriteSet
    <2>1. /\ worker = "lock" /\ worker' = "rwset" /\ writeTable' = FinalWriteKvs(txRWSet)
          /\ UNCHANGED <<txTable, txRWSetTable, index, txBatch>>
        BY <1>2 DEF ApplyWriteSet, PutWrites
    <2>2. ~applying /\ applying'
        BY <2>1 DEF applying
    <2>3. ASSUME NEW k \in FinalKey, writeTable'[k] # NoEntry
          PROVE  writeTable'[k].seq < Len(txTable) + 1
        <3>1. CASE writeTable'[k] = writeTable[k]
            <4>1. writeTable[k].seq < Len(txTable)
                BY <1>0, <2>2, <2>3, <3>1 DEF TablesInv
            <4>2. writeTable[k].seq \in Nat
                BY <1>0, <2>3, <3>1 DEF SnapshotTypeOK, SV
            <4> QED
                BY <1>a, <3>1, <4>1, <4>2
        <3>2. CASE \E l \in Loc : writeTable'[k] = [seq |-> Len(txTable), value |-> txRWSet.writes[l]]
            BY <1>a, <3>2
        <3>3. txRWSet \in RWSet
            BY <1>0 DEF TypeOK
        <3> QED
            BY <1>0, <2>1, <3>1, <3>2, <3>3, FinalWriteKvsEntry
    <2> QED
        BY <1>0, <2>1, <2>2, <2>3 DEF TablesInv
<1>3. CASE ListRWSet
    <2> DEFINE e == [tx |-> tx, rwset |-> txRWSet]
    <2>1. /\ worker = "rwset" /\ worker' = "table" /\ txRWSetTable' = Append(txRWSetTable, e)
          /\ UNCHANGED <<txTable, writeTable, index, txBatch, txRWSet>>
        BY <1>3 DEF ListRWSet, AppendRWSet, simContext
    <2>2. applying /\ applying' /\ Len(txRWSetTable) = index - 1
        BY <1>0, <1>a, <2>1 DEF applying, TablesInv
    <2>3. /\ Len(txRWSetTable') = index /\ DOMAIN txRWSetTable' = 1..index
          /\ txRWSetTable'[index] = e
          /\ \A i \in 1..(index - 1) : txRWSetTable'[i] = txRWSetTable[i]
        <3>1. txRWSetTable \in Seq([tx : Tx, rwset : RWSet])
            BY <1>0 DEF SnapshotTypeOK
        <3> HIDE DEF e
        <3> QED
            BY <1>a, <2>1, <2>2, <3>1
    <2>4. e.tx = txBatch[index] /\ e.rwset = txRWSet
        BY DEF tx
    <2> HIDE DEF e
    <2>5. \A i \in DOMAIN txRWSetTable' : txRWSetTable'[i].tx = txBatch[i]
        BY <1>0, <1>a, <2>2, <2>3, <2>4 DEF TablesInv
    <2> QED
        BY <1>0, <1>a, <2>1, <2>2, <2>3, <2>4, <2>5 DEF TablesInv
<1>4. CASE ListTx
    <2>1. /\ worker = "table" /\ worker' = "loop" /\ txTable' = Append(txTable, tx)
          /\ index' = index + 1 /\ UNCHANGED <<txRWSetTable, writeTable, txBatch, txRWSet>>
        BY <1>4 DEF ListTx, AppendTx, simContext
    <2>2. applying /\ ~applying' /\ Len(txRWSetTable) = index
        BY <1>0, <1>a, <2>1 DEF applying, TablesInv
    <2>3. /\ Len(txTable') = index /\ DOMAIN txTable' = 1..index /\ txTable'[index] = tx
          /\ \A i \in 1..(index - 1) : txTable'[i] = txTable[i]
        <3>1. txTable \in Seq(Tx)
            BY <1>0 DEF SnapshotTypeOK
        <3> QED
            BY <1>a, <2>1, <3>1
    <2>4. \A i \in DOMAIN txTable' : txTable'[i] = txBatch[i]
        BY <1>0, <1>a, <2>3 DEF TablesInv, tx
    <2> QED
        BY <1>0, <1>a, <2>1, <2>2, <2>3, <2>4 DEF TablesInv
<1>5. ASSUME UNCHANGED <<txTable, txRWSetTable, writeTable, index, txBatch>>,
             applying' <=> applying, (worker' = "table") <=> (worker = "table"),
             worker = "table" => txRWSet' = txRWSet
      PROVE  TablesInv'
    BY <1>0, <1>5 DEF TablesInv
<1>6. CASE StartTx \/ Execute \/ StartApply \/ Panic \/ SignalFinish
    <2>1. /\ UNCHANGED <<txTable, txRWSetTable, writeTable, index, txBatch>>
          /\ worker \notin {"rwset", "table"} /\ worker' \notin {"rwset", "table"}
        BY <1>6 DEF StartTx, Execute, StartApply, Panic, SignalFinish, snapshot
    <2> QED
        BY <1>5, <2>1 DEF applying
<1>7. CASE EndLoop \/ GiveUp \/ RefuseEarly \/ RefuseLocked
    <2>1. /\ UNCHANGED <<txTable, txRWSetTable, writeTable, index, txBatch>>
          /\ worker \notin {"rwset", "table"} /\ worker' \notin {"rwset", "table"}
        BY <1>7 DEF EndLoop, GiveUp, RefuseEarly, RefuseLocked, Return, snapshot
    <2> QED
        BY <1>5, <2>1 DEF applying
<1>8. CASE UNCHANGED <<txTable, txRWSetTable, writeTable, workVars, txBatch>>
    BY <1>5, <1>8 DEF applying, workVars, simContext
<1>9. CASE Caller \/ Deadline \/ Halt
    <2>1. UNCHANGED <<txTable, txRWSetTable, writeTable, workVars, txBatch>>
        BY <1>9 DEF Caller, ReceiveFinish, ReceiveDeadline, ReportHalt, Deadline, Halt,
                    SealSnapshot, Seal, ReturnError, PackTxs, PackRWSets, snapshot
    <2> QED
        BY <1>8, <2>1
<1>10. CASE UNCHANGED vars
    BY <1>8, <1>10 DEF vars, snapshot
<1> QED
    BY <1>1, <1>2, <1>3, <1>4, <1>6, <1>7, <1>9, <1>10 DEF Next, Goroutine

\* The goroutine gives up only when it is told to.
LEMMA GoroutineStep ==
    ASSUME IInv, [Next]_vars
    PROVE  GoroutineInv'
<1>0. TypeOK /\ GoroutineInv /\ CallerInv
    BY DEF IInv
<1>a. Len(txBatch) \in Nat /\ index \in Nat /\ Len(txTable) \in Nat /\ errC \in Nat
    BY <1>0, Lengths DEF TypeOK, ErrCap
<1>1. CASE Schedule
    <2>1. /\ worker = "idle" /\ worker' = "loop"
          /\ UNCHANGED <<lock, sealed, ctx, finishC, failed, errC, err>>
        BY <1>0, <1>1 DEF Schedule, CallerInv, snapshot, channels
    <2> QED
        BY <1>0, <2>1 DEF GoroutineInv, applying, NeverConflicts
<1>2. CASE StartTx
    <2>1. /\ worker' = "execute" /\ worker = "loop" /\ index <= Len(txBatch)
          /\ txExecSeq' = Len(txTable)
          /\ UNCHANGED <<lock, sealed, ctx, finishC, failed, errC, err, txTable, index, txBatch>>
        BY <1>2 DEF StartTx, GetSnapshotSize, snapshot, channels, callVars
    <2> QED
        BY <1>0, <2>1 DEF GoroutineInv, applying, NeverConflicts
<1>3. CASE Execute \/ StartApply
    <2>1. /\ worker \in {"execute", "apply"} /\ worker' \in {"apply", "lock"}
          /\ UNCHANGED <<lock, sealed, ctx, finishC, failed, errC, err, txTable, index, txBatch,
                         txExecSeq>>
        BY <1>3 DEF Execute, StartApply, snapshot, channels, callVars, simContext
    <2> QED
        BY <1>0, <2>1 DEF GoroutineInv, applying, NeverConflicts
<1>4. CASE ApplyWriteSet \/ ListRWSet
    <2>1. /\ worker \in {"lock", "rwset"} /\ worker' \in {"rwset", "table"}
          /\ UNCHANGED <<sealed, ctx, finishC, failed, errC, err, txTable, index, txBatch,
                         txExecSeq>>
        BY <1>4 DEF ApplyWriteSet, ListRWSet, PutWrites, AppendRWSet, channels, callVars, simContext
    <2>2. lock'
        BY <1>0, <1>4 DEF ApplyWriteSet, ListRWSet, PutWrites, AppendRWSet, GoroutineInv, applying
    <2> QED
        BY <1>0, <2>1, <2>2 DEF GoroutineInv, applying, NeverConflicts
<1>5. CASE ListTx
    <2>1. /\ worker = "table" /\ worker' = "loop" /\ ~lock'
          /\ UNCHANGED <<sealed, ctx, finishC, failed, errC, err, txBatch>>
        BY <1>5 DEF ListTx, AppendTx, channels, callVars
    <2> QED
        BY <1>0, <2>1 DEF GoroutineInv, applying, NeverConflicts
<1>6. CASE EndLoop
    <2>1. /\ worker = "loop" /\ worker' = "finish" /\ index > Len(txBatch) /\ ~failed'
          /\ UNCHANGED <<lock, sealed, ctx, finishC, errC, err, index, txBatch>>
        BY <1>6 DEF EndLoop, Return, snapshot, channels, callVars
    <2> QED
        BY <1>0, <2>1 DEF GoroutineInv, applying, NeverConflicts
<1>7. CASE GiveUp \/ RefuseEarly \/ RefuseLocked
    <2>1. /\ worker \in {"loop", "apply", "lock"} /\ worker' = "finish" /\ failed'
          /\ UNCHANGED <<lock, sealed, ctx, finishC>>
        BY <1>7 DEF GiveUp, RefuseEarly, RefuseLocked, Return, snapshot, channels
    <2>2. sealed \/ ctx # "open"
        BY <1>7, NothingConflicts DEF GiveUp, RefuseEarly, RefuseLocked
    <2> QED
        BY <1>0, <2>1, <2>2 DEF GoroutineInv, applying, NeverConflicts
<1>8. CASE Panic
    <2>1. /\ worker = "execute" /\ worker' = "finish" /\ errC' > 0
          /\ UNCHANGED <<lock, sealed, ctx, finishC, failed>>
        BY <1>8, <1>a DEF Panic, snapshot
    <2> QED
        BY <1>0, <1>a, <2>1 DEF GoroutineInv, applying, NeverConflicts
<1>9. CASE SignalFinish
    <2>1. /\ worker = "finish" /\ worker' = "done"
          /\ UNCHANGED <<lock, sealed, ctx, failed, errC, err, index, txBatch>>
        BY <1>9 DEF SignalFinish, snapshot, callVars
    <2> QED
        BY <1>0, <2>1 DEF GoroutineInv, applying, NeverConflicts
<1>10. ASSUME UNCHANGED <<workVars, txBatch, txTable, lock>>,
              finishC' = 1 => finishC = 1,
              errC' = 0 /\ ~err' => errC = 0 /\ ~err,
              sealed \/ ctx # "open" => (sealed \/ ctx # "open")'
       PROVE  GoroutineInv'
    BY <1>0, <1>10 DEF GoroutineInv, applying, NeverConflicts, workVars, simContext
<1>11. CASE ReceiveFinish \/ ReceiveDeadline \/ ReportHalt \/ Deadline \/ Halt
    <2>1. /\ UNCHANGED <<workVars, txBatch, txTable, lock, sealed, err>>
          /\ finishC' = 1 => finishC = 1
          /\ errC' = errC \/ errC' = errC + 1
          /\ ctx # "open" => ctx' # "open"
        BY <1>11 DEF ReceiveFinish, ReceiveDeadline, ReportHalt, Deadline, Halt, snapshot,
                     channels, callVars
    <2> QED
        BY <1>10, <1>a, <2>1
<1>12. CASE SealSnapshot \/ ReturnError
    <2>1. /\ UNCHANGED <<workVars, txBatch, txTable, lock, finishC>>
          /\ err' \/ (err' = err /\ errC' = errC)
          /\ ctx # "open" => ctx' # "open"
          /\ sealed => sealed'
        BY <1>12 DEF SealSnapshot, Seal, ReturnError, snapshot, channels, callVars
    <2> QED
        BY <1>10, <2>1
<1>13. CASE PackTxs \/ PackRWSets
    <2>1. /\ UNCHANGED <<workVars, txBatch, txTable, lock, sealed, finishC, err, errC>>
          /\ ctx # "open" => ctx' # "open"
        BY <1>13 DEF PackTxs, PackRWSets, snapshot, channels
    <2> QED
        BY <1>10, <2>1
<1>14. CASE UNCHANGED vars
    BY <1>10, <1>14 DEF vars, snapshot, channels, callVars
<1> QED
    BY <1>1, <1>2, <1>3, <1>4, <1>5, <1>6, <1>7, <1>8, <1>9, <1>11, <1>12, <1>13, <1>14
       DEF Next, Goroutine, Caller

\* What the goroutine does to the caller: the lists grow, no error is taken back.
LEMMA GoroutineKeeps ==
    ASSUME IInv, Goroutine
    PROVE  /\ worker \notin {"idle", "done"}
           /\ UNCHANGED <<callVars, ctx, sealed, txBatch, store>>
           /\ errC' >= errC
           /\ Len(txTable') >= Len(txTable)
<1>0. TypeOK /\ Len(txTable) \in Nat /\ errC \in Nat
    BY Lengths DEF IInv, TypeOK, ErrCap
<1>1. CASE EndLoop \/ GiveUp \/ RefuseEarly \/ RefuseLocked \/ Panic \/ SignalFinish
    BY <1>0, <1>1 DEF EndLoop, GiveUp, RefuseEarly, RefuseLocked, Return, Panic, SignalFinish,
                      snapshot, channels, callVars
<1>2. CASE StartTx \/ Execute \/ StartApply
    BY <1>0, <1>2 DEF StartTx, Execute, StartApply, snapshot, channels, callVars
<1>3. CASE ApplyWriteSet \/ ListRWSet
    BY <1>0, <1>3 DEF ApplyWriteSet, ListRWSet, PutWrites, AppendRWSet, channels, callVars
<1>4. CASE ListTx
    <2>1. txTable' = Append(txTable, tx) /\ txTable \in Seq(Tx) /\ tx \in Tx
        BY <1>0, <1>4, BatchType, Lengths
           DEF ListTx, AppendTx, TypeOK, SnapshotTypeOK, IInv, GoroutineInv, tx
    <2>2. Len(txTable') = Len(txTable) + 1
        BY <2>1
    <2> QED
        BY <1>0, <1>4, <2>2 DEF ListTx, AppendTx, channels, callVars
<1> QED
    BY <1>1, <1>2, <1>3, <1>4 DEF Goroutine

\* Every transaction of txTable has its read/write set in the map.
LEMMA ListedHaveRWSets ==
    ASSUME IInv, NEW i \in DOMAIN txTable
    PROVE  GetTxRWSetTable[txBatch[i]] # NoRWSet
<1>0. TypeOK /\ SnapshotTypeOK /\ TablesInv
    BY DEF IInv, TypeOK
<1>1. i \in DOMAIN txRWSetTable /\ txRWSetTable[i].tx = txBatch[i]
    BY <1>0, Lengths DEF TablesInv
<1>2. txBatch[i] \in Tx
    BY <1>0, <1>1, TableEntryType
<1>3. PICK j \in DOMAIN txRWSetTable : GetTxRWSetTable[txBatch[i]] = txRWSetTable[j].rwset
    BY <1>0, <1>1, <1>2, GetTxRWSetTableEntry
<1> QED
    BY <1>0, <1>3, TableEntryType, NoRWSetAssumption

LEMMA CallerStep ==
    ASSUME IInv, [Next]_vars
    PROVE  CallerInv'
<1>0. TypeOK /\ TablesInv /\ GoroutineInv /\ CallerInv
    BY DEF IInv
<1>a. /\ Len(txTable) \in Nat /\ Len(blockTxs) \in Nat /\ errC \in Nat /\ Len(txBatch) \in Nat
      /\ index \in 1..(Len(txBatch) + 1) /\ Len(txTable) = index - 1
    BY <1>0, Lengths DEF TypeOK, ErrCap, TablesInv
<1>1. CASE Schedule
    <2>1. pc = "idle" /\ pc' = "select" /\ UNCHANGED <<sealed, ctx, err>>
        BY <1>1 DEF Schedule, snapshot, channels
    <2>2. ~sealed /\ ctx # "cancelled" /\ ~err
        BY <1>0, <2>1 DEF CallerInv
    <2> QED
        BY <2>1, <2>2 DEF CallerInv
<1>2. CASE Goroutine
    <2>1. /\ worker \notin {"idle", "done"} /\ UNCHANGED <<callVars, ctx, sealed, txBatch>>
          /\ errC' >= errC /\ Len(txTable') >= Len(txTable)
        BY <1>2, GoroutineKeeps
    <2>2. TypeOK'
        BY NextType
    <2>3. Len(txTable') \in Nat /\ errC' \in Nat
        BY <2>2 DEF TypeOK, SnapshotTypeOK, ErrCap
    <2>4. pc # "idle" /\ UNCHANGED <<pc, blockTxs, txRWSetMap, err>>
        BY <1>0, <2>1 DEF CallerInv, callVars
    <2>5. pc \in {"seal", "errors"} /\ ctx # "deadline" => errC' > 0
        BY <1>0, <1>a, <2>1, <2>3 DEF CallerInv
    <2>6. Len(blockTxs) <= Len(txTable) => Len(blockTxs) <= Len(txTable')
        BY <1>a, <2>1, <2>3
    <2> QED
        BY <1>0, <2>1, <2>4, <2>5, <2>6 DEF CallerInv
<1>3. CASE ReceiveFinish
    <2>1. /\ pc = "select" /\ pc' = "seal" /\ finishC = 1
          /\ ctx' = IF ctx = "open" THEN "cancelled" ELSE ctx
          /\ UNCHANGED <<sealed, worker, failed, err, errC>>
        BY <1>3 DEF ReceiveFinish, snapshot, workVars
    <2>2. worker = "done" /\ ~sealed /\ ctx # "cancelled" /\ ~err
        BY <1>0, <2>1 DEF GoroutineInv, CallerInv
    <2>3. ctx' # "open"
        BY <2>1
    <2>4. ctx' # "deadline" => ~failed
        BY <1>0, <2>1, <2>2 DEF GoroutineInv, NeverConflicts, TypeOK
    <2> QED
        BY <2>1, <2>2, <2>3, <2>4 DEF CallerInv
<1>4. CASE ReceiveDeadline
    <2>1. pc = "select" /\ pc' = "seal" /\ ctx' = "deadline" /\ UNCHANGED <<sealed, err>>
        BY <1>4 DEF ReceiveDeadline, snapshot, channels
    <2> QED
        BY <1>0, <2>1 DEF CallerInv
<1>5. CASE Halt
    <2>1. /\ pc = "select" /\ pc' = "halted" /\ ctx' # "open" /\ UNCHANGED <<sealed, err>>
        BY <1>5 DEF Halt, snapshot
    <2> QED
        BY <1>0, <2>1 DEF CallerInv
<1>6. CASE ReportHalt
    <2>1. pc = "halted" /\ pc' = "seal" /\ errC' > 0 /\ UNCHANGED <<ctx, sealed, err>>
        BY <1>6, <1>a DEF ReportHalt, snapshot
    <2> QED
        BY <1>0, <2>1 DEF CallerInv
<1>7. CASE Deadline
    <2>1. /\ ctx = "open" /\ pc \notin {"idle", "done"} /\ ctx' = "deadline"
          /\ UNCHANGED <<pc, sealed, err>>
        BY <1>7 DEF Deadline, snapshot, callVars
    <2>2. pc = "select"
        BY <1>0, <2>1 DEF CallerInv
    <2> QED
        BY <1>0, <2>1, <2>2 DEF CallerInv
<1>8. CASE SealSnapshot
    <2>1. pc = "seal" /\ pc' = "errors" /\ UNCHANGED <<worker, failed, ctx, errC, err>>
        BY <1>8 DEF SealSnapshot, workVars, channels
    <2> QED
        BY <1>0, <2>1 DEF CallerInv
<1>9. CASE ReturnError
    <2>1. pc = "errors" /\ pc' = "done" /\ err' /\ ctx' # "open"
        BY <1>9 DEF ReturnError
    <2> QED
        BY <2>1 DEF CallerInv
<1>10. CASE PackTxs
    <2>1. /\ pc = "errors" /\ pc' = "pack" /\ errC = 0 /\ blockTxs' = txTable
          /\ UNCHANGED <<txTable, txBatch, ctx, err>>
        BY <1>10 DEF PackTxs, snapshot, channels
    <2>2. ctx # "open" /\ ~err
        BY <1>0, <2>1 DEF CallerInv
    <2>3. \A i \in DOMAIN txTable : txTable[i] = txBatch[i]
        BY <1>0 DEF TablesInv
    <2>4. ASSUME ctx # "deadline" PROVE txTable = txBatch
        <3>1. worker = "done" /\ ~failed
            BY <1>0, <1>a, <2>1, <2>4 DEF CallerInv
        <3>2. index > Len(txBatch)
            BY <1>0, <2>1, <2>2, <3>1 DEF GoroutineInv
        <3>3. Len(txTable) = Len(txBatch)
            BY <1>a, <3>2
        <3>4. txTable \in Seq(Tx) /\ txBatch \in Seq(Tx)
            BY <1>0, BatchType DEF TypeOK, SnapshotTypeOK
        <3> QED
            BY <2>3, <3>3, <3>4
    <2>5. Len(txTable) <= Len(txTable)
        BY <1>a
    <2> QED
        BY <2>1, <2>2, <2>3, <2>4, <2>5 DEF CallerInv
<1>11. CASE PackRWSets
    <2>1. /\ pc = "pack" /\ pc' = "done" /\ txRWSetMap' = GetTxRWSetTable
          /\ ctx' = IF ctx = "open" THEN "cancelled" ELSE ctx
          /\ UNCHANGED <<blockTxs, txTable, txBatch, err>>
        BY <1>11 DEF PackRWSets, snapshot
    <2>2. ctx # "open" /\ ctx' = ctx /\ ~err
        BY <1>0, <2>1 DEF CallerInv
    <2>3. \A i \in DOMAIN blockTxs : i \in DOMAIN txTable /\ blockTxs[i] = txBatch[i]
        BY <1>0, <1>a, <2>1, <2>2, Lengths DEF CallerInv
    <2>4. \A i \in DOMAIN blockTxs : txRWSetMap'[blockTxs[i]] # NoRWSet
        BY <2>1, <2>3, ListedHaveRWSets
    <2> QED
        BY <1>0, <2>1, <2>2, <2>4 DEF CallerInv
<1>12. CASE UNCHANGED vars
    <2>1. UNCHANGED <<pc, worker, index, txBatch, sealed, ctx, err, errC, failed, blockTxs,
                      txTable, txRWSetMap, writeTable, store>>
        BY <1>12 DEF vars, snapshot, callVars, workVars, channels
    <2>2. View' = View
        BY <2>1 DEF View, GetKey
    <2> QED
        BY <1>0, <2>1, <2>2 DEF CallerInv
<1> QED
    BY <1>1, <1>2, <1>3, <1>4, <1>5, <1>6, <1>7, <1>8, <1>9, <1>10, <1>11, <1>12
       DEF Next, Caller

-----------------------------------------------------------------------------
(* The safety properties.                                                  *)

LEMMA InitIInv == Init => IInv
<1> SUFFICES ASSUME Init PROVE IInv
    OBVIOUS
<1>1. TypeOK
    BY InitType
<1>2. TablesInv
    <2>1. DOMAIN txTable = {} /\ Len(txTable) = 0 /\ DOMAIN txRWSetTable = {}
                /\ Len(txRWSetTable) = 0
        BY DEF Init, NewSnapshot
    <2>2. worker = "idle" /\ index = 1 /\ \A k \in FinalKey : writeTable[k] = NoEntry
        BY DEF Init, NewSnapshot
    <2> QED
        BY <2>1, <2>2 DEF TablesInv
<1>3. GoroutineInv
    BY DEF Init, NewSnapshot, GoroutineInv, NeverConflicts, applying
<1>4. View = store
    <2>1. store \in State /\ \A l \in Loc : writeTable[constructKey(l)] = NoEntry
        BY DEF Init, NewSnapshot, FinalKey
    <2>2. \A l \in Loc : GetKey(l) = store[l]
        BY <2>1 DEF GetKey
    <2> QED
        BY <2>1, <2>2 DEF View, State
<1>5. CallerInv
    BY <1>4 DEF Init, NewSnapshot, CallerInv
<1> QED
    BY <1>1, <1>2, <1>3, <1>5 DEF IInv

LEMMA NextIInv == IInv /\ [Next]_vars => IInv'
BY NextType, TablesStep, GoroutineStep, CallerStep DEF IInv

LEMMA Invariance == Spec => []IInv
BY InitIInv, NextIInv, PTL DEF Spec

\* Every variable keeps its type: the channels never hold more than their capacity.
THEOREM TypeCorrect == Spec => []TypeOK
<1>1. IInv => TypeOK
    BY DEF IInv
<1> QED
    BY <1>1, Invariance, PTL

\* A transaction of the serial scheduler is never refused for a conflict, whatever
\* the contracts read and write.
THEOREM NoConflicts == Spec => []NeverConflicts
<1>1. IInv => NeverConflicts
    BY DEF IInv, GoroutineInv
<1> QED
    BY <1>1, Invariance, PTL

\* A call that returns without an error has packed the batch, or the part of it that was
\* done at the deadline, in order and with every read/write set.
THEOREM BatchPacked == Spec => []PacksTheBatch
<1>1. ASSUME IInv PROVE PacksTheBatch
    <2> SUFFICES ASSUME pc = "done", ~err
                 PROVE  /\ Len(blockTxs) <= Len(txBatch)
                        /\ \A i \in DOMAIN blockTxs :
                              blockTxs[i] = txBatch[i] /\ txRWSetMap[blockTxs[i]] # NoRWSet
                        /\ ctx # "deadline" => blockTxs = txBatch
        BY DEF PacksTheBatch
    <2>1. Len(blockTxs) <= Len(txTable) /\ Len(txTable) = index - 1
        BY <1>1 DEF IInv, CallerInv, TablesInv
    <2>2. Len(blockTxs) <= Len(txBatch)
        BY <1>1, <2>1, Lengths DEF IInv
    <2> QED
        BY <1>1, <2>2 DEF IInv, CallerInv
<1> QED
    BY <1>1, Invariance, PTL

-----------------------------------------------------------------------------
(* The refinement.                                                         *)

LEMMA LedgerOperators ==
    /\ Ledger!State = State
    /\ \A t, d, e : Ledger!ExecuteTx(t, d, e) = ExecuteTx(t, d, e)
    /\ \A d, w : Ledger!ApplyWrites(d, w) = ApplyWrites(d, w)
BY DEF Ledger!State, Ledger!Loc, State, Loc, Ledger!ExecuteTx, ExecuteTx,
       Ledger!GetTxRWSet, GetTxRWSet, Ledger!ApplyWrites, ApplyWrites

\* An iterator on an empty table sees the store.
LEMMA IteratorViewEmpty ==
    ASSUME SnapshotTypeOK, txRWSetTable = << >>
    PROVE  IteratorView = store
<1>1. DOMAIN txRWSetTable = {}
    OBVIOUS
<1>2. IteratorView = [l \in Loc |-> store[l]]
    BY <1>1 DEF IteratorView
<1> QED
    BY <1>2 DEF SnapshotTypeOK, State

LEMMA InitSerialInv == Init => SerialInv
<1> SUFFICES ASSUME Init PROVE SerialInv
    OBVIOUS
<1>1. IInv
    BY InitIInv
<1>2. View = store /\ worker = "idle"
    BY <1>1 DEF Init, IInv, CallerInv
<1>3. IteratorView = store
    BY <1>1, IteratorViewEmpty DEF Init, NewSnapshot, IInv, TypeOK
<1> QED
    BY <1>2, <1>3 DEF SerialInv, IteratorsInv, ResultInv

\* What the views are made of.
LEMMA ViewsKept ==
    /\ UNCHANGED <<store, writeTable>> => View' = View
    /\ UNCHANGED <<store, txRWSetTable>> => IteratorView' = IteratorView
<1>1. UNCHANGED <<store, writeTable>> => View' = View
    BY DEF View, GetKey
<1>2. UNCHANGED <<store, txRWSetTable>> => IteratorView' = IteratorView
    <2>1. IteratorView = [l \in Loc |-> Found(txRWSetTable, store, l)]
        BY DEF IteratorView, Found
    <2>2. IteratorView' = [l \in Loc |-> Found(txRWSetTable', store', l)]
        BY DEF IteratorView, Found
    <2> QED
        BY <2>1, <2>2
<1> QED
    BY <1>1, <1>2

\* What a step of no apply leaves as it is.
LEMMA OtherSteps ==
    ASSUME [Next]_vars, ~Schedule, ~ApplyWriteSet, ~ListRWSet, ~ListTx
    PROVE  /\ UNCHANGED <<store, writeTable, txRWSetTable, txTable, txBatch, index>>
           /\ \/ worker \notin {"rwset", "table"} /\ worker' \notin {"rwset", "table"}
              \/ UNCHANGED <<worker, txRWSet>>
<1>1. CASE StartTx \/ Execute \/ StartApply \/ Panic \/ SignalFinish
    BY <1>1 DEF StartTx, Execute, StartApply, Panic, SignalFinish, snapshot
<1>2. CASE EndLoop \/ GiveUp \/ RefuseEarly \/ RefuseLocked
    BY <1>2 DEF EndLoop, GiveUp, RefuseEarly, RefuseLocked, Return, snapshot
<1>3. CASE Caller \/ Deadline \/ Halt
    BY <1>3 DEF Caller, ReceiveFinish, ReceiveDeadline, ReportHalt, Deadline, Halt,
                SealSnapshot, Seal, ReturnError, PackTxs, PackRWSets, snapshot, workVars,
                simContext
<1>4. CASE UNCHANGED vars
    BY <1>4 DEF vars, snapshot, workVars, simContext
<1> QED
    BY <1>1, <1>2, <1>3, <1>4 DEF Next, Goroutine

LEMMA NextSerialInv ==
    ASSUME KeysTellLocations, IInv, SerialInv, [Next]_vars
    PROVE  SerialInv'
<1>0. /\ TypeOK /\ SnapshotTypeOK /\ IteratorsInv /\ ResultInv /\ txRWSet \in RWSet
      /\ worker \in {"execute", "apply", "lock", "rwset", "table"} => tx \in Tx
    BY BatchType, Lengths DEF IInv, TypeOK, SerialInv, GoroutineInv, tx
<1>a. View \in State /\ IteratorView \in State
    BY <1>0, ViewType, IteratorViewType
<1>1. IteratorsInv'
    <2> SUFFICES ASSUME NamesTellLocations
                 PROVE  View' = IF worker' = "rwset"
                                THEN ApplyWrites(IteratorView', txRWSet'.writes)
                                ELSE IteratorView'
        BY DEF IteratorsInv
    <2>1. CASE Schedule
        <3>1. worker = "idle" /\ worker' = "loop" /\ View' = View /\ IteratorView' = IteratorView
            BY <2>1, ViewsKept DEF Schedule, snapshot, IInv, CallerInv
        <3> QED
            BY <1>0, <3>1 DEF IteratorsInv
    <2>2. CASE ApplyWriteSet
        <3>1. /\ worker = "lock" /\ worker' = "rwset" /\ txRWSet' = txRWSet /\ store' = store
              /\ writeTable' = FinalWriteKvs(txRWSet) /\ IteratorView' = IteratorView
            BY <2>2, ViewsKept DEF ApplyWriteSet, PutWrites, simContext
        <3>2. View' = ApplyWrites(View, txRWSet.writes)
            BY <1>0, <3>1, ViewAfterWrites
        <3> QED
            BY <1>0, <3>1, <3>2 DEF IteratorsInv
    <2>3. CASE ListRWSet
        <3>1. /\ worker = "rwset" /\ worker' = "table" /\ store' = store /\ View' = View
              /\ txRWSetTable' = Append(txRWSetTable, [tx |-> tx, rwset |-> txRWSet])
            BY <2>3, ViewsKept DEF ListRWSet, AppendRWSet
        <3>2. IteratorView' = ApplyWrites(IteratorView, txRWSet.writes)
            BY <1>0, <3>1, IteratorViewAppend
        <3> QED
            BY <1>0, <3>1, <3>2 DEF IteratorsInv
    <2>4. CASE ListTx
        <3>1. /\ worker = "table" /\ worker' = "loop"
              /\ View' = View /\ IteratorView' = IteratorView
            BY <2>4, ViewsKept DEF ListTx, AppendTx
        <3> QED
            BY <1>0, <3>1 DEF IteratorsInv
    <2>5. CASE ~Schedule /\ ~ApplyWriteSet /\ ~ListRWSet /\ ~ListTx
        <3>1. /\ View' = View /\ IteratorView' = IteratorView
              /\ \/ worker \notin {"rwset", "table"} /\ worker' \notin {"rwset", "table"}
                 \/ UNCHANGED <<worker, txRWSet>>
            BY <2>5, OtherSteps, ViewsKept
        <3> QED
            BY <1>0, <3>1 DEF IteratorsInv
    <2> QED
        BY <2>1, <2>2, <2>3, <2>4, <2>5
<1>2. ResultInv'
    <2> SUFFICES ASSUME NoIterators \/ NamesTellLocations, worker' \in {"apply", "lock"}
                 PROVE  txRWSet' = ExecuteTx(tx', View', View')
        BY DEF ResultInv
    <2>1. CASE Execute
        <3>1. /\ worker = "execute" /\ txRWSet' = ExecuteTx(tx, View, IteratorView)
              /\ tx' = tx /\ View' = View
            BY <2>1, ViewsKept DEF Execute, snapshot, tx
        <3>2. CASE NoIterators
            <4>1. RunVM(tx, View, IteratorView) = RunVM(tx, View, View)
                BY <1>0, <1>a, <3>1, <3>2 DEF NoIterators
            <4> QED
                BY <3>1, <4>1 DEF ExecuteTx
        <3>3. CASE NamesTellLocations
            <4>1. IteratorView = View
                BY <1>0, <3>1, <3>3 DEF IteratorsInv
            <4> QED
                BY <3>1, <4>1
        <3> QED
            BY <3>2, <3>3
    <2>2. CASE StartApply
        <3>1. worker = "apply" /\ txRWSet' = txRWSet /\ tx' = tx /\ View' = View
            BY <2>2, ViewsKept DEF StartApply, snapshot, simContext, tx
        <3> QED
            BY <1>0, <3>1 DEF ResultInv
    <2>3. CASE Caller \/ Deadline \/ Halt \/ UNCHANGED vars
        <3>1. UNCHANGED <<worker, txRWSet, index>>
            BY <2>3 DEF Caller, ReceiveFinish, ReceiveDeadline, ReportHalt, Deadline, Halt,
                        SealSnapshot, ReturnError, PackTxs, PackRWSets, vars, workVars, simContext
        <3>2. UNCHANGED <<store, writeTable, txBatch>>
            BY <2>3 DEF Caller, ReceiveFinish, ReceiveDeadline, ReportHalt, Deadline, Halt,
                        SealSnapshot, Seal, ReturnError, PackTxs, PackRWSets, vars, snapshot
        <3>3. tx' = tx /\ View' = View
            BY <3>1, <3>2, ViewsKept DEF tx
        <3> QED
            BY <1>0, <3>1, <3>3 DEF ResultInv
    <2>4. CASE ~Execute /\ ~StartApply /\ (Schedule \/ Goroutine)
        BY <2>4 DEF Goroutine, Schedule, EndLoop, GiveUp, StartTx, Panic, RefuseEarly,
                    ApplyWriteSet, RefuseLocked, ListRWSet, ListTx, SignalFinish, Return
    <2> QED
        BY <2>1, <2>2, <2>3, <2>4 DEF Next
<1> QED
    BY <1>1, <1>2 DEF SerialInv

LEMMA InitSerial == Init => Ledger!LedgerInit
<1> SUFFICES ASSUME Init PROVE Ledger!LedgerInit
    OBVIOUS
<1>1. IInv /\ pc = "idle" /\ worker = "idle" /\ txBatch = << >> /\ txTable = << >>
            /\ txRWSetTable = << >> /\ store \in State
    BY InitIInv DEF Init, NewSnapshot
<1>2. View = store /\ ~applying
    BY <1>1 DEF IInv, CallerInv, applying
<1>3. appliedTxs = << >> /\ DOMAIN txBatch = {}
    BY <1>1, <1>2 DEF appliedTxs
<1>4. [t \in Tx |-> IF applying /\ t = tx THEN txRWSet ELSE GetTxRWSetTable[t]]
            = [t \in Tx |-> NoRWSet]
    BY <1>1, <1>2 DEF GetTxRWSetTable
<1> QED
    BY <1>1, <1>2, <1>3, <1>4, LedgerOperators DEF Ledger!LedgerInit

\* Of the pieces of an apply, the first is the step of the ledger.
LEMMA NextSerial ==
    ASSUME KeysTellLocations, NoIterators \/ NamesTellLocations, IInv, SerialInv, [Next]_vars
    PROVE  [Ledger!LedgerNext]_Ledger!ledger
<1> DEFINE results == [t \in Tx |-> IF applying /\ t = tx THEN txRWSet ELSE GetTxRWSetTable[t]]
           pending == {txBatch[i] : i \in DOMAIN txBatch} \ appliedSet
<1>0. /\ TypeOK /\ SnapshotTypeOK /\ TablesInv /\ GoroutineInv /\ txRWSet \in RWSet
      /\ txTable \in Seq(Tx) /\ txBatch \in Seq(Tx) /\ Distinct(txBatch)
    BY BatchType DEF IInv, TypeOK, SnapshotTypeOK
<1>a. /\ Len(txTable) \in Nat /\ DOMAIN txTable = 1..Len(txTable)
      /\ Len(txRWSetTable) \in Nat /\ DOMAIN txRWSetTable = 1..Len(txRWSetTable)
      /\ Len(txBatch) \in Nat /\ DOMAIN txBatch = 1..Len(txBatch)
      /\ index \in Nat /\ index >= 1 /\ Len(txTable) = index - 1
    BY <1>0, Lengths DEF TablesInv
<1>t. worker \in {"lock", "rwset", "table"} => index \in DOMAIN txBatch /\ tx \in Tx
    BY <1>0, <1>a DEF GoroutineInv, tx
<1>1. CASE Schedule
    <2>1. /\ pc = "idle" /\ worker' = "loop" /\ txBatch' \in Seq(Tx)
          /\ UNCHANGED <<store, writeTable, txTable, txRWSetTable>>
        BY <1>1, SerialBatchesAssumption DEF Schedule, snapshot
    <2>2. View = store /\ View' = View /\ worker = "idle" /\ index = 1
        BY <2>1, ViewsKept DEF IInv, CallerInv
    <2>3. ~applying' /\ txTable = << >> /\ DOMAIN txRWSetTable = {}
        BY <1>0, <1>a, <2>1, <2>2 DEF applying, TablesInv
    <2>4. appliedTxs' = << >> /\ appliedSet' = {}
        BY <2>1, <2>3 DEF appliedTxs, appliedSet
    <2>5. GetTxRWSetTable' = [t \in Tx |-> NoRWSet]
        BY <2>1, <2>3 DEF GetTxRWSetTable
    <2>6. results' = [t \in Tx |-> NoRWSet]
        BY <2>3, <2>5
    <2>7. pending' \in SUBSET Tx
        BY <2>1, ElementType
    <2>8. Ledger!NewBlock
        BY <2>1, <2>2, <2>4, <2>6, <2>7 DEF Ledger!NewBlock
    <2> QED
        BY <2>8 DEF Ledger!LedgerNext
<1>2. CASE ApplyWriteSet
    <2>1. /\ worker = "lock" /\ worker' = "rwset" /\ writeTable' = FinalWriteKvs(txRWSet)
          /\ UNCHANGED <<store, txTable, txRWSetTable, txBatch, index, txRWSet>>
        BY <1>2 DEF ApplyWriteSet, PutWrites, simContext
    <2>2. ~applying /\ applying' /\ tx' = tx /\ tx \in Tx /\ index \in DOMAIN txBatch
        BY <1>t, <2>1 DEF applying, tx
    <2>3. View' = ApplyWrites(View, txRWSet.writes)
        BY <1>0, <2>1, ViewAfterWrites
    <2>4. txRWSet = ExecuteTx(tx, View, View)
        BY <2>1 DEF SerialInv, ResultInv
    <2>5. appliedTxs = txTable /\ appliedTxs' = Append(txTable, tx)
        BY <2>1, <2>2 DEF appliedTxs
    <2>6. appliedSet' = appliedSet \cup {tx}
        <3> DEFINE p == Append(txTable, tx)
        <3>1. /\ DOMAIN p = 1..Len(txTable) \cup {Len(txTable) + 1} /\ p[Len(txTable) + 1] = tx
              /\ \A i \in 1..Len(txTable) : p[i] = txTable[i]
            BY <1>0, <1>a, <2>2
        <3> HIDE DEF p
        <3> QED
            BY <1>a, <2>5, <3>1 DEF appliedSet, p
    <2>7. tx \notin appliedSet
        <3> SUFFICES ASSUME NEW i \in DOMAIN txTable, txTable[i] = tx
                     PROVE  FALSE
            BY <2>5 DEF appliedSet
        <3>1. txBatch[i] = txBatch[index] /\ i \in DOMAIN txBatch
            BY <1>0, <1>a, <2>2 DEF TablesInv, tx
        <3>2. i = index
            BY <1>0, <2>2, <3>1 DEF Distinct
        <3> QED
            BY <1>a, <3>2
    <2>8. tx \in pending /\ pending' = pending \ {tx}
        BY <2>1, <2>2, <2>6, <2>7 DEF tx
    <2>9. GetTxRWSetTable' = GetTxRWSetTable
        BY <2>1 DEF GetTxRWSetTable
    <2>10. results' = [results EXCEPT ![tx] = txRWSet]
        BY <2>1, <2>2, <2>9, ZenonT(40)
    <2> HIDE DEF results, pending
    <2>11. PICK t \in Tx : t = tx
        BY <2>2
    <2>12. Ledger!RunTx(t)
        BY <2>1, <2>3, <2>4, <2>5, <2>8, <2>10, <2>11, LedgerOperators
           DEF Ledger!RunTx, results, pending
    <2> QED
        BY <2>12 DEF Ledger!LedgerNext
<1>3. ASSUME store' = store, View' = View, txBatch' = txBatch, appliedTxs' = appliedTxs,
             results' = results
      PROVE  UNCHANGED Ledger!ledger
    BY <1>3 DEF Ledger!ledger, appliedSet
<1>4. CASE ListRWSet
    <2>1. /\ worker = "rwset" /\ worker' = "table"
          /\ txRWSetTable' = Append(txRWSetTable, [tx |-> tx, rwset |-> txRWSet])
          /\ UNCHANGED <<store, writeTable, txTable, txBatch, index, txRWSet>>
        BY <1>4 DEF ListRWSet, AppendRWSet, simContext
    <2>2. applying /\ applying' /\ tx' = tx /\ tx \in Tx /\ View' = View
        BY <1>t, <2>1, ViewsKept DEF applying, tx
    <2>3. GetTxRWSetTable' = [GetTxRWSetTable EXCEPT ![tx] = txRWSet]
        BY <1>0, <2>1, <2>2, GetTxRWSetTableAppend
    <2>4. results' = results
        <3>1. GetTxRWSetTable \in [Tx -> RWSet \cup {NoRWSet}]
            BY <1>0, GetTxRWSetTableType
        <3> QED
            BY <2>1, <2>2, <2>3, <3>1
    <2> QED
        BY <1>3, <2>1, <2>2, <2>4 DEF appliedTxs
<1>5. CASE ListTx
    <2>1. /\ worker = "table" /\ worker' = "loop" /\ txTable' = Append(txTable, tx)
          /\ UNCHANGED <<store, writeTable, txRWSetTable, txBatch, txRWSet>>
        BY <1>5 DEF ListTx, AppendTx, simContext
    <2>2. applying /\ ~applying' /\ View' = View /\ tx \in Tx
        BY <1>t, <2>1, ViewsKept DEF applying
    <2>3. GetTxRWSetTable' = GetTxRWSetTable
        BY <2>1 DEF GetTxRWSetTable
    <2>4. GetTxRWSetTable[tx] = txRWSet
        <3>1. /\ Len(txRWSetTable) = index /\ txRWSetTable[index].tx = tx
              /\ txRWSetTable[index].rwset = txRWSet /\ index \in DOMAIN txRWSetTable
            BY <1>0, <1>a, <2>1 DEF TablesInv, tx
        <3>2. PICK j \in DOMAIN txRWSetTable :
                    index <= j /\ GetTxRWSetTable[tx] = txRWSetTable[j].rwset
            BY <1>0, <2>2, <3>1, GetTxRWSetTableEntry
        <3>3. j = index
            BY <1>a, <3>1, <3>2
        <3> QED
            BY <3>1, <3>2, <3>3
    <2>5. results' = results
        BY <2>2, <2>3, <2>4
    <2> QED
        BY <1>3, <2>1, <2>2, <2>5 DEF appliedTxs
<1>6. CASE ~Schedule /\ ~ApplyWriteSet /\ ~ListRWSet /\ ~ListTx
    <2>1. /\ UNCHANGED <<store, writeTable, txRWSetTable, txTable, txBatch, index>>
          /\ \/ worker \notin {"rwset", "table"} /\ worker' \notin {"rwset", "table"}
             \/ UNCHANGED <<worker, txRWSet>>
        BY <1>6, OtherSteps
    <2>2. View' = View /\ tx' = tx /\ GetTxRWSetTable' = GetTxRWSetTable
        BY <2>1, ViewsKept DEF tx, GetTxRWSetTable
    <2>a. (applying' <=> applying) /\ (applying => txRWSet' = txRWSet)
        BY <2>1 DEF applying
    <2>3. appliedTxs' = appliedTxs /\ results' = results
        BY <2>1, <2>2, <2>a DEF appliedTxs
    <2> QED
        BY <1>3, <2>1, <2>2, <2>3
<1> QED
    BY <1>1, <1>2, <1>4, <1>5, <1>6

(***************************************************************************)
(* If the final keys tell locations apart, and iterators are not used or   *)
(* see names that do too, then the snapshot is filled as by running the    *)
(* batch one transaction after the other: through the three steps of every *)
(* apply, and also when the call has been cut short.                       *)
(***************************************************************************)
THEOREM Serializability ==
    ASSUME KeysTellLocations, NoIterators \/ NamesTellLocations
    PROVE  Spec => Serializable
<1>1. Init => IInv /\ SerialInv
    BY InitIInv, InitSerialInv
<1>2. IInv /\ SerialInv /\ [Next]_vars => IInv' /\ SerialInv'
    BY NextIInv, NextSerialInv
<1>3. IInv /\ SerialInv /\ [Next]_vars => [Ledger!LedgerNext]_Ledger!ledger
    BY NextSerial
<1> QED
    BY <1>1, <1>2, <1>3, InitSerial, PTL DEF Spec, Serializable, Ledger!LedgerSpec
=============================================================================
