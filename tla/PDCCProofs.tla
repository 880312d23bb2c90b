----------------------------- MODULE PDCCProofs -----------------------------
(***************************************************************************)
(* Proofs about the PDCC scheduler, for any transactions, any batch sizes  *)
(* and any number of calls.                                                *)
(***************************************************************************)
EXTENDS PDCC, TLAPS

-----------------------------------------------------------------------------
(* Facts about executing transactions and applying writes.                 *)

\* GetTxRWSet filters the writes of a run and keeps everything else.
LEMMA ExecuteTxType ==
    ASSUME NEW t \in Tx, NEW d \in State, NEW s \in State
    PROVE  ExecuteTx(t, d, s) \in RWSet
<1>1. RunVM(t, d, s) \in RWSet
    BY RunVMType
<1> QED
    BY <1>1 DEF ExecuteTx, GetTxRWSet, RWSet, WriteSet

\* A transaction whose reads are the same in two states runs the same in both.
LEMMA ExecuteTxLocality ==
    ASSUME NEW t \in Tx, NEW d \in State, NEW e \in State, NEW s \in State,
           \A l \in ExecuteTx(t, d, s).reads : d[l] = e[l]
    PROVE  ExecuteTx(t, e, s) = ExecuteTx(t, d, s)
<1>1. ExecuteTx(t, d, s).reads = RunVM(t, d, s).reads
    BY DEF ExecuteTx, GetTxRWSet
<1>2. RunVM(t, e, s) = RunVM(t, d, s)
    BY <1>1, RunVMLocality
<1> QED
    BY <1>2 DEF ExecuteTx

LEMMA ApplyWritesType ==
    ASSUME NEW d \in State, NEW w \in WriteSet
    PROVE  ApplyWrites(d, w) \in State
BY DEF ApplyWrites, State, WriteSet

LEMMA NoWritesType == NoWrites \in WriteSet
BY DEF NoWrites, WriteSet

\* Applying no writes changes nothing.
LEMMA ApplyNoWrites ==
    ASSUME NEW d \in State
    PROVE  ApplyWrites(d, NoWrites) = d
BY DEF ApplyWrites, NoWrites, State

LEMMA MergeIntoType ==
    ASSUME NEW m \in WriteSet, NEW w \in WriteSet
    PROVE  MergeInto(m, w) \in WriteSet
BY DEF MergeInto, WriteSet

-----------------------------------------------------------------------------
(* Facts about sequences of transactions.                                  *)

LEMMA SubSeqType ==
    ASSUME NEW s \in Seq(Tx), NEW m \in 1..(Len(s) + 1), NEW n \in 0..Len(s)
    PROVE  SubSeq(s, m, n) \in Seq(Tx)
OBVIOUS

\* A piece of a list without repetition has none either.
LEMMA DistinctSubSeq ==
    ASSUME NEW s \in Seq(Tx), Distinct(s), NEW m \in 1..(Len(s) + 1), NEW n \in 0..Len(s)
    PROVE  Distinct(SubSeq(s, m, n))
<1> DEFINE p == SubSeq(s, m, n)
<1> SUFFICES ASSUME NEW i \in DOMAIN p, NEW j \in DOMAIN p, p[i] = p[j]
             PROVE  i = j
    BY DEF Distinct
<1>1. /\ p[i] = s[m + i - 1] /\ m + i - 1 \in DOMAIN s /\ i \in Nat
      /\ p[j] = s[m + j - 1] /\ m + j - 1 \in DOMAIN s /\ j \in Nat
    BY SMTT(30)
<1>2. m + i - 1 = m + j - 1
    BY <1>1 DEF Distinct
<1> QED
    BY <1>1, <1>2

\* Two disjoint lists without repetition make one.
LEMMA DistinctConcat ==
    ASSUME NEW s \in Seq(Tx), Distinct(s), NEW u \in Seq(Tx), Distinct(u),
           \A i \in DOMAIN s, j \in DOMAIN u : s[i] # u[j]
    PROVE  Distinct(s \o u)
<1> DEFINE p == s \o u
<1> SUFFICES ASSUME NEW i \in DOMAIN p, NEW j \in DOMAIN p, p[i] = p[j]
             PROVE  i = j
    BY DEF Distinct
<1>0. i \in 1..(Len(s) + Len(u)) /\ j \in 1..(Len(s) + Len(u))
    OBVIOUS
<1>1. CASE i <= Len(s) /\ j <= Len(s)
    BY <1>0, <1>1 DEF Distinct
<1>2. CASE i <= Len(s) /\ j > Len(s)
    <2>1. p[i] = s[i] /\ p[j] = u[j - Len(s)] /\ i \in DOMAIN s /\ j - Len(s) \in DOMAIN u
        BY <1>0, <1>2
    <2> QED
        BY <2>1
<1>3. CASE i > Len(s) /\ j <= Len(s)
    <2>1. p[j] = s[j] /\ p[i] = u[i - Len(s)] /\ j \in DOMAIN s /\ i - Len(s) \in DOMAIN u
        BY <1>0, <1>3
    <2> QED
        BY <2>1
<1>4. CASE i > Len(s) /\ j > Len(s)
    <2>1. /\ p[i] = u[i - Len(s)] /\ i - Len(s) \in DOMAIN u
          /\ p[j] = u[j - Len(s)] /\ j - Len(s) \in DOMAIN u
        BY <1>0, <1>4
    <2>2. i - Len(s) = j - Len(s)
        BY <2>1 DEF Distinct
    <2> QED
        BY <1>0, <2>2
<1> QED
    BY <1>0, <1>1, <1>2, <1>3, <1>4

LEMMA BatchesType ==
    ASSUME NEW b \in Batches
    PROVE  b \in Seq(Tx) /\ Distinct(b)
BY BatchesAssumption

LEMMA MinNatType ==
    ASSUME NEW m \in Nat, NEW n \in Nat
    PROVE  /\ MinNat(m, n) \in Nat
           /\ MinNat(m, n) <= m
           /\ MinNat(m, n) <= n
           /\ m > 0 /\ n > 0 => MinNat(m, n) > 0
BY DEF MinNat
-----------------------------------------------------------------------------
(* Type correctness.                                                       *)

LEMMA InitType == Init => TypeOK
BY NoWritesType, BatchSizeAssumption DEF Init, TypeOK

LEMMA AdjustBatchSizeType ==
    ASSUME NEW size \in {HighBatchSize, LowBatchSize}, NEW n, NEW r
    PROVE  adjustBatchSize(size, n, r) \in {HighBatchSize, LowBatchSize}
BY DEF adjustBatchSize

\* One step of Schedule keeps the types.
LEMMA NextType == TypeOK /\ [Next]_vars => TypeOK'
<1> SUFFICES ASSUME TypeOK, [Next]_vars
             PROVE  TypeOK'
    OBVIOUS
<1>1. CASE Schedule
    BY <1>1, BatchesType DEF TypeOK, Schedule, roundVars
<1>2. CASE Select
    <2> DEFINE n == MinNat(batchSize, Len(txBatch))
    <2>0. n \in 1..Len(txBatch)
        BY <1>2, BatchSizeAssumption DEF TypeOK, Select, MinNat
    <2>1. /\ selectedTxs' = SubSeq(txBatch, 1, n)
          /\ txBatch' = SubSeq(txBatch, n + 1, Len(txBatch))
        BY <1>2 DEF Select
    <2>2. /\ selectedTxs' \in Seq(Tx)
          /\ Len(selectedTxs') = n
          /\ DOMAIN selectedTxs' = 1..n
          /\ txBatch' \in Seq(Tx)
        <3>1. txBatch \in Seq(Tx)
            BY DEF TypeOK
        <3> HIDE DEF n
        <3> QED
            BY <2>0, <2>1, <3>1, SubSeqType
    <2>3. NotRun \in RWSet
        BY NoWritesType DEF NotRun, RWSet
    <2> QED
        BY <1>2, <2>0, <2>2, <2>3, NoWritesType DEF TypeOK, Select
<1>3. ASSUME NEW i \in DOMAIN selectedTxs, Execute(i)
      PROVE  TypeOK'
    <2>1. ExecuteTx(selectedTxs[i], db, store) \in RWSet
        BY ExecuteTxType DEF TypeOK
    <2> QED
        BY <1>3, <2>1 DEF TypeOK, Execute
<1>4. CASE DetectConflicts
    BY <1>4 DEF TypeOK, DetectConflicts, isRAWConflictWithDeps
<1>5. CASE Recheck
    <2> DEFINE f == abortFlags[txIndex] /\ ~recheckTransaction(txIndex)
    <2>1. f \in BOOLEAN
        OBVIOUS
    <2>2. abortFlags' = [abortFlags EXCEPT ![txIndex] = f]
        BY <1>5 DEF Recheck
    <2> HIDE DEF f
    <2>3. abortFlags' \in [DOMAIN selectedTxs -> BOOLEAN]
        BY <2>1, <2>2 DEF TypeOK
    <2> QED
        BY <1>5, <2>3 DEF TypeOK, Recheck
<1>6. CASE RecheckDone
    BY <1>6 DEF TypeOK, RecheckDone
<1>7. CASE Commit
    <2>1. txIndex \in DOMAIN selectedTxs
        BY <1>7 DEF Commit, TypeOK
    <2>2. execInfos[txIndex].writes \in WriteSet
        BY <2>1 DEF TypeOK, RWSet
    <2> QED
        BY <1>7, <2>1, <2>2, MergeIntoType DEF TypeOK, Commit
<1>8. CASE Abort
    BY <1>8 DEF TypeOK, Abort
<1>9. CASE EndRound
    BY <1>9, ApplyWritesType, NoWritesType DEF TypeOK, EndRound
<1>10. CASE Finish
    BY <1>10, AdjustBatchSizeType DEF TypeOK, Finish, roundVars
<1>11. CASE Timeout
    BY <1>11, AdjustBatchSizeType DEF TypeOK, Timeout, roundVars
<1>12. CASE UNCHANGED vars
    BY <1>12 DEF TypeOK, vars, roundVars
<1> QED
    BY <1>1, <1>2, <1>3, <1>4, <1>5, <1>6, <1>7, <1>8, <1>9, <1>10, <1>11,
       <1>12 DEF Next

\* Schedule keeps its types, whatever transactions it is given.
THEOREM TypeCorrect == Spec => []TypeOK
BY InitType, NextType, PTL DEF Spec

-----------------------------------------------------------------------------
(* The inductive invariant: one lemma per part, one step per action.       *)

LEMMA InitIInv == Init => IInv
<1> SUFFICES ASSUME Init PROVE IInv
    OBVIOUS
<1>1. TypeOK
    BY InitType
<1>2. /\ selectedTxs = << >> /\ txBatch = << >> /\ abortedTxs = << >>
      /\ committedTxs = << >> /\ executed = {} /\ pc = "idle"
      /\ mergedWrites = NoWrites
    BY DEF Init
<1>3. RunsRecorded /\ RoundShape /\ FlagsSettled
    BY <1>2 DEF RunsRecorded, RoundShape, FlagsSettled
<1>4. MergedByCommitted
    BY <1>2 DEF MergedByCommitted, NoWrites
<1>5. NoTxTwice
    BY <1>2 DEF NoTxTwice, Distinct
<1> QED
    BY <1>1, <1>3, <1>4, <1>5 DEF IInv

\* A finished goroutine has run its transaction on the snapshot of the round.
LEMMA RunsRecordedStep ==
    ASSUME IInv, [Next]_vars
    PROVE  RunsRecorded'
<1> USE DEF RunsRecorded
<1>0. TypeOK /\ RunsRecorded
    BY DEF IInv
<1>1. CASE Schedule
    <2>1. selectedTxs = << >> /\ executed = {}
        BY <1>1, <1>0 DEF Schedule, IInv, RoundShape, TypeOK
    <2> QED
        BY <1>1, <2>1 DEF Schedule, roundVars
<1>2. CASE Select
    BY <1>2 DEF Select
<1>3. ASSUME NEW i \in DOMAIN selectedTxs, Execute(i)
      PROVE  RunsRecorded'
    BY <1>3, <1>0 DEF TypeOK, Execute
<1>4. CASE DetectConflicts
    BY <1>4, <1>0 DEF DetectConflicts
<1>5. CASE Recheck
    BY <1>5, <1>0 DEF Recheck
<1>6. CASE RecheckDone
    BY <1>6, <1>0 DEF RecheckDone
<1>7. CASE Commit
    BY <1>7, <1>0 DEF Commit
<1>8. CASE Abort
    BY <1>8, <1>0 DEF Abort
<1>9. CASE EndRound
    BY <1>9, <1>0 DEF EndRound
<1>10. CASE Finish
    BY <1>10, <1>0 DEF Finish, roundVars
<1>11. CASE Timeout
    BY <1>11, <1>0 DEF Timeout, roundVars
<1>12. CASE UNCHANGED vars
    BY <1>12, <1>0 DEF vars, roundVars
<1> QED
    BY <1>1, <1>2, <1>3, <1>4, <1>5, <1>6, <1>7, <1>8, <1>9, <1>10, <1>11,
       <1>12 DEF Next

\* The first transaction of a round has no predecessor to conflict with.
LEMMA FirstNeverAborts ==
    ASSUME IInv, pc = "commit", 1 \in DOMAIN selectedTxs
    PROVE  ~abortFlags[1]
<1>1. conflictDeps[1] = {}
    BY DEF IInv, TypeOK, FlagsSettled, isRAWConflictWithDeps
<1> QED
    BY <1>1 DEF IInv, FlagsSettled

LEMMA RoundShapeStep ==
    ASSUME IInv, [Next]_vars
    PROVE  RoundShape'
<1> USE DEF RoundShape
<1>0. TypeOK /\ RoundShape
    BY DEF IInv
<1>1. CASE Schedule
    BY <1>1, <1>0 DEF Schedule, roundVars
<1>2. CASE Select
    <2> DEFINE n == MinNat(batchSize, Len(txBatch))
    <2>0. n \in 1..Len(txBatch)
        BY <1>2, <1>0, BatchSizeAssumption DEF TypeOK, Select, MinNat
    <2>1. Len(selectedTxs') = n
        BY <1>2, <1>0, <2>0 DEF TypeOK, Select
    <2>2. selectedTxs' # << >>
        BY <2>0, <2>1
    <2> QED
        BY <1>2, <2>2 DEF Select
<1>3. ASSUME NEW i \in DOMAIN selectedTxs, Execute(i)
      PROVE  RoundShape'
    BY <1>3, <1>0 DEF Execute
<1>4. CASE DetectConflicts
    BY <1>4, <1>0 DEF DetectConflicts
<1>5. CASE Recheck
    BY <1>5, <1>0 DEF Recheck
<1>6. CASE RecheckDone
    BY <1>6, <1>0 DEF RecheckDone
<1>7. CASE Commit
    BY <1>7, <1>0 DEF Commit, TypeOK
<1>8. CASE Abort
    <2>1. txIndex # 1
        BY <1>8, <1>0, FirstNeverAborts DEF Abort, TypeOK
    <2> QED
        BY <1>8, <1>0, <2>1 DEF Abort, TypeOK
<1>9. CASE EndRound
    BY <1>9 DEF EndRound
<1>10. CASE Finish
    BY <1>10, <1>0 DEF Finish, roundVars
<1>11. CASE Timeout
    BY <1>11, <1>0 DEF Timeout, roundVars
<1>12. CASE UNCHANGED vars
    BY <1>12, <1>0 DEF vars, roundVars
<1> QED
    BY <1>1, <1>2, <1>3, <1>4, <1>5, <1>6, <1>7, <1>8, <1>9, <1>10, <1>11,
       <1>12 DEF Next

LEMMA FlagsSettledStep ==
    ASSUME IInv, [Next]_vars
    PROVE  FlagsSettled'
<1>0. TypeOK /\ FlagsSettled /\ RoundShape
    BY DEF IInv
<1>a. ASSUME UNCHANGED <<pc, selectedTxs, execInfos, abortFlags, conflictDeps, txIndex>>
      PROVE  FlagsSettled'
    BY <1>a, <1>0 DEF FlagsSettled, isRAWConflictWithDeps, masterWS
<1>1. CASE Schedule
    BY <1>1 DEF Schedule, FlagsSettled
<1>2. CASE Select
    BY <1>2 DEF Select, FlagsSettled
<1>3. ASSUME NEW i \in DOMAIN selectedTxs, Execute(i)
      PROVE  FlagsSettled'
    BY <1>3 DEF Execute, FlagsSettled
<1>4. CASE DetectConflicts
    <2>1. txIndex = 1 /\ txIndex' = 1 /\ pc' = "recheck"
        BY <1>4, <1>0 DEF DetectConflicts, RoundShape
    <2>2. \A i \in DOMAIN selectedTxs :
              isRAWConflictWithDeps(i)' = isRAWConflictWithDeps(i)
        BY <1>4 DEF DetectConflicts, isRAWConflictWithDeps, masterWS
    <2>3. \A i \in DOMAIN selectedTxs : ~(i < txIndex')
        BY <1>0, <2>1 DEF TypeOK
    <2>4. \A i \in DOMAIN selectedTxs :
              /\ conflictDeps'[i] = isRAWConflictWithDeps(i)
              /\ abortFlags'[i] <=> conflictDeps'[i] # {}
        BY <1>4 DEF DetectConflicts
    <2>5. selectedTxs' = selectedTxs
        BY <1>4 DEF DetectConflicts
    <2> QED
        BY <2>1, <2>2, <2>3, <2>4, <2>5, Zenon DEF FlagsSettled
<1>5. CASE Recheck
    <2> DEFINE f == abortFlags[txIndex] /\ ~recheckTransaction(txIndex)
    <2>1. /\ pc = "recheck" /\ pc' = "recheck"
          /\ txIndex \in DOMAIN selectedTxs
          /\ txIndex' = txIndex + 1
          /\ UNCHANGED <<selectedTxs, conflictDeps, execInfos>>
          /\ abortFlags' = [abortFlags EXCEPT ![txIndex] = f]
        BY <1>5, <1>0 DEF Recheck, TypeOK
    <2>2. \A i \in DOMAIN selectedTxs :
              /\ isRAWConflictWithDeps(i)' = isRAWConflictWithDeps(i)
              /\ \A j \in isRAWConflictWithDeps(i) : j < i
        BY <2>1 DEF isRAWConflictWithDeps, masterWS
    <2>3. f <=> \E j \in conflictDeps[txIndex] : ~abortFlags[j]
        BY <1>0, <2>1 DEF FlagsSettled, recheckTransaction, TypeOK
    <2>4. /\ \A i \in DOMAIN selectedTxs : i # txIndex => abortFlags'[i] = abortFlags[i]
          /\ abortFlags'[txIndex] = f
        BY <1>0, <2>1 DEF TypeOK
    <2> HIDE DEF f
    <2> SUFFICES ASSUME NEW i \in DOMAIN selectedTxs
                 PROVE  /\ conflictDeps'[i] = isRAWConflictWithDeps(i)'
                        /\ i < txIndex' =>
                             (abortFlags'[i] <=> \E j \in conflictDeps'[i] : ~abortFlags'[j])
                        /\ i >= txIndex' => (abortFlags'[i] <=> conflictDeps'[i] # {})
        BY <2>1 DEF FlagsSettled
    <2>5. conflictDeps[i] = isRAWConflictWithDeps(i)
        BY <1>0, <2>1 DEF FlagsSettled
    <2>6. \A j \in conflictDeps[i] : j \in DOMAIN selectedTxs /\ j < i
        BY <2>2, <2>5, <1>0 DEF TypeOK
    <2>7. CASE i < txIndex
        <3>1. \A j \in conflictDeps[i] : abortFlags'[j] = abortFlags[j]
            BY <2>4, <2>6, <2>7, <1>0 DEF TypeOK
        <3>2. abortFlags[i] <=> \E j \in conflictDeps[i] : ~abortFlags[j]
            BY <2>7, <2>1, <1>0 DEF FlagsSettled
        <3>3. abortFlags'[i] = abortFlags[i] /\ ~(i >= txIndex')
            BY <2>1, <2>4, <2>7, <1>0 DEF TypeOK
        <3> QED
            BY <2>1, <2>2, <2>5, <3>1, <3>2, <3>3
    <2>8. CASE i = txIndex
        <3>1. \A j \in conflictDeps[i] : abortFlags'[j] = abortFlags[j]
            BY <2>4, <2>6, <2>8, <1>0 DEF TypeOK
        <3>2. ~(i >= txIndex')
            BY <2>1, <2>8, <1>0 DEF TypeOK
        <3> QED
            BY <2>1, <2>2, <2>3, <2>4, <2>5, <2>8, <3>1, <3>2
    <2>9. CASE i > txIndex
        <3>0. i >= txIndex
            BY <2>9, <1>0 DEF TypeOK
        <3>1. abortFlags[i] <=> conflictDeps[i] # {}
            BY <1>0, <2>1, <3>0, Zenon DEF FlagsSettled
        <3>2. abortFlags'[i] = abortFlags[i] /\ ~(i < txIndex')
            BY <2>1, <2>4, <2>9, <1>0 DEF TypeOK
        <3> QED
            BY <2>1, <2>2, <2>5, <3>1, <3>2
    <2> QED
        BY <2>7, <2>8, <2>9, <1>0 DEF TypeOK
<1>6. CASE RecheckDone
    <2>1. \A i \in DOMAIN selectedTxs : i < txIndex
        BY <1>6, <1>0 DEF RecheckDone, TypeOK
    <2>2. \A i \in DOMAIN selectedTxs :
              isRAWConflictWithDeps(i)' = isRAWConflictWithDeps(i)
        BY <1>6 DEF RecheckDone, isRAWConflictWithDeps, masterWS
    <2> QED
        BY <1>6, <1>0, <2>1, <2>2 DEF RecheckDone, FlagsSettled
<1>7. CASE Commit
    <2>1. \A i \in DOMAIN selectedTxs :
              isRAWConflictWithDeps(i)' = isRAWConflictWithDeps(i)
        BY <1>7 DEF Commit, isRAWConflictWithDeps, masterWS
    <2> QED
        BY <1>7, <1>0, <2>1 DEF Commit, FlagsSettled
<1>8. CASE Abort
    <2>1. \A i \in DOMAIN selectedTxs :
              isRAWConflictWithDeps(i)' = isRAWConflictWithDeps(i)
        BY <1>8 DEF Abort, isRAWConflictWithDeps, masterWS
    <2> QED
        BY <1>8, <1>0, <2>1 DEF Abort, FlagsSettled
<1>9. CASE EndRound
    BY <1>9 DEF EndRound, FlagsSettled
<1>10. CASE Finish
    BY <1>10 DEF Finish, FlagsSettled
<1>11. CASE Timeout
    BY <1>11 DEF Timeout, FlagsSettled
<1>12. CASE UNCHANGED vars
    BY <1>12, <1>a DEF vars, roundVars
<1> QED
    BY <1>1, <1>2, <1>3, <1>4, <1>5, <1>6, <1>7, <1>8, <1>9, <1>10, <1>11,
       <1>12 DEF Next

\* Every merged write was made by a committed transaction of the round.
LEMMA MergedByCommittedStep ==
    ASSUME IInv, [Next]_vars
    PROVE  MergedByCommitted'
<1>0. TypeOK /\ MergedByCommitted /\ RoundShape
    BY DEF IInv
<1>a. ASSUME mergedWrites' = NoWrites
      PROVE  MergedByCommitted'
    BY <1>a DEF MergedByCommitted, NoWrites
<1>1. CASE Schedule
    BY <1>1, <1>0, <1>a DEF Schedule, RoundShape, roundVars
<1>2. CASE Select
    BY <1>2, <1>a DEF Select
<1>3. ASSUME NEW i \in DOMAIN selectedTxs, Execute(i)
      PROVE  MergedByCommitted'
    BY <1>3, <1>0, <1>a DEF Execute, RoundShape
<1>4. CASE DetectConflicts
    BY <1>4, <1>0, <1>a DEF DetectConflicts, RoundShape
<1>5. CASE Recheck
    BY <1>5, <1>0, <1>a DEF Recheck, RoundShape
<1>6. CASE RecheckDone
    BY <1>6, <1>0, <1>a DEF RecheckDone, RoundShape
<1>7. CASE Commit
    <2>1. /\ txIndex \in DOMAIN selectedTxs
          /\ txIndex < txIndex'
          /\ txIndex' = txIndex + 1
          /\ ~abortFlags[txIndex]
          /\ UNCHANGED <<selectedTxs, abortFlags, execInfos>>
          /\ mergedWrites' = MergeInto(mergedWrites, execInfos[txIndex].writes)
        BY <1>7, <1>0 DEF Commit, TypeOK
    <2> SUFFICES ASSUME NEW l \in Loc, mergedWrites'[l] # NoWrite
                 PROVE  \E j \in DOMAIN selectedTxs :
                            j < txIndex' /\ ~abortFlags[j] /\ Writes(execInfos[j], l)
        BY <2>1 DEF MergedByCommitted, Writes
    <2>2. mergedWrites[l] # NoWrite \/ execInfos[txIndex].writes[l] # NoWrite
        BY <2>1 DEF MergeInto
    <2>3. CASE mergedWrites[l] # NoWrite
        <3>1. PICK j \in DOMAIN selectedTxs :
                    j < txIndex /\ ~abortFlags[j] /\ Writes(execInfos[j], l)
            BY <1>0, <2>3 DEF MergedByCommitted
        <3>2. j < txIndex'
            BY <1>0, <2>1, <3>1 DEF TypeOK
        <3> QED
            BY <3>1, <3>2
    <2>4. CASE execInfos[txIndex].writes[l] # NoWrite
        BY <2>1, <2>4 DEF Writes
    <2> QED
        BY <2>2, <2>3, <2>4
<1>8. CASE Abort
    <2>1. /\ txIndex' = txIndex + 1
          /\ UNCHANGED <<selectedTxs, abortFlags, execInfos, mergedWrites>>
        BY <1>8 DEF Abort
    <2>2. \A j \in DOMAIN selectedTxs : j < txIndex => j < txIndex'
        BY <2>1, <1>0 DEF TypeOK
    <2> QED
        BY <2>1, <2>2, <1>0 DEF MergedByCommitted, Writes
<1>9. CASE EndRound
    BY <1>9, <1>a DEF EndRound
<1>10. CASE Finish
    BY <1>10, <1>0, <1>a DEF Finish, RoundShape, roundVars
<1>11. CASE Timeout
    BY <1>11, <1>0, <1>a DEF Timeout, RoundShape, roundVars
<1>12. CASE UNCHANGED vars
    BY <1>12, <1>0 DEF vars, roundVars, MergedByCommitted, Writes
<1> QED
    BY <1>1, <1>2, <1>3, <1>4, <1>5, <1>6, <1>7, <1>8, <1>9, <1>10, <1>11,
       <1>12 DEF Next

\* The lists a transaction can be in are disjoint and without repetition.
LEMMA NoTxTwiceStep ==
    ASSUME IInv, [Next]_vars
    PROVE  NoTxTwice'
<1>0. TypeOK /\ NoTxTwice /\ RoundShape
    BY DEF IInv
<1>a. ASSUME UNCHANGED <<txBatch, selectedTxs, abortedTxs, txIndex>>
      PROVE  NoTxTwice'
    BY <1>a, <1>0 DEF NoTxTwice, Distinct
<1>1. CASE Schedule
    <2>1. Distinct(txBatch') /\ txBatch' \in Seq(Tx)
        BY <1>1, BatchesType DEF Schedule
    <2>2. /\ selectedTxs' = << >> /\ abortedTxs' = << >>
        BY <1>1, <1>0 DEF Schedule, RoundShape, roundVars
    <2> QED
        BY <2>1, <2>2 DEF NoTxTwice, Distinct
<1>2. CASE Select
    <2> DEFINE n == MinNat(batchSize, Len(txBatch))
    <2>0. n \in 1..Len(txBatch)
        BY <1>2, <1>0, BatchSizeAssumption DEF TypeOK, Select, MinNat
    <2>1. /\ selectedTxs' = SubSeq(txBatch, 1, n)
          /\ txBatch' = SubSeq(txBatch, n + 1, Len(txBatch))
          /\ abortedTxs' = << >>
        BY <1>2 DEF Select
    <2> HIDE DEF n
    <2>2. /\ DOMAIN selectedTxs' = 1..n
          /\ \A i \in 1..n : i \in DOMAIN txBatch /\ selectedTxs'[i] = txBatch[i]
        BY <2>0, <2>1, <1>0 DEF TypeOK
    <2>3. /\ DOMAIN txBatch' = 1..(Len(txBatch) - n)
          /\ \A i \in 1..(Len(txBatch) - n) :
                i + n \in DOMAIN txBatch /\ txBatch'[i] = txBatch[i + n]
        BY <2>0, <2>1, <1>0 DEF TypeOK
    <2>4. Distinct(selectedTxs') /\ Distinct(txBatch')
        <3>1. txBatch \in Seq(Tx) /\ Distinct(txBatch)
            BY <1>0 DEF NoTxTwice, TypeOK
        <3>2. /\ 1 \in 1..(Len(txBatch) + 1) /\ n \in 0..Len(txBatch)
              /\ n + 1 \in 1..(Len(txBatch) + 1) /\ Len(txBatch) \in 0..Len(txBatch)
            BY <2>0, <3>1
        <3>3. Distinct(SubSeq(txBatch, 1, n)) /\ Distinct(SubSeq(txBatch, n + 1, Len(txBatch)))
            BY <3>1, <3>2, DistinctSubSeq
        <3> QED
            BY <2>1, <3>3
    <2>5. ASSUME NEW i \in DOMAIN txBatch', NEW j \in DOMAIN selectedTxs'
          PROVE  txBatch'[i] # selectedTxs'[j]
        <3>1. i + n # j /\ i + n \in DOMAIN txBatch /\ j \in DOMAIN txBatch
            BY <2>0, <2>2, <2>3, <1>0 DEF TypeOK
        <3> QED
            BY <2>2, <2>3, <3>1, <1>0 DEF NoTxTwice, Distinct
    <2>6. Distinct(abortedTxs') /\ DOMAIN abortedTxs' = {}
        BY <2>1 DEF Distinct
    <2> QED
        BY <2>4, <2>5, <2>6 DEF NoTxTwice
<1>3. ASSUME NEW i \in DOMAIN selectedTxs, Execute(i)
      PROVE  NoTxTwice'
    BY <1>3, <1>a DEF Execute
<1>4. CASE DetectConflicts
    BY <1>4, <1>a DEF DetectConflicts
<1>5. CASE Recheck
    <2>1. abortedTxs' = << >>
        BY <1>5, <1>0 DEF Recheck, RoundShape
    <2> QED
        BY <1>5, <2>1, <1>0 DEF Recheck, NoTxTwice, Distinct
<1>6. CASE RecheckDone
    <2>1. abortedTxs' = << >>
        BY <1>6, <1>0 DEF RecheckDone, RoundShape
    <2> QED
        BY <1>6, <2>1, <1>0 DEF RecheckDone, NoTxTwice, Distinct
<1>7. CASE Commit
    <2>1. \A j \in DOMAIN selectedTxs : j < txIndex => j < txIndex'
        BY <1>7, <1>0 DEF Commit, TypeOK
    <2> QED
        BY <1>7, <2>1, <1>0 DEF Commit, NoTxTwice, Distinct
<1>8. CASE Abort
    <2>1. /\ txIndex \in DOMAIN selectedTxs
          /\ txIndex < txIndex'
          /\ \A j \in DOMAIN selectedTxs : j < txIndex => j < txIndex' /\ j # txIndex
          /\ UNCHANGED <<selectedTxs, txBatch>>
        BY <1>8, <1>0 DEF Abort, TypeOK
    <2>2. /\ DOMAIN abortedTxs' = DOMAIN abortedTxs \cup {Len(abortedTxs) + 1}
          /\ Len(abortedTxs) + 1 \notin DOMAIN abortedTxs
          /\ \A i \in DOMAIN abortedTxs : abortedTxs'[i] = abortedTxs[i]
          /\ abortedTxs'[Len(abortedTxs) + 1] = selectedTxs[txIndex]
        BY <1>8, <2>1, <1>0 DEF Abort, TypeOK
    <2>3. \A i \in DOMAIN abortedTxs : abortedTxs[i] # selectedTxs[txIndex]
        BY <2>1, <1>0 DEF NoTxTwice, Distinct
    <2>4. Distinct(abortedTxs')
        BY <2>2, <2>3, <1>0 DEF NoTxTwice, Distinct
    <2>5. \A i \in DOMAIN abortedTxs' : \E j \in DOMAIN selectedTxs :
              j < txIndex' /\ abortedTxs'[i] = selectedTxs[j]
        BY <2>1, <2>2, <1>0 DEF NoTxTwice
    <2> QED
        BY <2>1, <2>4, <2>5, <1>0 DEF NoTxTwice, Distinct
<1>9. CASE EndRound
    <2>1. /\ txBatch' = abortedTxs \o txBatch
          /\ selectedTxs' = << >> /\ abortedTxs' = << >>
        BY <1>9 DEF EndRound
    <2>3. \A i \in DOMAIN abortedTxs, j \in DOMAIN txBatch : abortedTxs[i] # txBatch[j]
        BY <1>0 DEF NoTxTwice
    <2>4. Distinct(txBatch')
        BY <2>1, <2>3, <1>0, DistinctConcat DEF NoTxTwice, TypeOK
    <2> QED
        BY <2>1, <2>4 DEF NoTxTwice, Distinct
<1>10. CASE Finish
    BY <1>10, <1>a DEF Finish, roundVars
<1>11. CASE Timeout
    BY <1>11, <1>a DEF Timeout, roundVars
<1>12. CASE UNCHANGED vars
    BY <1>12, <1>a DEF vars, roundVars
<1> QED
    BY <1>1, <1>2, <1>3, <1>4, <1>5, <1>6, <1>7, <1>8, <1>9, <1>10, <1>11,
       <1>12 DEF Next

LEMMA NextIInv == IInv /\ [Next]_vars => IInv'
<1> SUFFICES ASSUME IInv, [Next]_vars
             PROVE  IInv'
    OBVIOUS
<1>1. TypeOK'
    BY NextType DEF IInv
<1> QED
    BY <1>1, RunsRecordedStep, RoundShapeStep, FlagsSettledStep,
       MergedByCommittedStep, NoTxTwiceStep DEF IInv

\* The parts of the inductive invariant hold in every state of every call.
THEOREM Invariance == Spec => []IInv
BY InitIInv, NextIInv, PTL DEF Spec

(***************************************************************************)
(* Rechecking aborts exactly the transactions that read a key name written *)
(* by a committed predecessor of their round.                              *)
(***************************************************************************)
THEOREM AbortsAreExplained == Spec => []AbortsExplained
<1>1. IInv => AbortsExplained
    BY DEF IInv, FlagsSettled, AbortsExplained
<1> QED
    BY <1>1, Invariance, PTL

\* Every round of Schedule makes progress.
THEOREM RoundsMakeProgress == Spec => RoundsShrinkTheBatch
<1>1. IInv /\ [Next]_vars =>
          [pc = "commit" /\ pc' = "round"
            => Len(txBatch') < Len(selectedTxs) + Len(txBatch)]_vars
    <2> SUFFICES ASSUME IInv, Next, pc = "commit", pc' = "round"
                 PROVE  Len(txBatch') < Len(selectedTxs) + Len(txBatch)
        OBVIOUS
    <2>1. EndRound
        BY DEF Next, Schedule, Select, Execute, DetectConflicts, Recheck,
               RecheckDone, Commit, Abort, Finish, Timeout
    <2>2. /\ TypeOK /\ RoundShape
          /\ txBatch' = abortedTxs \o txBatch
          /\ txIndex > Len(selectedTxs)
        BY <2>1 DEF EndRound, IInv
    <2>3. Len(selectedTxs) > 0
        BY <2>2 DEF TypeOK, RoundShape
    <2>4. Len(abortedTxs) < Len(selectedTxs)
        BY <2>2, <2>3 DEF TypeOK, RoundShape
    <2> QED
        BY <2>2, <2>4 DEF TypeOK
<1> QED
    BY <1>1, Invariance, PTL DEF Spec, RoundsShrinkTheBatch

-----------------------------------------------------------------------------
(* Serializability: Schedule implements the serial ledger.                 *)

\* The ledger is about the same transactions and the same states.
LEMMA LedgerOperators ==
    /\ Ledger!State = State
    /\ \A t, d, e : Ledger!ExecuteTx(t, d, e) = ExecuteTx(t, d, e)
    /\ \A d, w : Ledger!ApplyWrites(d, w) = ApplyWrites(d, w)
BY DEF Ledger!State, Ledger!Loc, State, Loc, Ledger!ExecuteTx, ExecuteTx,
       Ledger!GetTxRWSet, GetTxRWSet, Ledger!ApplyWrites, ApplyWrites

\* What a transaction about to commit has read, no committed one has written.
LEMMA NoStaleRead ==
    ASSUME IInv, Commit, NEW l \in execInfos[txIndex].reads
    PROVE  mergedWrites[l] = NoWrite
<1>0. /\ pc = "commit" /\ ~abortFlags[txIndex]
      /\ txIndex \in DOMAIN selectedTxs
      /\ l \in Loc
    BY DEF Commit, IInv, TypeOK, RWSet
<1> SUFFICES ASSUME mergedWrites[l] # NoWrite
             PROVE  FALSE
    OBVIOUS
<1>1. PICK j \in DOMAIN selectedTxs :
            j < txIndex /\ ~abortFlags[j] /\ Writes(execInfos[j], l)
    BY <1>0 DEF IInv, MergedByCommitted
<1>2. l[1] \in Contract /\ l = <<l[1], l[2]>>
    BY <1>0 DEF Loc
<1>3. j \in masterWS(l[2])
    BY <1>1, <1>2 DEF masterWS
<1>4. j \in isRAWConflictWithDeps(txIndex)
    BY <1>1, <1>3 DEF isRAWConflictWithDeps
<1> QED
    BY <1>0, <1>1, <1>4 DEF IInv, FlagsSettled

\* The round's execution of a committing transaction is the serial one.
LEMMA CommitRunsSerially ==
    ASSUME NoIterators, IInv, Commit
    PROVE  LET t == selectedTxs[txIndex]
               d == ApplyWrites(db, mergedWrites)
           IN  ExecuteTx(t, d, d) = execInfos[txIndex]
<1> DEFINE t == selectedTxs[txIndex]
           d == ApplyWrites(db, mergedWrites)
<1>1. /\ txIndex \in DOMAIN selectedTxs /\ t \in Tx
      /\ db \in State /\ store \in State /\ d \in State
    BY ApplyWritesType DEF IInv, TypeOK, Commit
<1>2. execInfos[txIndex] = ExecuteTx(t, db, store)
    BY <1>1 DEF IInv, RunsRecorded, Commit
<1>3. \A l \in ExecuteTx(t, db, store).reads : db[l] = d[l]
    <2> SUFFICES ASSUME NEW l \in execInfos[txIndex].reads
                 PROVE  db[l] = d[l]
        BY <1>2
    <2>1. mergedWrites[l] = NoWrite /\ l \in Loc
        BY <1>1, NoStaleRead DEF IInv, TypeOK, RWSet
    <2> QED
        BY <2>1 DEF ApplyWrites
<1>4. ExecuteTx(t, d, store) = execInfos[txIndex]
    BY <1>1, <1>2, <1>3, ExecuteTxLocality
<1>5. RunVM(t, d, d) = RunVM(t, d, store)
    BY <1>1 DEF NoIterators
<1> QED
    BY <1>4, <1>5 DEF ExecuteTx

\* If key names do not clash, merging loses no write.
LEMMA MergingAppliesInOrder ==
    ASSUME NoKeyClash, IInv, Commit
    PROVE  LET w == execInfos[txIndex].writes IN
           ApplyWrites(db, MergeInto(mergedWrites, w))
             = ApplyWrites(ApplyWrites(db, mergedWrites), w)
<1> DEFINE w == execInfos[txIndex].writes
           m == MergeInto(mergedWrites, w)
<1>1. /\ txIndex \in DOMAIN selectedTxs
      /\ db \in State /\ store \in State
      /\ \A j \in DOMAIN selectedTxs :
            selectedTxs[j] \in Tx /\ execInfos[j] = ExecuteTx(selectedTxs[j], db, store)
    BY DEF IInv, TypeOK, RunsRecorded, Commit
<1>2. \A j \in DOMAIN selectedTxs, k \in DOMAIN selectedTxs, l1 \in Loc, l2 \in Loc :
          Writes(execInfos[j], l1) /\ Writes(execInfos[k], l2) /\ l1[2] = l2[2] => l1 = l2
    <2> SUFFICES ASSUME NEW j \in DOMAIN selectedTxs, NEW k \in DOMAIN selectedTxs,
                        NEW l1 \in Loc, NEW l2 \in Loc,
                        Writes(execInfos[j], l1), Writes(execInfos[k], l2), l1[2] = l2[2]
                 PROVE  l1 = l2
        BY Zenon
    <2>1. /\ Writes(ExecuteTx(selectedTxs[j], db, store), l1)
          /\ Writes(ExecuteTx(selectedTxs[k], db, store), l2)
        BY <1>1, Zenon
    <2> QED
        BY <1>1, <2>1, Zenon DEF NoKeyClash
<1> SUFFICES ASSUME NEW l \in Loc
             PROVE  (IF m[l] = NoWrite THEN db[l] ELSE m[l])
                      = IF w[l] = NoWrite
                        THEN IF mergedWrites[l] = NoWrite THEN db[l] ELSE mergedWrites[l]
                        ELSE w[l]
    BY DEF ApplyWrites
<1> DEFINE writers == {c \in Contract : w[<<c, l[2]>>] # NoWrite}
<1>3. l[1] \in Contract /\ l[2] \in Key /\ l = <<l[1], l[2]>>
    BY DEF Loc
<1>4. m[l] = IF writers = {} THEN mergedWrites[l]
             ELSE IF l[1] \in writers /\ \A c \in writers : c <= l[1] THEN w[l]
             ELSE NoWrite
    BY DEF MergeInto
<1>5. CASE w[l] # NoWrite
    <2>1. l[1] \in writers
        BY <1>3, <1>5
    <2>2. \A c \in writers : c = l[1]
        <3> SUFFICES ASSUME NEW c \in writers
                     PROVE  c = l[1]
            OBVIOUS
        <3>1. <<c, l[2]>> \in Loc
            BY <1>3 DEF Loc
        <3>2. <<c, l[2]>> = l
            BY <1>1, <1>2, <1>5, <3>1 DEF Writes
        <3> QED
            BY <3>2
    <2>3. \A c \in writers : c <= l[1]
        BY <2>2, <1>3, ContractAssumption
    <2> QED
        BY <1>4, <1>5, <2>1, <2>3
<1>6. CASE w[l] = NoWrite /\ writers = {}
    BY <1>4, <1>6
<1>7. CASE w[l] = NoWrite /\ writers # {}
    <2>1. PICK c \in Contract : w[<<c, l[2]>>] # NoWrite
        BY <1>7
    <2>2. <<c, l[2]>> \in Loc /\ <<c, l[2]>> # l
        BY <1>3, <1>7, <2>1 DEF Loc
    <2>3. mergedWrites[l] = NoWrite
        <3> SUFFICES ASSUME mergedWrites[l] # NoWrite
                     PROVE  FALSE
            OBVIOUS
        <3>1. PICK j \in DOMAIN selectedTxs : Writes(execInfos[j], l)
            BY DEF IInv, MergedByCommitted
        <3>2. Writes(execInfos[txIndex], <<c, l[2]>>)
            BY <2>1 DEF Writes
        <3>3. <<c, l[2]>>[2] = l[2]
            OBVIOUS
        <3> QED
            BY <1>1, <1>2, <2>2, <3>1, <3>2, <3>3, Zenon
    <2>4. m[l] = NoWrite
        BY <1>3, <1>4, <1>7
    <2> QED
        BY <1>7, <2>3, <2>4
<1> QED
    BY <1>5, <1>6, <1>7

\* The transactions of sequences.
LEMMA ElementsEmpty == Elements(<< >>) = {}
BY DEF Elements

LEMMA ElementsAppend ==
    ASSUME NEW s \in Seq(Tx), NEW t \in Tx
    PROVE  Elements(Append(s, t)) = Elements(s) \cup {t}
<1>1. /\ DOMAIN Append(s, t) = 1..(Len(s) + 1) /\ DOMAIN s = 1..Len(s) /\ Len(s) \in Nat
      /\ Append(s, t)[Len(s) + 1] = t
      /\ \A i \in 1..Len(s) : Append(s, t)[i] = s[i]
    OBVIOUS
<1>2. 1..(Len(s) + 1) = 1..Len(s) \cup {Len(s) + 1}
    BY <1>1
<1> HIDE DEF Elements
<1> QED
    BY <1>1, <1>2 DEF Elements

LEMMA ElementsConcat ==
    ASSUME NEW s \in Seq(Tx), NEW u \in Seq(Tx)
    PROVE  Elements(s \o u) = Elements(s) \cup Elements(u)
<1> DEFINE v == s \o u
<1>1. /\ DOMAIN v = 1..(Len(s) + Len(u)) /\ DOMAIN s = 1..Len(s) /\ DOMAIN u = 1..Len(u)
      /\ Len(s) \in Nat /\ Len(u) \in Nat
      /\ \A i \in 1..(Len(s) + Len(u)) :
            v[i] = IF i <= Len(s) THEN s[i] ELSE u[i - Len(s)]
    OBVIOUS
<1> HIDE DEF v
<1>2. \A i \in DOMAIN s : i \in DOMAIN v /\ v[i] = s[i]
    BY <1>1
<1>3. \A i \in DOMAIN u : i + Len(s) \in DOMAIN v /\ v[i + Len(s)] = u[i]
    BY <1>1
<1>4. \A i \in DOMAIN v : \/ i \in DOMAIN s /\ v[i] = s[i]
                          \/ i - Len(s) \in DOMAIN u /\ v[i] = u[i - Len(s)]
    <2> SUFFICES ASSUME NEW i \in DOMAIN v
                 PROVE  \/ i \in DOMAIN s /\ v[i] = s[i]
                        \/ i - Len(s) \in DOMAIN u /\ v[i] = u[i - Len(s)]
        OBVIOUS
    <2>1. CASE i <= Len(s)
        BY <1>1, <2>1
    <2>2. CASE i > Len(s)
        BY <1>1, <2>2
    <2> QED
        BY <1>1, <2>1, <2>2
<1>5. Elements(v) \subseteq Elements(s) \cup Elements(u)
    BY <1>4, Zenon DEF Elements
<1>6. Elements(s) \cup Elements(u) \subseteq Elements(v)
    BY <1>2, <1>3, Zenon DEF Elements
<1> QED
    BY <1>5, <1>6 DEF v

LEMMA ElementsSplit ==
    ASSUME NEW s \in Seq(Tx), NEW n \in 1..Len(s)
    PROVE  Elements(s) = Elements(SubSeq(s, n + 1, Len(s))) \cup Elements(SubSeq(s, 1, n))
<1> DEFINE p == SubSeq(s, 1, n)
           q == SubSeq(s, n + 1, Len(s))
<1>1. /\ n \in Nat /\ Len(s) \in Nat /\ n <= Len(s) /\ DOMAIN s = 1..Len(s)
      /\ DOMAIN p = 1..n /\ \A i \in 1..n : p[i] = s[i]
      /\ DOMAIN q = 1..(Len(s) - n) /\ \A i \in 1..(Len(s) - n) : q[i] = s[i + n]
    OBVIOUS
<1> HIDE DEF p, q
<1>2. \A i \in DOMAIN p : i \in DOMAIN s /\ p[i] = s[i]
    BY <1>1
<1>3. \A i \in DOMAIN q : i + n \in DOMAIN s /\ q[i] = s[i + n]
    BY <1>1
<1>4. \A i \in DOMAIN s : \/ i \in DOMAIN p /\ s[i] = p[i]
                          \/ i - n \in DOMAIN q /\ s[i] = q[i - n]
    <2> SUFFICES ASSUME NEW i \in DOMAIN s
                 PROVE  \/ i \in DOMAIN p /\ s[i] = p[i]
                        \/ i - n \in DOMAIN q /\ s[i] = q[i - n]
        OBVIOUS
    <2>1. CASE i <= n
        BY <1>1, <2>1
    <2>2. CASE i > n
        <3>1. i - n \in 1..(Len(s) - n) /\ (i - n) + n = i
            BY <1>1, <2>2
        <3> QED
            BY <1>1, <3>1
    <2> QED
        BY <1>1, <2>1, <2>2
<1>5. Elements(s) \subseteq Elements(q) \cup Elements(p)
    BY <1>4, Zenon DEF Elements
<1>6. Elements(q) \cup Elements(p) \subseteq Elements(s)
    BY <1>2, <1>3, Zenon DEF Elements
<1> QED
    BY <1>5, <1>6 DEF p, q

LEMMA ConcatAppend ==
    ASSUME NEW s \in Seq(Tx), NEW u \in Seq(Tx), NEW t \in Tx
    PROVE  s \o Append(u, t) = Append(s \o u, t)
OBVIOUS

LEMMA InitSerial == Init => Ledger!LedgerInit
<1> SUFFICES ASSUME Init PROVE Ledger!LedgerInit
    OBVIOUS
<1>1. store \in State /\ db = store /\ mergedWrites = NoWrites
    BY DEF Init
<1>2. ApplyWrites(db, mergedWrites) = store
    BY <1>1, ApplyNoWrites
<1>3. Pending = {}
    BY DEF Init, Pending, Elements
<1>4. blockTxs \o committedTxs = << >> /\ txRWSetMap = [t \in Tx |-> NoRWSet]
    BY DEF Init
<1> QED
    BY <1>1, <1>2, <1>3, <1>4, LedgerOperators DEF Ledger!LedgerInit

\* Steps that change neither the lists nor the states are stuttering steps.
LEMMA StutterSerial ==
    ASSUME UNCHANGED <<store, db, mergedWrites, blockTxs, committedTxs, txRWSetMap>>,
           Pending' = Pending
    PROVE  UNCHANGED Ledger!ledger
BY DEF Ledger!ledger

\* Every step of Schedule is a step of the serial ledger or none.
LEMMA NextSerial ==
    ASSUME NoKeyClash, NoIterators, IInv, IInv', [Next]_vars
    PROVE  [Ledger!LedgerNext]_Ledger!ledger
<1>0. TypeOK /\ TypeOK' /\ RoundShape /\ NoTxTwice
    BY DEF IInv
<1>a. /\ selectedTxs \in Seq(Tx) /\ abortedTxs \in Seq(Tx)
      /\ txIndex \in 1..(Len(selectedTxs) + 1)
    BY <1>0 DEF TypeOK
<1>1. CASE Schedule
    <2>1. /\ mergedWrites = NoWrites /\ mergedWrites' = NoWrites
          /\ selectedTxs' = << >> /\ abortedTxs' = << >> /\ committedTxs' = << >>
          /\ blockTxs' = << >>
          /\ txRWSetMap' = [t \in Tx |-> NoRWSet]
          /\ store' \in {store, db} /\ db' = store'
        BY <1>1, <1>0 DEF Schedule, RoundShape, roundVars
    <2>2. /\ ApplyWrites(db, mergedWrites) = db
          /\ ApplyWrites(db', mergedWrites') = store'
        BY <2>1, <1>0, ApplyNoWrites DEF TypeOK
    <2>3. Pending' \in SUBSET Tx
        <3>1. {selectedTxs'[i] : i \in {j \in DOMAIN selectedTxs' :
                                          pc' = "commit" => j >= txIndex'}} = {}
            BY <2>1
        <3>2. Pending' = Elements(txBatch')
            BY <2>1, <3>1, ElementsEmpty DEF Pending
        <3>3. txBatch' \in Seq(Tx)
            BY <1>0 DEF TypeOK
        <3>4. Elements(txBatch') \subseteq Tx
            BY <3>3 DEF Elements
        <3> QED
            BY <3>2, <3>4
    <2>4. (blockTxs \o committedTxs)' = << >>
        BY <2>1
    <2>5. Ledger!NewBlock
        BY <2>1, <2>2, <2>3, <2>4 DEF Ledger!NewBlock
    <2> QED
        BY <2>5 DEF Ledger!LedgerNext
<1>2. CASE Select
    <2> DEFINE n == MinNat(batchSize, Len(txBatch))
    <2>0. n \in 1..Len(txBatch)
        BY <1>2, <1>0, BatchSizeAssumption DEF TypeOK, Select, MinNat
    <2>1. /\ selectedTxs' = SubSeq(txBatch, 1, n)
          /\ txBatch' = SubSeq(txBatch, n + 1, Len(txBatch))
          /\ selectedTxs = << >> /\ abortedTxs = << >> /\ abortedTxs' = << >>
          /\ pc' = "execute"
        BY <1>2, <1>0 DEF Select, RoundShape
    <2> HIDE DEF n
    <2>2. Elements(txBatch) = Elements(txBatch') \cup Elements(selectedTxs')
        BY <2>0, <2>1, <1>0, ElementsSplit DEF TypeOK
    <2>3. Pending = Elements(txBatch)
        BY <2>1, ElementsEmpty DEF Pending
    <2>4. {j \in DOMAIN selectedTxs' : pc' = "commit" => j >= txIndex'} = DOMAIN selectedTxs'
        BY <2>1
    <2>5. Pending' = Elements(txBatch') \cup Elements(abortedTxs') \cup Elements(selectedTxs')
        BY <2>4 DEF Pending, Elements
    <2>6. Elements(abortedTxs') = {}
        BY <2>1, ElementsEmpty
    <2>7. Pending' = Pending
        BY <2>2, <2>3, <2>5, <2>6
    <2> QED
        BY <1>2, <1>0, <2>7, StutterSerial DEF Select, RoundShape
<1>3. ASSUME NEW i \in DOMAIN selectedTxs, Execute(i)
      PROVE  UNCHANGED Ledger!ledger
    BY <1>3, StutterSerial DEF Execute, Pending, Elements
<1>4. CASE DetectConflicts
    BY <1>4, StutterSerial DEF DetectConflicts, Pending, Elements
<1>5. CASE Recheck
    BY <1>5, StutterSerial DEF Recheck, Pending, Elements
<1>6. CASE RecheckDone
    <2>1. \A j \in DOMAIN selectedTxs : j >= 1
        BY <1>0 DEF TypeOK
    <2>2. Pending' = Pending
        BY <1>6, <2>1 DEF RecheckDone, Pending, Elements
    <2> QED
        BY <1>6, <2>2, StutterSerial DEF RecheckDone
<1>7. CASE Commit
    <2> DEFINE t == selectedTxs[txIndex]
               d == ApplyWrites(db, mergedWrites)
               rwset == execInfos[txIndex]
    <2>1. /\ pc = "commit" /\ pc' = "commit"
          /\ txIndex \in DOMAIN selectedTxs /\ txIndex' = txIndex + 1
          /\ t \in Tx
          /\ UNCHANGED <<txBatch, abortedTxs, selectedTxs, store, db, blockTxs>>
          /\ txRWSetMap' = [txRWSetMap EXCEPT ![t] = rwset]
          /\ mergedWrites' = MergeInto(mergedWrites, rwset.writes)
          /\ committedTxs' = Append(committedTxs, t)
        BY <1>7, <1>a DEF Commit
    <2>2. ExecuteTx(t, d, d) = rwset
        BY <1>7, CommitRunsSerially
    <2>3. ApplyWrites(db', mergedWrites') = ApplyWrites(d, rwset.writes)
        BY <1>7, <2>1, MergingAppliesInOrder
    <2>4. (blockTxs \o committedTxs)' = Append(blockTxs \o committedTxs, t)
        <3>1. blockTxs \in Seq(Tx) /\ committedTxs \in Seq(Tx) /\ t \in Tx
            BY <2>1, <1>0 DEF TypeOK
        <3>2. (blockTxs \o committedTxs)' = blockTxs \o Append(committedTxs, t)
            BY <2>1
        <3> HIDE DEF t
        <3> QED
            BY <3>1, <3>2, ConcatAppend
    <2>n. txIndex \in Nat
        BY <1>0 DEF TypeOK
    <2>5. t \in Pending
        <3>1. txIndex >= txIndex
            BY <2>n
        <3> QED
            BY <2>1, <3>1 DEF Pending
    <2>6. Pending' = Pending \ {t}
        <3>0. \A j \in DOMAIN selectedTxs : selectedTxs[j] = t => j = txIndex
            BY <2>1, <1>0 DEF NoTxTwice, Distinct
        <3>1. t \notin Elements(txBatch)
            BY <2>1, <1>0 DEF NoTxTwice, Elements
        <3>2. t \notin Elements(abortedTxs)
            <4> SUFFICES ASSUME NEW i \in DOMAIN abortedTxs, abortedTxs[i] = t
                         PROVE  FALSE
                BY DEF Elements
            <4>1. PICK j \in DOMAIN selectedTxs : j < txIndex /\ abortedTxs[i] = selectedTxs[j]
                BY <1>0 DEF NoTxTwice
            <4>2. j = txIndex
                BY <3>0, <4>1
            <4> QED
                BY <4>1, <4>2, <2>n
        <3>3. {j \in DOMAIN selectedTxs : j >= txIndex'}
                = {j \in DOMAIN selectedTxs : j >= txIndex} \ {txIndex}
            BY <2>1, <1>0 DEF TypeOK
        <3> DEFINE later == {j \in DOMAIN selectedTxs : j >= txIndex}
        <3>5. Pending = Elements(txBatch) \cup Elements(abortedTxs)
                            \cup {selectedTxs[i] : i \in later}
            BY <2>1 DEF Pending
        <3>6. Pending' = Elements(txBatch) \cup Elements(abortedTxs)
                            \cup {selectedTxs[i] : i \in later \ {txIndex}}
            BY <2>1, <3>3 DEF Pending
        <3>7. \A j \in later : j \in DOMAIN selectedTxs
            OBVIOUS
        <3> HIDE DEF later, t
        <3>8. {selectedTxs[i] : i \in later \ {txIndex}} = {selectedTxs[i] : i \in later} \ {t}
            BY <3>0, <3>7, Zenon DEF t
        <3> QED
            BY <3>1, <3>2, <3>5, <3>6, <3>8
    <2>7. Ledger!RunTx(t)
        BY <2>1, <2>2, <2>3, <2>4, <2>5, <2>6, LedgerOperators DEF Ledger!RunTx
    <2> QED
        BY <2>1, <2>7 DEF Ledger!LedgerNext
<1>8. CASE Abort
    <2>1. /\ pc = "commit" /\ pc' = "commit"
          /\ txIndex \in DOMAIN selectedTxs /\ txIndex' = txIndex + 1
          /\ UNCHANGED <<txBatch, selectedTxs>>
          /\ abortedTxs' = Append(abortedTxs, selectedTxs[txIndex])
        BY <1>8, <1>a DEF Abort
    <2>2. Elements(abortedTxs') = Elements(abortedTxs) \cup {selectedTxs[txIndex]}
        <3>1. selectedTxs[txIndex] \in Tx /\ abortedTxs \in Seq(Tx)
            BY <2>1, <1>a
        <3> QED
            BY <2>1, <3>1, ElementsAppend
    <2>3. {j \in DOMAIN selectedTxs : j >= txIndex}
             = {j \in DOMAIN selectedTxs : j >= txIndex'} \cup {txIndex}
        BY <2>1, <1>a
    <2>4. Pending' = Pending
        BY <2>1, <2>2, <2>3 DEF Pending
    <2> QED
        BY <1>8, <2>4, StutterSerial DEF Abort
<1>9. CASE EndRound
    <2>1. /\ db' = ApplyWrites(db, mergedWrites) /\ mergedWrites' = NoWrites
          /\ blockTxs' = blockTxs \o committedTxs /\ committedTxs' = << >>
          /\ txBatch' = abortedTxs \o txBatch
          /\ selectedTxs' = << >> /\ abortedTxs' = << >>
          /\ txIndex > Len(selectedTxs) /\ pc = "commit"
          /\ UNCHANGED <<store, txRWSetMap>>
        BY <1>9 DEF EndRound
    <2>2. ApplyWrites(db', mergedWrites') = ApplyWrites(db, mergedWrites)
        BY <2>1, <1>0, ApplyNoWrites DEF TypeOK
    <2>3. (blockTxs \o committedTxs)' = blockTxs \o committedTxs
        BY <2>1, <1>0 DEF TypeOK
    <2>4. Pending = Elements(txBatch) \cup Elements(abortedTxs)
        <3>1. {j \in DOMAIN selectedTxs : pc = "commit" => j >= txIndex} = {}
            <4>1. selectedTxs \in Seq(Tx) /\ txIndex \in Nat
                BY <1>0 DEF TypeOK
            <4> QED
                BY <2>1, <4>1
        <3> QED
            BY <3>1 DEF Pending
    <2>5. Pending' = Elements(txBatch')
        <3>1. {selectedTxs'[i] : i \in {j \in DOMAIN selectedTxs' :
                                          pc' = "commit" => j >= txIndex'}} = {}
            BY <2>1
        <3> QED
            BY <2>1, <3>1, ElementsEmpty DEF Pending
    <2>6. Elements(txBatch') = Elements(txBatch) \cup Elements(abortedTxs)
        BY <2>1, <1>0, ElementsConcat DEF TypeOK
    <2> QED
        BY <2>1, <2>2, <2>3, <2>4, <2>5, <2>6 DEF Ledger!ledger
<1>10. CASE Finish
    <2>1. Pending' = Pending
        BY <1>10 DEF Finish, roundVars, Pending, Elements
    <2> QED
        BY <1>10, <2>1, StutterSerial DEF Finish, roundVars
<1>11. CASE Timeout
    <2>1. Pending' = Pending
        BY <1>11 DEF Timeout, roundVars, Pending, Elements
    <2> QED
        BY <1>11, <2>1, StutterSerial DEF Timeout, roundVars
<1>12. CASE UNCHANGED vars
    BY <1>12, StutterSerial DEF vars, roundVars, Pending, Elements
<1> QED
    BY <1>1, <1>2, <1>3, <1>4, <1>5, <1>6, <1>7, <1>8, <1>9, <1>10, <1>11,
       <1>12 DEF Next

(***************************************************************************)
(* If no key name is written in two contracts and no transaction uses an   *)
(* iterator, then block.Txs is a serial order of the block: every          *)
(* committed transaction has the read/write set of the serial execution,   *)
(* the snapshot ends in its state, and no transaction is lost or run twice.*)
(***************************************************************************)
THEOREM Serializability ==
    ASSUME NoKeyClash, NoIterators
    PROVE  Spec => Serializable
<1>1. IInv /\ IInv' /\ [Next]_vars => [Ledger!LedgerNext]_Ledger!ledger
    BY NextSerial
<1> QED
    BY <1>1, InitSerial, Invariance, PTL DEF Spec, Serializable, Ledger!LedgerSpec
=============================================================================
