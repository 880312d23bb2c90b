----------------------------- MODULE AriaProofs -----------------------------
(***************************************************************************)
(* Proofs about the Aria scheduler, for any transactions, any batch size   *)
(* and any interleaving of its goroutines.                                 *)
(***************************************************************************)
EXTENDS Aria, TLAPS

-----------------------------------------------------------------------------
(* Facts about executing transactions.                                     *)

LEMMA ExecuteTxType ==
    ASSUME NEW t \in Tx, NEW d \in State, NEW s \in State
    PROVE  ExecuteTx(t, d, s) \in RWSet
<1>1. RunVM(t, d, s) \in RWSet
    BY RunVMType
<1> QED
    BY <1>1 DEF ExecuteTx, GetTxRWSet, RWSet, WriteSet

\* A transaction whose reads are the same in two states runs the same in both.
LEMMA ExecuteTxLocality ==
    ASSUME NEW t \in Tx, NEW d \in State, NEW e \in State, NEW s \in State,
           \A l \in ExecuteTx(t, d, s).reads : d[l] = e[l]
    PROVE  ExecuteTx(t, e, s) = ExecuteTx(t, d, s)
<1>1. ExecuteTx(t, d, s).reads = RunVM(t, d, s).reads
    BY DEF ExecuteTx, GetTxRWSet
<1>2. RunVM(t, e, s) = RunVM(t, d, s)
    BY <1>1, RunVMLocality
<1> QED
    BY <1>2 DEF ExecuteTx

LEMMA ApplyWritesType ==
    ASSUME NEW d \in State, NEW rw \in RWSet
    PROVE  ApplyWrites(d, rw.writes) \in State
BY DEF ApplyWrites, State, WriteSet, RWSet

LEMMA NotRunType == NotRun \in RWSet
BY DEF NotRun, RWSet, NoWrites, WriteSet

LEMMA KeysType ==
    ASSUME NEW rw \in RWSet
    PROVE  WriteKeys(rw) \in SUBSET ReserveKey /\ ReadKeys(rw) \in SUBSET ReserveKey
BY DEF WriteKeys, ReadKeys, ReserveKey, RWSet

LEMMA NoReservationType ==
    ASSUME NEW S
    PROVE  NoReservation \in [ReserveKey -> S \cup {Nobody}]
BY DEF NoReservation

\* An update of one entry keeps a table a table.
LEMMA TableUpdate ==
    ASSUME NEW S, NEW table \in [ReserveKey -> S], NEW k \in ReserveKey, NEW v \in S
    PROVE  [table EXCEPT ![k] = v] \in [ReserveKey -> S]
OBVIOUS

-----------------------------------------------------------------------------
(* Type correctness.                                                       *)

LEMMA InitType == Init => TypeOK
<1> SUFFICES ASSUME Init
             PROVE  TypeOK
    OBVIOUS
<1>1. NoReservation \in [ReserveKey -> DOMAIN selectedTxs \cup {Nobody}]
    BY NoReservationType
<1> QED
    BY <1>1 DEF Init, TypeOK

LEMMA BatchesType ==
    ASSUME NEW b \in Batches
    PROVE  b \in Seq(Tx)
BY AriaBatchesAssumption

LEMMA SelectType ==
    ASSUME NEW s \in Seq(Tx), s # << >>,
           NEW n, n = IF BatchSize <= Len(s) THEN BatchSize ELSE Len(s)
    PROVE  /\ SubSeq(s, 1, n) \in Seq(Tx)
           /\ Len(SubSeq(s, 1, n)) = n
           /\ DOMAIN SubSeq(s, 1, n) = 1..n
           /\ SubSeq(s, 1, n) # << >>
           /\ SubSeq(s, n + 1, Len(s)) \in Seq(Tx)
           /\ n \in Nat
BY AriaBatchSizeAssumption

\* The steps of the goroutines.
LEMMA GoroutineType ==
    ASSUME TypeOK, NEW i \in DOMAIN selectedTxs, Goroutine(i)
    PROVE  TypeOK'
<1>1. CASE Execute(i)
    <2>1. ExecuteTx(selectedTxs[i], db, store) \in RWSet
        BY ExecuteTxType DEF TypeOK
    <2> QED
        BY <1>1, <2>1 DEF TypeOK, Execute, tables, commitVars
<1>2. ASSUME NEW k \in todo[i], LoadWrite(i, k)
      PROVE  TypeOK'
    <2>1. k \in ReserveKey /\ i \in DOMAIN selectedTxs \cup {Nobody}
        BY <1>2 DEF TypeOK
    <2>2. reserveTable' \in [ReserveKey -> DOMAIN selectedTxs \cup {Nobody}]
        BY <1>2, <2>1 DEF TypeOK, LoadWrite
    <2> QED
        BY <1>2, <2>1, <2>2 DEF TypeOK, LoadWrite, commitVars
<1>3. ASSUME NEW k \in todo[i], LoadRead(i, k)
      PROVE  TypeOK'
    <2>1. k \in ReserveKey /\ i \in DOMAIN selectedTxs \cup {Nobody}
        BY <1>3 DEF TypeOK
    <2>2. readReserveTable' \in [ReserveKey -> DOMAIN selectedTxs \cup {Nobody}]
        BY <1>3, <2>1 DEF TypeOK, LoadRead
    <2> QED
        BY <1>3, <2>1, <2>2 DEF TypeOK, LoadRead, commitVars
<1>4. ASSUME NEW k \in loaded[i], ReserveWrite(i, k)
      PROVE  TypeOK'
    <2>1. k \in ReserveKey /\ i \in DOMAIN selectedTxs \cup {Nobody}
        BY <1>4 DEF TypeOK
    <2>2. reserveTable' \in [ReserveKey -> DOMAIN selectedTxs \cup {Nobody}]
        BY <1>4, <2>1 DEF TypeOK, ReserveWrite
    <2>3. /\ aborted' \in [DOMAIN selectedTxs -> BOOLEAN]
          /\ mustAbort' \in [DOMAIN selectedTxs -> BOOLEAN]
        BY <1>4 DEF TypeOK, ReserveWrite
    <2> QED
        BY <1>4, <2>1, <2>2, <2>3 DEF TypeOK, ReserveWrite, commitVars
<1>5. ASSUME NEW k \in loaded[i], ReserveRead(i, k)
      PROVE  TypeOK'
    <2>1. k \in ReserveKey /\ i \in DOMAIN selectedTxs \cup {Nobody}
        BY <1>5 DEF TypeOK
    <2>2. readReserveTable' \in [ReserveKey -> DOMAIN selectedTxs \cup {Nobody}]
        BY <1>5, <2>1 DEF TypeOK, ReserveRead
    <2> QED
        BY <1>5, <2>1, <2>2 DEF TypeOK, ReserveRead, commitVars
<1>6. CASE FinishReserveWrite(i)
    BY <1>6 DEF TypeOK, FinishReserveWrite, commitVars
<1>7. CASE CheckConflicts(i)
    <2>1. ApplyWrites(db, execInfos[i].writes) \in State
        BY ApplyWritesType DEF TypeOK
    <2>2. aborted' \in [DOMAIN selectedTxs -> BOOLEAN] /\ db' \in State
        BY <1>7, <2>1 DEF TypeOK, CheckConflicts
    <2> QED
        BY <1>7, <2>2 DEF TypeOK, CheckConflicts, commitVars
<1> QED
    BY <1>1, <1>2, <1>3, <1>4, <1>5, <1>6, <1>7 DEF Goroutine

\* One step of Schedule keeps the types and the bookkeeping of the commit loop.
LEMMA NextType == TypeOK /\ LoopInv /\ [Next]_vars => TypeOK'
<1> SUFFICES ASSUME TypeOK, LoopInv, [Next]_vars
             PROVE  TypeOK'
    OBVIOUS
<1>1. CASE Schedule
    BY <1>1, BatchesType DEF TypeOK, Schedule, phaseVars, tables
<1>2. CASE Select
    <2> DEFINE n == IF BatchSize <= Len(txBatch) THEN BatchSize ELSE Len(txBatch)
    <2> DEFINE s == SubSeq(txBatch, 1, n)
    <2>1. /\ s \in Seq(Tx) /\ Len(s) = n /\ DOMAIN s = 1..n /\ s # << >>
          /\ SubSeq(txBatch, n + 1, Len(txBatch)) \in Seq(Tx)
          /\ n \in Nat
        <3>1. txBatch \in Seq(Tx) /\ txBatch # << >>
            BY <1>2 DEF TypeOK, Select
        <3> QED
            BY <3>1, SelectType
    <2>2. selectedTxs' = s /\ txBatch' = SubSeq(txBatch, n + 1, Len(txBatch))
        BY <1>2 DEF Select
    <2> HIDE DEF s
    <2>3. /\ execInfos' \in [DOMAIN s -> RWSet]
          /\ todo' \in [DOMAIN s -> SUBSET ReserveKey]
          /\ loaded' \in [DOMAIN s -> SUBSET ReserveKey]
          /\ mustAbort' \in [DOMAIN s -> BOOLEAN]
          /\ aborted' \in [DOMAIN s -> BOOLEAN]
        <3>1. execInfos' = [i \in 1..n |-> NotRun]
            BY <1>2 DEF Select
        <3>2. todo' = None(n) /\ loaded' = None(n)
            BY <1>2 DEF Select
        <3>3. mustAbort' = AllFalse(n) /\ aborted' = AllFalse(n)
            BY <1>2 DEF Select
        <3> HIDE DEF n
        <3> QED
            BY <2>1, <3>1, <3>2, <3>3, NotRunType DEF None, AllFalse
    <2>4. /\ reserveTable' \in [ReserveKey -> DOMAIN s \cup {Nobody}]
          /\ readReserveTable' \in [ReserveKey -> DOMAIN s \cup {Nobody}]
        BY <1>2, NoReservationType DEF Select
    <2>5. txIndex' = 1 /\ 1 \in 1..(Len(s) + 1)
        BY <1>2, <2>1 DEF Select, LoopInv, commitVars
    <2> QED
        BY <1>2, <2>1, <2>2, <2>3, <2>4, <2>5, ZenonT(40) DEF TypeOK, Select, commitVars
<1>3. ASSUME NEW i \in DOMAIN selectedTxs, Goroutine(i)
      PROVE  TypeOK'
    BY <1>3, GoroutineType
<1>4. CASE StartReserveWrite
    BY <1>4, KeysType DEF TypeOK, StartReserveWrite, tables, commitVars
<1>5. CASE StartReserveRead
    BY <1>5, KeysType DEF TypeOK, StartReserveRead, tables, commitVars
<1>6. CASE StartCheckConflicts
    BY <1>6 DEF TypeOK, StartCheckConflicts, phaseVars, tables, commitVars
<1>7. CASE StartCommit
    BY <1>7 DEF TypeOK, StartCommit, phaseVars, tables, commitVars
<1>8. CASE Commit
    BY <1>8 DEF TypeOK, Commit, phaseVars, tables
<1>9. CASE Abort
    BY <1>9 DEF TypeOK, Abort, phaseVars, tables
<1>10. CASE EndRound
    <2>1. /\ reserveTable' \in [ReserveKey -> DOMAIN selectedTxs' \cup {Nobody}]
          /\ readReserveTable' \in [ReserveKey -> DOMAIN selectedTxs' \cup {Nobody}]
        BY <1>10, NoReservationType, ZenonT(40) DEF EndRound
    <2>2. blockTxs \o committedTxs \in Seq(Tx) /\ abortedTxs \o txBatch \in Seq(Tx)
        BY DEF TypeOK
    <2> QED
        BY <1>10, <2>1, <2>2 DEF TypeOK, EndRound
<1>11. CASE Finish
    BY <1>11 DEF TypeOK, Finish, phaseVars, tables, commitVars
<1>12. CASE Timeout
    BY <1>12 DEF TypeOK, Timeout, phaseVars, tables, commitVars
<1>13. CASE UNCHANGED vars
    BY <1>13 DEF TypeOK, vars, phaseVars, tables, commitVars
<1> QED
    BY <1>1, <1>2, <1>3, <1>4, <1>5, <1>6, <1>7, <1>8, <1>9, <1>10, <1>11, <1>12,
       <1>13 DEF Next, Step

-----------------------------------------------------------------------------
(* Reservations.                                                           *)

\* LoadOrStore keeps a reservation under way.
LEMMA LoadKeepsReserving ==
    ASSUME NEW n \in Nat, NEW keys \in [1..n -> SUBSET ReserveKey],
           NEW td \in [1..n -> SUBSET ReserveKey], NEW ld \in [1..n -> SUBSET ReserveKey],
           NEW table \in [ReserveKey -> 1..n \cup {Nobody}],
           Reserving(keys, td, ld, table),
           NEW i \in 1..n, NEW k \in td[i], ld[i] = {}
    PROVE  Reserving(keys, [td EXCEPT ![i] = @ \ {k}], [ld EXCEPT ![i] = {k}],
                     [table EXCEPT ![k] = IF @ = Nobody THEN i ELSE @])
<1> DEFINE td1 == [td EXCEPT ![i] = @ \ {k}]
           ld1 == [ld EXCEPT ![i] = {k}]
           table1 == [table EXCEPT ![k] = IF @ = Nobody THEN i ELSE @]
<1>1. k \in ReserveKey /\ k \in keys[i] /\ i # Nobody
    BY DEF Reserving, Nobody
<1>2. \A m \in ReserveKey :
        /\ table[m] # Nobody => table1[m] = table[m]
        /\ table[m] = Nobody /\ m # k => table1[m] = Nobody
        /\ table[m] = Nobody /\ m = k => table1[m] = i
    BY <1>1
<1>3. table1[k] # Nobody
    BY <1>1, <1>2
<1>4. /\ \A j \in 1..n : td1[j] = IF j = i THEN td[i] \ {k} ELSE td[j]
      /\ \A j \in 1..n : ld1[j] = IF j = i THEN {k} ELSE ld[j]
    OBVIOUS
<1> HIDE DEF td1, ld1, table1
<1>5. HoldersOwn(keys, table1)
    BY <1>1, <1>2 DEF Reserving, HoldersOwn
<1>6. ASSUME NEW j \in 1..n, j # i
      PROVE  /\ td1[j] \subseteq keys[j]
             /\ ld1[j] \subseteq keys[j] \ td1[j]
             /\ \A m \in ld1[j], p \in ld1[j] : m = p
             /\ \A m \in keys[j] :
                    m \notin td1[j] => table1[m] # Nobody /\ (m \in ld1[j] \/ table1[m] <= j)
    <2>1. td1[j] = td[j] /\ ld1[j] = ld[j]
        BY <1>4, <1>6
    <2>2. ASSUME NEW m \in keys[j], m \notin td1[j]
          PROVE  table1[m] # Nobody /\ (m \in ld1[j] \/ table1[m] <= j)
        <3>1. m \in ReserveKey /\ table[m] # Nobody /\ (m \in ld[j] \/ table[m] <= j)
            BY <2>1, <2>2 DEF Reserving
        <3> QED
            BY <1>2, <2>1, <3>1
    <2> QED
        BY <2>1, <2>2 DEF Reserving
<1>7. /\ td1[i] \subseteq keys[i]
      /\ ld1[i] \subseteq keys[i] \ td1[i]
      /\ \A m \in ld1[i], p \in ld1[i] : m = p
      /\ \A m \in keys[i] :
             m \notin td1[i] => table1[m] # Nobody /\ (m \in ld1[i] \/ table1[m] <= i)
    BY <1>1, <1>2, <1>3, <1>4 DEF Reserving
<1>8. Reserving(keys, td1, ld1, table1)
    BY <1>5, <1>6, <1>7 DEF Reserving
<1> QED
    BY <1>8 DEF td1, ld1, table1

\* The update under the lock keeps a reservation under way.
LEMMA LockKeepsReserving ==
    ASSUME NEW n \in Nat, NEW keys \in [1..n -> SUBSET ReserveKey],
           NEW td \in [1..n -> SUBSET ReserveKey], NEW ld \in [1..n -> SUBSET ReserveKey],
           NEW table \in [ReserveKey -> 1..n \cup {Nobody}],
           Reserving(keys, td, ld, table),
           NEW i \in 1..n, NEW k \in ld[i]
    PROVE  Reserving(keys, td, [ld EXCEPT ![i] = {}],
                     [table EXCEPT ![k] = IF i < @ THEN i ELSE @])
<1> DEFINE ld1 == [ld EXCEPT ![i] = {}]
           table1 == [table EXCEPT ![k] = IF i < @ THEN i ELSE @]
<1>1. /\ k \in ReserveKey /\ k \in keys[i] /\ k \notin td[i]
      /\ ld[i] = {k}
      /\ table[k] \in 1..n
    <2>1. k \in ReserveKey /\ k \in keys[i] /\ k \notin td[i]
        BY DEF Reserving
    <2>2. table[k] # Nobody /\ \A m \in ld[i] : m = k
        BY <2>1 DEF Reserving
    <2> QED
        BY <2>1, <2>2
<1>2. /\ \A m \in ReserveKey : m # k => table1[m] = table[m]
      /\ table1[k] \in 1..n /\ table1[k] <= i /\ table1[k] <= table[k]
      /\ table1[k] = i \/ table1[k] = table[k]
    BY <1>1
<1>3. \A j \in 1..n : ld1[j] = IF j = i THEN {} ELSE ld[j]
    OBVIOUS
<1> HIDE DEF ld1, table1
<1>4. HoldersOwn(keys, table1)
    BY <1>1, <1>2 DEF Reserving, HoldersOwn
<1>5. ASSUME NEW j \in 1..n
      PROVE  /\ td[j] \subseteq keys[j]
             /\ ld1[j] \subseteq keys[j] \ td[j]
             /\ \A m \in ld1[j], p \in ld1[j] : m = p
    BY <1>3 DEF Reserving
<1>6. ASSUME NEW j \in 1..n, NEW m \in keys[j], m \notin td[j]
      PROVE  table1[m] # Nobody /\ (m \in ld1[j] \/ table1[m] <= j)
    <2>0. m \in ReserveKey /\ table[m] # Nobody /\ (m \in ld[j] \/ table[m] <= j)
        BY <1>6 DEF Reserving
    <2>1. CASE m # k
        <3>1. m \in ld[j] => m \in ld1[j]
            BY <1>1, <1>3, <2>1
        <3> QED
            BY <1>2, <2>0, <2>1, <3>1
    <2>2. CASE m = k /\ j = i
        BY <1>2, <2>2 DEF Nobody
    <2>3. CASE m = k /\ j # i
        BY <1>1, <1>2, <1>3, <2>0, <2>3 DEF Nobody
    <2> QED
        BY <2>1, <2>2, <2>3
<1>7. Reserving(keys, td, ld1, table1)
    BY <1>4, <1>5, <1>6 DEF Reserving
<1> QED
    BY <1>7 DEF ld1, table1

\* Once every goroutine is through, the entries hold the smallest owners.
LEMMA ReservingDone ==
    ASSUME NEW n \in Nat, NEW keys \in [1..n -> SUBSET ReserveKey],
           NEW td, NEW ld, NEW table, Reserving(keys, td, ld, table),
           \A i \in 1..n : td[i] = {} /\ ld[i] = {}
    PROVE  Reserved(keys, table)
BY DEF Reserving, Reserved

\* A reservation starts from an empty table.
LEMMA ReservingStart ==
    ASSUME NEW n \in Nat, NEW keys \in [1..n -> SUBSET ReserveKey],
           NEW ld, \A i \in 1..n : ld[i] = {}
    PROVE  Reserving(keys, keys, ld, NoReservation)
BY DEF Reserving, HoldersOwn, NoReservation

\* A finished reservation answers whether an earlier transaction owns a key.
LEMMA EarlierExact ==
    ASSUME NEW n \in Nat, NEW keys \in [1..n -> SUBSET ReserveKey],
           NEW table \in [ReserveKey -> 1..n \cup {Nobody}], Reserved(keys, table),
           NEW i \in 1..n, NEW K \in SUBSET ReserveKey
    PROVE  (\E k \in K : Earlier(table, k, i)) <=> (\E j \in 1..(i - 1) : K \cap keys[j] # {})
<1>1. ASSUME NEW k \in K, Earlier(table, k, i)
      PROVE  \E j \in 1..(i - 1) : K \cap keys[j] # {}
    <2>1. table[k] \in 1..n /\ table[k] < i
        BY <1>1 DEF Earlier
    <2>2. k \in keys[table[k]] /\ table[k] \in 1..(i - 1)
        BY <2>1 DEF Reserved, HoldersOwn, Nobody
    <2> QED
        BY <2>2
<1>2. ASSUME NEW j \in 1..(i - 1), NEW k \in K \cap keys[j]
      PROVE  Earlier(table, k, i)
    <2>1. j \in 1..n /\ k \in ReserveKey
        OBVIOUS
    <2>2. table[k] # Nobody /\ table[k] <= j /\ table[k] \in 1..n
        BY <2>1 DEF Reserved
    <2> QED
        BY <2>2 DEF Earlier
<1> QED
    BY <1>1, <1>2

\* The key sets of a round are well-typed arrays.
LEMMA RoundKeysType ==
    ASSUME TypeOK
    PROVE  /\ Len(selectedTxs) \in Nat
           /\ DOMAIN selectedTxs = 1..Len(selectedTxs)
           /\ wkeys \in [1..Len(selectedTxs) -> SUBSET ReserveKey]
           /\ rkeys \in [1..Len(selectedTxs) -> SUBSET ReserveKey]
           /\ \A i \in 1..Len(selectedTxs) : /\ wkeys[i] = WriteKeys(execInfos[i])
                                             /\ rkeys[i] = ReadKeys(execInfos[i])
<1>1. Len(selectedTxs) \in Nat /\ DOMAIN selectedTxs = 1..Len(selectedTxs)
    BY DEF TypeOK
<1>2. \A i \in DOMAIN selectedTxs : execInfos[i] \in RWSet
    BY DEF TypeOK
<1>3. \A i \in DOMAIN selectedTxs : /\ WriteKeys(execInfos[i]) \in SUBSET ReserveKey
                                    /\ ReadKeys(execInfos[i]) \in SUBSET ReserveKey
    BY <1>2, KeysType
<1> QED
    BY <1>1, <1>3 DEF wkeys, rkeys

\* The checks of phase 4 find exactly the dependencies.
LEMMA ChecksExact ==
    ASSUME TypeOK, CheckPhase, NEW i \in DOMAIN selectedTxs
    PROVE  /\ hasWAWConflict(i) <=> DependsWAW(i)
           /\ hasRAWConflict(i) <=> DependsRAW(i)
           /\ hasWARConflict(i) <=> DependsWAR(i)
<1> DEFINE n == Len(selectedTxs)
<1>1. /\ n \in Nat /\ i \in 1..n
      /\ wkeys \in [1..n -> SUBSET ReserveKey]
      /\ rkeys \in [1..n -> SUBSET ReserveKey]
      /\ \A j \in 1..n : wkeys[j] = WriteKeys(execInfos[j]) /\ rkeys[j] = ReadKeys(execInfos[j])
    BY RoundKeysType
<1>2. /\ reserveTable \in [ReserveKey -> 1..n \cup {Nobody}]
      /\ readReserveTable \in [ReserveKey -> 1..n \cup {Nobody}]
    BY RoundKeysType DEF TypeOK
<1>3. Reserved(wkeys, reserveTable) /\ Reserved(rkeys, readReserveTable)
    BY DEF CheckPhase
<1>4. /\ wkeys[i] \in SUBSET ReserveKey /\ rkeys[i] \in SUBSET ReserveKey
      /\ \A j \in 1..(i - 1) : j \in 1..n
    BY <1>1
<1> HIDE DEF n
<1>b. \A K \in SUBSET ReserveKey :
        (\E k \in K : Earlier(reserveTable, k, i)) <=> (\E j \in 1..(i - 1) : K \cap wkeys[j] # {})
    BY <1>1, <1>2, <1>3, EarlierExact, ZenonT(40)
<1>c. \A K \in SUBSET ReserveKey :
        (\E k \in K : Earlier(readReserveTable, k, i))
            <=> (\E j \in 1..(i - 1) : K \cap rkeys[j] # {})
    BY <1>1, <1>2, <1>3, EarlierExact, ZenonT(40)
<1>5. (\E k \in wkeys[i] : Earlier(reserveTable, k, i))
        <=> (\E j \in 1..(i - 1) : wkeys[i] \cap wkeys[j] # {})
    BY <1>b, <1>4, Zenon
<1>6. (\E k \in rkeys[i] : Earlier(reserveTable, k, i))
        <=> (\E j \in 1..(i - 1) : rkeys[i] \cap wkeys[j] # {})
    BY <1>b, <1>4, Zenon
<1>7. (\E k \in wkeys[i] : Earlier(readReserveTable, k, i))
        <=> (\E j \in 1..(i - 1) : wkeys[i] \cap rkeys[j] # {})
    BY <1>c, <1>4, Zenon
<1>8. \A k \in wkeys[i] : reserveTable[k] \notin {Nobody, i} <=> Earlier(reserveTable, k, i)
    <2> SUFFICES ASSUME NEW k \in wkeys[i]
                 PROVE  reserveTable[k] \notin {Nobody, i} <=> Earlier(reserveTable, k, i)
        OBVIOUS
    <2>1. k \in ReserveKey /\ reserveTable[k] # Nobody /\ reserveTable[k] <= i
        BY <1>1, <1>3, <1>4 DEF Reserved
    <2>2. reserveTable[k] \in 1..n
        BY <1>2, <2>1
    <2> QED
        BY <1>1, <2>1, <2>2 DEF Earlier
<1>a. /\ wkeys[i] = WriteKeys(execInfos[i]) /\ rkeys[i] = ReadKeys(execInfos[i])
      /\ \A j \in 1..(i - 1) : /\ wkeys[j] = WriteKeys(execInfos[j])
                                /\ rkeys[j] = ReadKeys(execInfos[j])
    BY <1>1, <1>4
<1>9. hasWAWConflict(i) <=> DependsWAW(i)
    BY <1>a, <1>5, <1>8, Zenon DEF hasWAWConflict, DependsWAW
<1>10. hasRAWConflict(i) <=> DependsRAW(i)
    BY <1>a, <1>6, Zenon DEF hasRAWConflict, DependsRAW
<1>11. hasWARConflict(i) <=> DependsWAR(i)
    BY <1>a, <1>7, Zenon DEF hasWARConflict, DependsWAR
<1> QED
    BY <1>9, <1>10, <1>11

-----------------------------------------------------------------------------
(* The parts of the inductive invariant, step by step.                     *)

\* The first transaction of a round depends on no earlier one and commits.
LEMMA FirstCommits ==
    ASSUME TypeOK, RoundInv, AbortRule, pc = "commit", selectedTxs # << >>
    PROVE  ~aborted[1]
<1>1. 1 \in DOMAIN selectedTxs
    BY DEF TypeOK
<1>2. 1 \in finished
    BY <1>1 DEF RoundInv
<1>3. ~DependsWAW(1) /\ ~DependsRAW(1)
    BY DEF DependsWAW, DependsRAW
<1> QED
    BY <1>2, <1>3 DEF AbortRule

\* The commit loop counts right, and commits something before it puts
\* anything back.
LEMMA NextLoop == IInv /\ [Next]_vars => LoopInv'
<1> SUFFICES ASSUME IInv, [Next]_vars
             PROVE  LoopInv'
    OBVIOUS
<1>0. /\ LoopInv /\ txIndex \in Nat /\ Len(abortedTxs) \in Nat /\ Len(committedTxs) \in Nat
      /\ committedTxs \in Seq(Tx) /\ abortedTxs \in Seq(Tx) /\ selectedTxs \in Seq(Tx)
    BY DEF IInv, TypeOK
<1>1. CASE Schedule
    BY <1>0, <1>1 DEF Schedule, LoopInv
<1>2. CASE Select
    <2> DEFINE n == IF BatchSize <= Len(txBatch) THEN BatchSize ELSE Len(txBatch)
    <2>1. SubSeq(txBatch, 1, n) # << >>
        <3>1. txBatch \in Seq(Tx) /\ txBatch # << >>
            BY <1>2 DEF IInv, TypeOK, Select
        <3> QED
            BY <3>1, SelectType
    <2>2. selectedTxs' # << >>
        BY <1>2, <2>1 DEF Select
    <2> QED
        BY <1>0, <1>2, <2>2 DEF Select, LoopInv, commitVars
<1>3. ASSUME NEW i \in DOMAIN selectedTxs, Goroutine(i)
      PROVE  LoopInv'
    <2>1. UNCHANGED <<pc, selectedTxs, txIndex, committedTxs, abortedTxs>>
        BY <1>3 DEF Goroutine, Execute, LoadWrite, LoadRead, ReserveWrite, ReserveRead,
                    FinishReserveWrite, CheckConflicts, commitVars
    <2> QED
        BY <1>0, <2>1 DEF LoopInv
<1>4. CASE StartReserveWrite \/ StartReserveRead \/ StartCheckConflicts \/ StartCommit
    BY <1>0, <1>4 DEF StartReserveWrite, StartReserveRead, StartCheckConflicts, StartCommit,
                      LoopInv, commitVars
<1>5. CASE Commit
    <2>1. Len(committedTxs') = Len(committedTxs) + 1 /\ txIndex' = txIndex + 1
        BY <1>0, <1>5 DEF Commit
    <2> QED
        BY <1>0, <1>5, <2>1 DEF Commit, LoopInv
<1>6. CASE Abort
    <2>1. Len(abortedTxs') = Len(abortedTxs) + 1 /\ txIndex' = txIndex + 1
        BY <1>0, <1>6 DEF Abort
    <2>2. txIndex # 1
        BY <1>0, <1>6, FirstCommits DEF Abort, IInv, LoopInv
    <2>3. txIndex > 1
        BY <2>2 DEF IInv, TypeOK
    <2> QED
        BY <1>0, <1>6, <2>1, <2>3 DEF Abort, LoopInv
<1>7. CASE EndRound
    BY <1>7 DEF EndRound, LoopInv
<1>8. CASE Finish \/ Timeout
    BY <1>0, <1>8 DEF Finish, Timeout, LoopInv, commitVars
<1>9. CASE UNCHANGED vars
    BY <1>0, <1>9 DEF LoopInv, vars, commitVars
<1> QED
    BY <1>1, <1>2, <1>3, <1>4, <1>5, <1>6, <1>7, <1>8, <1>9 DEF Next, Step

\* The read/write sets of a round are those of runs on the state before it.
LEMMA NextValues == IInv /\ [Next]_vars => ValueInv'
<1> SUFFICES ASSUME IInv, [Next]_vars
             PROVE  ValueInv'
    OBVIOUS
<1>0. ValueInv
    BY DEF IInv
<1>1. CASE Schedule \/ EndRound \/ Finish \/ Timeout
    BY <1>1 DEF Schedule, EndRound, Finish, Timeout, ValueInv
<1>2. CASE Select
    BY <1>2 DEF Select, ValueInv
<1>3. ASSUME NEW i \in DOMAIN selectedTxs, Goroutine(i)
      PROVE  ValueInv'
    <2>1. CASE Execute(i)
        <3>1. \A j \in DOMAIN selectedTxs :
                execInfos'[j] = IF j = i THEN ExecuteTx(selectedTxs[i], db, store)
                                ELSE execInfos[j]
            BY <2>1 DEF Execute, IInv, TypeOK
        <3> QED
            BY <1>0, <2>1, <3>1 DEF Execute, ValueInv
    <2>2. CASE CheckConflicts(i)
        BY <1>0, <2>2 DEF CheckConflicts, ValueInv
    <2>3. CASE \/ \E k \in todo[i] : LoadWrite(i, k) \/ LoadRead(i, k)
               \/ \E k \in loaded[i] : ReserveWrite(i, k) \/ ReserveRead(i, k)
               \/ FinishReserveWrite(i)
        <3>1. pc # "execute" /\ UNCHANGED <<pc, db, roundStart, store, selectedTxs, execInfos>>
            BY <2>3 DEF LoadWrite, LoadRead, ReserveWrite, ReserveRead, FinishReserveWrite
        <3> QED
            BY <1>0, <3>1 DEF ValueInv
    <2> QED
        BY <1>3, <2>1, <2>2, <2>3 DEF Goroutine
<1>4. CASE StartReserveWrite
    BY <1>0, <1>4 DEF StartReserveWrite, ValueInv
<1>5. CASE StartReserveRead \/ StartCheckConflicts \/ StartCommit
    BY <1>0, <1>5 DEF StartReserveRead, StartCheckConflicts, StartCommit, ValueInv
<1>6. CASE Commit \/ Abort
    BY <1>0, <1>6 DEF Commit, Abort, ValueInv
<1>7. CASE UNCHANGED vars
    BY <1>0, <1>7 DEF ValueInv, vars, phaseVars
<1> QED
    BY <1>1, <1>2, <1>3, <1>4, <1>5, <1>6, <1>7 DEF Next, Step

\* Keys and dependencies are functions of the read/write sets of the round.
LEMMA KeysFrame ==
    ASSUME UNCHANGED <<selectedTxs, execInfos>>
    PROVE  /\ wkeys' = wkeys /\ rkeys' = rkeys
           /\ \A i : /\ DependsWAW(i)' <=> DependsWAW(i)
                     /\ DependsRAW(i)' <=> DependsRAW(i)
                     /\ DependsWAR(i)' <=> DependsWAR(i)
BY DEF wkeys, rkeys, DependsWAW, DependsRAW, DependsWAR

\* A key that an earlier transaction of the round also writes.
LEMMA SharedKeyWAW ==
    ASSUME NEW i \in Nat, NEW j \in 1..(i - 1), NEW k,
           k \in WriteKeys(execInfos[i]), k \in WriteKeys(execInfos[j])
    PROVE  DependsWAW(i)
<1>1. WriteKeys(execInfos[i]) \cap WriteKeys(execInfos[j]) # {}
    BY Zenon
<1> QED
    BY <1>1, Zenon DEF DependsWAW

\* The goroutines of reserveWrite.
LEMMA GoroutineWrite ==
    ASSUME IInv, NEW i \in DOMAIN selectedTxs, Goroutine(i), pc = "reserveWrite"
    PROVE  WritePhase'
<1> DEFINE n == Len(selectedTxs)
<1>0. /\ n \in Nat /\ DOMAIN selectedTxs = 1..n /\ i \in 1..n
      /\ wkeys \in [1..n -> SUBSET ReserveKey]
      /\ \A j \in 1..n : wkeys[j] = WriteKeys(execInfos[j])
    BY RoundKeysType DEF IInv
<1>1. /\ todo \in [1..n -> SUBSET ReserveKey] /\ loaded \in [1..n -> SUBSET ReserveKey]
      /\ reserveTable \in [ReserveKey -> 1..n \cup {Nobody}]
      /\ aborted \in [1..n -> BOOLEAN] /\ mustAbort \in [1..n -> BOOLEAN]
      /\ finished \in SUBSET (1..n)
    BY <1>0 DEF IInv, TypeOK
<1>2. WritePhase
    BY DEF IInv, RoundInv
<1>3. UNCHANGED <<selectedTxs, execInfos, readReserveTable>>
    BY DEF Goroutine, Execute, LoadWrite, LoadRead, ReserveWrite, ReserveRead,
           FinishReserveWrite, CheckConflicts
<1>4. wkeys' = wkeys /\ \A j : DependsWAW(j)' <=> DependsWAW(j)
    BY <1>3, KeysFrame
<1> HIDE DEF n
<1>5. ASSUME NEW k \in todo[i], LoadWrite(i, k)
      PROVE  WritePhase'
    <2>1. /\ todo' = [todo EXCEPT ![i] = @ \ {k}]
          /\ loaded' = [loaded EXCEPT ![i] = {k}]
          /\ reserveTable' = [reserveTable EXCEPT ![k] = IF @ = Nobody THEN i ELSE @]
          /\ loaded[i] = {}
          /\ UNCHANGED <<aborted, mustAbort, finished>>
        BY <1>5 DEF LoadWrite
    <2>2. Reserving(wkeys, todo', loaded', reserveTable')
        BY <1>0, <1>1, <1>2, <2>1, LoadKeepsReserving, ZenonT(40) DEF WritePhase
    <2>3. i \notin finished
        BY <1>2, <1>5 DEF WritePhase
    <2>4. \A j \in finished : todo'[j] = {} /\ loaded'[j] = {}
        BY <1>1, <1>2, <2>1, <2>3 DEF WritePhase
    <2> QED
        BY <1>2, <1>3, <1>4, <2>1, <2>2, <2>4 DEF WritePhase
<1>6. ASSUME NEW k \in loaded[i], ReserveWrite(i, k)
      PROVE  WritePhase'
    <2> DEFINE holder == reserveTable[k]
    <2>1. /\ loaded' = [loaded EXCEPT ![i] = {}]
          /\ reserveTable' = [reserveTable EXCEPT ![k] = IF i < @ THEN i ELSE @]
          /\ aborted' = [j \in DOMAIN aborted |-> aborted[j] \/ (j = holder /\ i < holder)]
          /\ mustAbort' = [j \in DOMAIN mustAbort |-> mustAbort[j] \/ (j = i /\ holder < i)]
          /\ UNCHANGED <<todo, finished>>
        BY <1>6 DEF ReserveWrite
    <2>2. Reserving(wkeys, todo', loaded', reserveTable')
        BY <1>0, <1>1, <1>2, <2>1, LockKeepsReserving, ZenonT(40) DEF WritePhase
    <2>3. k \in wkeys[i] /\ k \in ReserveKey /\ holder \in 1..n /\ k \in wkeys[holder]
        <3>1. k \in wkeys[i] /\ k \notin todo[i] /\ k \in ReserveKey
            BY <1>0, <1>1, <1>2 DEF WritePhase, Reserving
        <3>2. holder # Nobody
            BY <1>0, <1>2, <3>1 DEF WritePhase, Reserving
        <3>3. k \in wkeys[holder]
            BY <1>2, <3>1, <3>2 DEF WritePhase, Reserving, HoldersOwn
        <3> QED
            BY <1>1, <3>1, <3>2, <3>3
    <2> HIDE DEF holder
    <2>a. /\ k \in WriteKeys(execInfos[i]) /\ k \in WriteKeys(execInfos[holder])
          /\ i \in Nat /\ holder \in Nat /\ i >= 1 /\ holder >= 1
        BY <1>0, <2>3
    <2>4. i < holder => DependsWAW(holder)
        <3>1. i < holder => i \in 1..(holder - 1)
            BY <2>a
        <3> QED
            BY <2>a, <3>1, SharedKeyWAW
    <2>5. holder < i => DependsWAW(i)
        <3>1. holder < i => holder \in 1..(i - 1)
            BY <2>a
        <3> QED
            BY <2>a, <3>1, SharedKeyWAW
    <2>6. ASSUME NEW j \in DOMAIN selectedTxs, aborted'[j] \/ mustAbort'[j]
          PROVE  DependsWAW(j)
        <3>1. CASE aborted[j] \/ mustAbort[j]
            BY <1>2, <3>1 DEF WritePhase
        <3>2. CASE j = holder /\ i < holder
            BY <2>4, <3>2
        <3>3. CASE j = i /\ holder < i
            BY <2>5, <3>3
        <3>4. /\ aborted'[j] => aborted[j] \/ (j = holder /\ i < holder)
              /\ mustAbort'[j] => mustAbort[j] \/ (j = i /\ holder < i)
            BY <1>0, <1>1, <2>1, Zenon
        <3> QED
            BY <2>6, <3>1, <3>2, <3>3, <3>4
    <2>7. \A j \in finished : todo'[j] = {} /\ loaded'[j] = {}
        BY <1>1, <1>2, <2>1 DEF WritePhase
    <2> QED
        BY <1>2, <1>3, <1>4, <2>1, <2>2, <2>6, <2>7 DEF WritePhase
<1>7. CASE FinishReserveWrite(i)
    <2>1. /\ aborted' = [j \in DOMAIN aborted |-> aborted[j] \/ (j = i /\ mustAbort[i])]
          /\ finished' = finished \cup {i} /\ todo[i] = {} /\ loaded[i] = {}
          /\ UNCHANGED <<todo, loaded, mustAbort, reserveTable>>
        BY <1>7 DEF FinishReserveWrite
    <2>2. \A j \in DOMAIN selectedTxs : aborted'[j] => aborted[j] \/ mustAbort[j]
        BY <1>0, <1>1, <2>1, Zenon
    <2> QED
        BY <1>2, <1>3, <1>4, <2>1, <2>2 DEF WritePhase
<1> QED
    BY <1>5, <1>6, <1>7 DEF Goroutine, Execute, LoadRead, ReserveRead, CheckConflicts

\* The goroutines of reserveRead.
LEMMA GoroutineRead ==
    ASSUME IInv, NEW i \in DOMAIN selectedTxs, Goroutine(i), pc = "reserveRead"
    PROVE  ReadPhase'
<1> DEFINE n == Len(selectedTxs)
<1>0. /\ n \in Nat /\ DOMAIN selectedTxs = 1..n /\ i \in 1..n
      /\ rkeys \in [1..n -> SUBSET ReserveKey]
    BY RoundKeysType DEF IInv
<1>1. /\ todo \in [1..n -> SUBSET ReserveKey] /\ loaded \in [1..n -> SUBSET ReserveKey]
      /\ readReserveTable \in [ReserveKey -> 1..n \cup {Nobody}]
    BY <1>0 DEF IInv, TypeOK
<1>2. ReadPhase
    BY DEF IInv, RoundInv
<1>3. /\ UNCHANGED <<selectedTxs, execInfos, finished, reserveTable, aborted>>
      /\ \/ \E k \in todo[i] : LoadRead(i, k)
         \/ \E k \in loaded[i] : ReserveRead(i, k)
    BY DEF Goroutine, Execute, LoadWrite, LoadRead, ReserveWrite, ReserveRead,
           FinishReserveWrite, CheckConflicts
<1>4. wkeys' = wkeys /\ rkeys' = rkeys /\ \A j : DependsWAW(j)' <=> DependsWAW(j)
    BY <1>3, KeysFrame
<1> HIDE DEF n
<1>5. ASSUME NEW k \in todo[i], LoadRead(i, k)
      PROVE  Reserving(rkeys, todo', loaded', readReserveTable')
    <2>1. /\ todo' = [todo EXCEPT ![i] = @ \ {k}]
          /\ loaded' = [loaded EXCEPT ![i] = {k}]
          /\ readReserveTable' = [readReserveTable EXCEPT ![k] = IF @ = Nobody THEN i ELSE @]
          /\ loaded[i] = {}
        BY <1>5 DEF LoadRead
    <2> QED
        BY <1>0, <1>1, <1>2, <2>1, LoadKeepsReserving, ZenonT(40) DEF ReadPhase
<1>6. ASSUME NEW k \in loaded[i], ReserveRead(i, k)
      PROVE  Reserving(rkeys, todo', loaded', readReserveTable')
    <2>1. /\ loaded' = [loaded EXCEPT ![i] = {}]
          /\ readReserveTable' = [readReserveTable EXCEPT ![k] = IF i < @ THEN i ELSE @]
          /\ UNCHANGED todo
        BY <1>6 DEF ReserveRead
    <2> QED
        BY <1>0, <1>1, <1>2, <2>1, LockKeepsReserving, ZenonT(40) DEF ReadPhase
<1> QED
    BY <1>2, <1>3, <1>4, <1>5, <1>6 DEF ReadPhase

\* The goroutines of checkConflicts.
LEMMA GoroutineCheck ==
    ASSUME IInv, NEW i \in DOMAIN selectedTxs, CheckConflicts(i)
    PROVE  CheckPhase' /\ AbortRule'
<1>0. TypeOK /\ CheckPhase /\ AbortRule /\ pc = "check"
    BY DEF IInv, RoundInv, CheckConflicts
<1>1. /\ UNCHANGED <<selectedTxs, execInfos, reserveTable, readReserveTable>>
      /\ finished' = finished \cup {i}
    BY DEF CheckConflicts
<1>2. /\ wkeys' = wkeys /\ rkeys' = rkeys
      /\ \A j : /\ DependsWAW(j)' <=> DependsWAW(j)
                /\ DependsRAW(j)' <=> DependsRAW(j)
                /\ DependsWAR(j)' <=> DependsWAR(j)
    BY <1>1, KeysFrame
<1>3. /\ hasWAWConflict(i) <=> DependsWAW(i)
      /\ hasRAWConflict(i) <=> DependsRAW(i)
      /\ hasWARConflict(i) <=> DependsWAR(i)
    BY <1>0, ChecksExact
<1>4. /\ aborted'[i] <=> \/ aborted[i]
                         \/ hasWAWConflict(i)
                         \/ hasWARConflict(i) /\ hasRAWConflict(i)
      /\ \A j \in DOMAIN selectedTxs : j # i => aborted'[j] = aborted[j]
    BY DEF CheckConflicts, IInv, TypeOK
<1>5. aborted[i] => DependsWAW(i)
    BY <1>0 DEF CheckPhase, CheckConflicts
<1>6. aborted'[i] <=> DependsWAW(i) \/ (DependsWAR(i) /\ DependsRAW(i))
    BY <1>3, <1>4, <1>5
<1>7. finished \subseteq DOMAIN selectedTxs
    BY <1>0 DEF TypeOK
<1>8. CheckPhase'
    BY <1>0, <1>1, <1>2, <1>4 DEF CheckPhase
<1>9. \A j \in finished' : aborted'[j] <=> DependsWAW(j) \/ (DependsWAR(j) /\ DependsRAW(j))
    BY <1>0, <1>1, <1>4, <1>6, <1>7 DEF AbortRule
<1>10. AbortRule'
    BY <1>2, <1>9 DEF AbortRule
<1> QED
    BY <1>8, <1>10

\* Each phase hands the next one what it needs.
LEMMA NextRound == IInv /\ [Next]_vars => RoundInv' /\ AbortRule'
<1> SUFFICES ASSUME IInv, [Next]_vars
             PROVE  RoundInv' /\ AbortRule'
    OBVIOUS
<1>0. TypeOK /\ RoundInv /\ AbortRule
    BY DEF IInv
<1>1. CASE Schedule \/ EndRound \/ Finish \/ Timeout
    BY <1>1 DEF Schedule, EndRound, Finish, Timeout, RoundInv, AbortRule
<1>2. CASE Select
    <2> DEFINE n == IF BatchSize <= Len(txBatch) THEN BatchSize ELSE Len(txBatch)
    <2>1. Len(SubSeq(txBatch, 1, n)) = n
        <3>1. txBatch \in Seq(Tx) /\ txBatch # << >>
            BY <1>0, <1>2 DEF TypeOK, Select
        <3> QED
            BY <3>1, SelectType
    <2>2. Len(selectedTxs') = n
        BY <1>2, <2>1, ZenonT(40) DEF Select
    <2>3. pc' = "execute" /\ ExecutePhase'
        BY <1>2, <2>2, ZenonT(40) DEF Select, ExecutePhase
    <2> QED
        BY <2>3 DEF RoundInv, AbortRule
<1>3. ASSUME NEW i \in DOMAIN selectedTxs, Goroutine(i)
      PROVE  RoundInv' /\ AbortRule'
    <2>0. pc' = pc
        BY <1>3 DEF Goroutine, Execute, LoadWrite, LoadRead, ReserveWrite, ReserveRead,
                    FinishReserveWrite, CheckConflicts
    <2>1. CASE pc = "execute"
        <3>1. Execute(i)
            BY <1>3, <2>1 DEF Goroutine, Execute, LoadWrite, LoadRead, ReserveWrite,
                              ReserveRead, FinishReserveWrite, CheckConflicts
        <3>2. ExecutePhase'
            BY <1>0, <2>1, <3>1 DEF RoundInv, ExecutePhase, Execute, tables
        <3> QED
            BY <2>0, <2>1, <3>2 DEF RoundInv, AbortRule
    <2>2. CASE pc = "reserveWrite"
        <3>1. WritePhase'
            BY <1>3, <2>2, GoroutineWrite
        <3> QED
            BY <2>0, <2>2, <3>1 DEF RoundInv, AbortRule
    <2>3. CASE pc = "reserveRead"
        <3>1. ReadPhase'
            BY <1>3, <2>3, GoroutineRead
        <3> QED
            BY <2>0, <2>3, <3>1 DEF RoundInv, AbortRule
    <2>4. CASE pc \notin {"execute", "reserveWrite", "reserveRead"}
        <3>1. CheckConflicts(i)
            BY <1>3, <2>4 DEF Goroutine, Execute, LoadWrite, LoadRead, ReserveWrite,
                              ReserveRead, FinishReserveWrite, CheckConflicts
        <3>2. CheckPhase' /\ AbortRule' /\ pc = "check"
            BY <3>1, GoroutineCheck, ZenonT(40) DEF CheckConflicts
        <3> QED
            BY <2>0, <3>2 DEF RoundInv
    <2> QED
        BY <2>1, <2>2, <2>3, <2>4
<1> DEFINE n == Len(selectedTxs)
<1>k. /\ n \in Nat /\ DOMAIN selectedTxs = 1..n
      /\ wkeys \in [1..n -> SUBSET ReserveKey] /\ rkeys \in [1..n -> SUBSET ReserveKey]
    BY <1>0, RoundKeysType
<1>4. CASE StartReserveWrite
    <2>0. /\ UNCHANGED <<selectedTxs, execInfos, loaded, mustAbort, reserveTable,
                         readReserveTable, aborted>>
          /\ pc = "execute" /\ pc' = "reserveWrite" /\ finished' = {}
          /\ todo' = wkeys
        BY <1>4 DEF StartReserveWrite, tables, wkeys
    <2>1. wkeys' = wkeys
        BY <2>0, KeysFrame
    <2>2. /\ reserveTable = NoReservation /\ readReserveTable = NoReservation
          /\ \A i \in 1..n : loaded[i] = {} /\ ~aborted[i] /\ ~mustAbort[i]
        BY <1>0, <1>k, <2>0 DEF RoundInv, ExecutePhase, None, AllFalse
    <2> HIDE DEF n
    <2>3. Reserving(wkeys, wkeys, loaded, NoReservation)
        BY <1>k, <2>2, ReservingStart
    <2>4. WritePhase'
        BY <1>k, <2>0, <2>1, <2>2, <2>3 DEF WritePhase
    <2> QED
        BY <2>0, <2>4 DEF RoundInv, AbortRule
<1>5. CASE StartReserveRead
    <2>0. /\ UNCHANGED <<selectedTxs, execInfos, loaded, mustAbort, reserveTable,
                         readReserveTable, aborted>>
          /\ pc = "reserveWrite" /\ pc' = "reserveRead" /\ finished' = {}
          /\ finished = DOMAIN selectedTxs
          /\ todo' = rkeys
        BY <1>5 DEF StartReserveRead, tables, rkeys
    <2>1. wkeys' = wkeys /\ rkeys' = rkeys /\ \A j : DependsWAW(j)' <=> DependsWAW(j)
        BY <2>0, KeysFrame
    <2>2. WritePhase /\ \A i \in 1..n : todo[i] = {} /\ loaded[i] = {}
        BY <1>0, <1>k, <2>0 DEF RoundInv, WritePhase
    <2> HIDE DEF n
    <2>3. Reserved(wkeys, reserveTable)
        BY <1>k, <2>2, ReservingDone DEF WritePhase
    <2>4. Reserving(rkeys, rkeys, loaded, NoReservation)
        BY <1>k, <2>2, ReservingStart
    <2>5. ReadPhase'
        BY <2>0, <2>1, <2>2, <2>3, <2>4 DEF ReadPhase, WritePhase
    <2> QED
        BY <2>0, <2>5 DEF RoundInv, AbortRule
<1>6. CASE StartCheckConflicts
    <2>0. /\ UNCHANGED <<selectedTxs, execInfos, finished, reserveTable, readReserveTable,
                         aborted>>
          /\ pc = "reserveRead" /\ pc' = "check"
          /\ \A i \in 1..n : todo[i] = {} /\ loaded[i] = {}
        BY <1>6, <1>k DEF StartCheckConflicts, tables, phaseVars
    <2>1. wkeys' = wkeys /\ rkeys' = rkeys /\ \A j : DependsWAW(j)' <=> DependsWAW(j)
        BY <2>0, KeysFrame
    <2>2. ReadPhase
        BY <1>0, <2>0 DEF RoundInv
    <2> HIDE DEF n
    <2>3. Reserved(rkeys, readReserveTable)
        BY <1>k, <2>0, <2>2, ReservingDone DEF ReadPhase
    <2>4. CheckPhase' /\ finished' = {}
        BY <2>0, <2>1, <2>2, <2>3 DEF CheckPhase, ReadPhase
    <2> QED
        BY <2>0, <2>4 DEF RoundInv, AbortRule
<1>7. CASE StartCommit \/ Commit \/ Abort
    <2>0. /\ UNCHANGED <<selectedTxs, execInfos, finished, reserveTable, readReserveTable,
                         aborted>>
          /\ pc \in {"check", "commit"} /\ pc' = "commit"
          /\ finished = DOMAIN selectedTxs
        BY <1>0, <1>7 DEF StartCommit, Commit, Abort, tables, phaseVars, RoundInv
    <2>1. /\ wkeys' = wkeys /\ rkeys' = rkeys
          /\ \A j : /\ DependsWAW(j)' <=> DependsWAW(j)
                    /\ DependsRAW(j)' <=> DependsRAW(j)
                    /\ DependsWAR(j)' <=> DependsWAR(j)
        BY <2>0, KeysFrame
    <2>2. CheckPhase'
        BY <1>0, <2>0, <2>1 DEF RoundInv, CheckPhase
    <2>3. AbortRule'
        BY <1>0, <2>0, <2>1 DEF AbortRule
    <2> QED
        BY <2>0, <2>2, <2>3 DEF RoundInv
<1>8. CASE UNCHANGED vars
    <2>0. UNCHANGED <<pc, selectedTxs, execInfos, finished, todo, loaded, mustAbort,
                      reserveTable, readReserveTable, aborted>>
        BY <1>8 DEF vars, phaseVars, tables
    <2>1. /\ wkeys' = wkeys /\ rkeys' = rkeys
          /\ \A j : /\ DependsWAW(j)' <=> DependsWAW(j)
                    /\ DependsRAW(j)' <=> DependsRAW(j)
                    /\ DependsWAR(j)' <=> DependsWAR(j)
        BY <2>0, KeysFrame
    <2>2. AbortRule'
        BY <1>0, <2>0, <2>1 DEF AbortRule
    <2>3. RoundInv'
        BY <1>0, <2>0, <2>1 DEF RoundInv, ExecutePhase, WritePhase, ReadPhase, CheckPhase
    <2> QED
        BY <2>2, <2>3
<1> QED
    BY <1>1, <1>2, <1>3, <1>4, <1>5, <1>6, <1>7, <1>8 DEF Next, Step

-----------------------------------------------------------------------------
(* The theorems.                                                           *)

LEMMA InitInv == Init => IInv
<1> SUFFICES ASSUME Init
             PROVE  IInv
    OBVIOUS
<1>1. TypeOK
    BY InitType
<1> QED
    BY <1>1 DEF Init, IInv, RoundInv, AbortRule, LoopInv, ValueInv

LEMMA NextInv == IInv /\ [Next]_vars => IInv'
BY NextType, NextLoop, NextValues, NextRound DEF IInv

\* The inductive invariant holds in every reachable state.
THEOREM Invariance == Spec => []IInv
BY InitInv, NextInv, PTL DEF Spec

\* The variables of Schedule keep their types, whatever order the goroutines
\* of its phases run in.
THEOREM TypeCorrect == Spec => []TypeOK
<1>1. IInv => TypeOK
    BY DEF IInv
<1> QED
    BY Invariance, <1>1, PTL

\* checkConflicts aborts exactly what Rule 2 of the Aria paper aborts: the
\* concurrent reservations never lose or invent a conflict.
THEOREM AbortsFollowTheRule == Spec => []AbortRule
<1>1. IInv => AbortRule
    BY DEF IInv
<1> QED
    BY Invariance, <1>1, PTL

\* The abort rule leaves only transactions that the order Before serializes.
LEMMA RuleOrders == TypeOK /\ AbortRule => ReadersFirst
<1> SUFFICES ASSUME TypeOK, AbortRule, pc \in {"check", "commit"},
                    NEW i \in DOMAIN selectedTxs, NEW j \in DOMAIN selectedTxs,
                    NEW l \in Loc, i # j, Committed(i), Committed(j),
                    Writes(execInfos[j], l)
             PROVE  /\ ~Writes(execInfos[i], l)
                    /\ l \in execInfos[i].reads => Before(i, j)
    BY DEF ReadersFirst
<1>0. i \in Nat /\ j \in Nat /\ i > 0 /\ j > 0
    BY DEF TypeOK
<1>1. /\ ~DependsWAW(i) /\ ~(DependsWAR(i) /\ DependsRAW(i))
      /\ ~DependsWAW(j) /\ ~(DependsWAR(j) /\ DependsRAW(j))
    BY DEF Committed, AbortRule
<1>2. constructKey(l) \in WriteKeys(execInfos[j])
    BY DEF WriteKeys
<1>3. ~Writes(execInfos[i], l)
    <2> SUFFICES ASSUME Writes(execInfos[i], l)
                 PROVE  FALSE
        OBVIOUS
    <2>1. constructKey(l) \in WriteKeys(execInfos[i])
        BY DEF WriteKeys
    <2>2. CASE i < j
        <3>1. i \in 1..(j - 1)
            BY <1>0, <2>2
        <3> QED
            BY <1>1, <1>2, <2>1, <3>1, Zenon DEF DependsWAW
    <2>3. CASE j < i
        <3>1. j \in 1..(i - 1)
            BY <1>0, <2>3
        <3> QED
            BY <1>1, <1>2, <2>1, <3>1, Zenon DEF DependsWAW
    <2> QED
        BY <1>0, <2>2, <2>3
<1>4. ASSUME l \in execInfos[i].reads
      PROVE  Before(i, j)
    <2>1. constructKey(l) \in ReadKeys(execInfos[i])
        BY <1>4 DEF ReadKeys
    <2>2. CASE i < j
        <3>1. i \in 1..(j - 1)
            BY <1>0, <2>2
        <3>2. DependsWAR(j)
            BY <1>2, <2>1, <3>1 DEF DependsWAR
        <3> QED
            BY <1>1, <2>2, <3>2 DEF Before
    <2>3. CASE j < i
        <3>1. j \in 1..(i - 1)
            BY <1>0, <2>3
        <3>2. DependsRAW(i)
            BY <1>2, <2>1, <3>1 DEF DependsRAW
        <3> QED
            BY <2>3, <3>2 DEF Before
    <2> QED
        BY <1>0, <2>2, <2>3
<1> QED
    BY <1>3, <1>4

\* The transactions a round commits write different locations, and one that
\* read a location comes, in the stated serial order, before its writer.
THEOREM CommittedHaveAnOrder == Spec => []ReadersFirst
<1>1. IInv => ReadersFirst
    BY RuleOrders DEF IInv
<1> QED
    BY Invariance, <1>1, PTL

\* Before is a strict order.
LEMMA BeforeAsymmetric ==
    ASSUME NEW i \in Nat, NEW j \in Nat, Before(i, j)
    PROVE  ~Before(j, i)
BY DEF Before

LEMMA RoundReplays == IInv => CommittedUnaffected
<1> SUFFICES ASSUME IInv, pc = "commit",
                    NEW i \in DOMAIN selectedTxs, NEW d \in State, Committed(i),
                    \A l \in Loc : \/ d[l] = roundStart[l]
                                  \/ \E j \in DOMAIN selectedTxs :
                                        Committed(j) /\ Before(j, i) /\ Writes(execInfos[j], l)
             PROVE  ExecuteTx(selectedTxs[i], d, store) = execInfos[i]
    BY DEF CommittedUnaffected
<1>0. /\ selectedTxs[i] \in Tx /\ roundStart \in State /\ store \in State
      /\ execInfos[i] \in RWSet /\ DOMAIN selectedTxs \subseteq Nat
    BY DEF IInv, TypeOK
<1>1. execInfos[i] = ExecuteTx(selectedTxs[i], roundStart, store)
    BY DEF IInv, ValueInv
<1>2. ASSUME NEW l \in execInfos[i].reads
      PROVE  roundStart[l] = d[l]
    <2>1. l \in Loc
        BY <1>0 DEF RWSet
    <2> SUFFICES ASSUME NEW j \in DOMAIN selectedTxs, Committed(j), Before(j, i),
                        Writes(execInfos[j], l)
                 PROVE  FALSE
        BY <2>1
    <2>2. i # j
        BY <1>0, BeforeAsymmetric
    <2>3. Before(i, j)
        BY <1>2, <2>1, <2>2, RuleOrders DEF IInv, ReadersFirst
    <2> QED
        BY <1>0, <2>3, BeforeAsymmetric
<1>3. \A l \in ExecuteTx(selectedTxs[i], roundStart, store).reads : roundStart[l] = d[l]
    BY <1>1, <1>2
<1>4. ExecuteTx(selectedTxs[i], d, store) = ExecuteTx(selectedTxs[i], roundStart, store)
    BY <1>0, <1>3, ExecuteTxLocality
<1> QED
    BY <1>1, <1>4

\* A round is serializable: run after the committed transactions that come
\* before it, and only those, a committed transaction would have read and
\* written what it did in the round.
THEOREM RoundsReplay == Spec => []CommittedUnaffected
BY Invariance, RoundReplays, PTL

\* Every round of Schedule puts back fewer transactions than it took.
THEOREM RoundsMakeProgress == Spec => RoundsShrinkTheBatch
<1>1. IInv /\ [Next]_vars =>
        [pc = "commit" /\ pc' = "round"
            => Len(txBatch') < Len(selectedTxs) + Len(txBatch)]_vars
    <2> SUFFICES ASSUME IInv, [Next]_vars, pc = "commit", pc' = "round"
                 PROVE  Len(txBatch') < Len(selectedTxs) + Len(txBatch)
        OBVIOUS
    <2>1. EndRound
        BY DEF Next, Step, Goroutine, Schedule, Select, Execute, StartReserveWrite, LoadWrite,
               ReserveWrite, FinishReserveWrite, StartReserveRead, LoadRead, ReserveRead,
               StartCheckConflicts, CheckConflicts, StartCommit, Commit, Abort, Finish,
               Timeout, vars
    <2>2. /\ txBatch' = abortedTxs \o txBatch /\ txIndex > Len(selectedTxs)
          /\ abortedTxs \in Seq(Tx) /\ txBatch \in Seq(Tx) /\ selectedTxs \in Seq(Tx)
          /\ committedTxs \in Seq(Tx) /\ txIndex \in 1..(Len(selectedTxs) + 1)
        BY <2>1 DEF EndRound, IInv, TypeOK
    <2>3. /\ selectedTxs # << >>
          /\ Len(abortedTxs) + Len(committedTxs) = txIndex - 1
          /\ txIndex > 1 => Len(committedTxs) > 0
        BY DEF IInv, LoopInv
    <2>4. Len(txBatch') = Len(abortedTxs) + Len(txBatch)
        BY <2>2
    <2> QED
        BY <2>2, <2>3, <2>4
<1> QED
    BY Invariance, <1>1, PTL DEF Spec, RoundsShrinkTheBatch
=============================================================================
