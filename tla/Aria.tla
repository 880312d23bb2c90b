-------------------------------- MODULE Aria --------------------------------
(***************************************************************************)
(* The Aria scheduler: one call of Schedule per block, in rounds.  The     *)
(* transactions of a round run concurrently on the same snapshot, reserve  *)
(* the keys they write and the keys they read for the smallest index, and  *)
(* commit unless an earlier one wrote a key of their write set, or they    *)
(* both read what an earlier one wrote and wrote what an earlier one read. *)
(*                                                                         *)
(* A goroutine of the reservation phases takes two steps per key: it loads *)
(* or creates the entry, then locks and updates it.  The order in which it *)
(* comes to its keys is left open.                                         *)
(***************************************************************************)
EXTENDS Transactions, Integers, Sequences

CONSTANTS
    BatchSize,        \* 100 in NewAriaScheduler
    Batches,          \* the transaction lists Schedule may be called with
    MaxHeight,        \* bound on the number of calls
    constructKey(_)   \* contractName + key: need not tell all locations apart

ASSUME AriaBatchSizeAssumption == BatchSize \in Nat \ {0}

Distinct(s) == \A i, j \in DOMAIN s : s[i] = s[j] => i = j

\* The transaction pool hands out a transaction once.
ASSUME AriaBatchesAssumption ==
    Batches \subseteq {b \in Seq(Tx) : Distinct(b)}

ASSUME AriaMaxHeightAssumption == MaxHeight \in Nat

VARIABLES
    pc,                \* where the call is
    height,            \* number of calls of Schedule so far
    store,             \* the committed state below the snapshot
    db,                \* the state as read through the snapshot
    roundStart,        \* db when the round started, for the properties
    txBatch,           \* remaining transactions
    selectedTxs,
    execInfos,         \* read/write set of each selected transaction
    finished,          \* indexes whose goroutine of the phase has finished
    todo,              \* reserve keys a goroutine has yet to come to
    loaded,            \* the key whose entry it has loaded and not yet locked
    mustAbort,         \* local flag of the goroutines of reserveWrite
    reserveTable,      \* smallest index that reserved a key so far, or Nobody
    readReserveTable,
    aborted,
    txIndex,           \* loop index of the commit phase
    committedTxs,      \* transactions of this round going into block.Txs
    abortedTxs,
    blockTxs,          \* block.Txs
    txRWSetMap

phaseVars == <<finished, todo, loaded, mustAbort>>

tables == <<reserveTable, readReserveTable, aborted>>

commitVars == <<txIndex, committedTxs, abortedTxs, blockTxs, txRWSetMap>>

vars == <<pc, height, store, db, roundStart, txBatch, selectedTxs, execInfos,
          phaseVars, tables, commitVars>>

NotRun == [reads |-> {}, writes |-> NoWrites, ok |-> FALSE]

ReserveKey == {constructKey(l) : l \in Loc}
Nobody == 0
NoReservation == [k \in ReserveKey |-> Nobody]

WriteKeys(rwset) == {constructKey(l) : l \in {m \in Loc : Writes(rwset, m)}}
ReadKeys(rwset) == {constructKey(l) : l \in rwset.reads}

None(n) == [i \in 1..n |-> {}]
AllFalse(n) == [i \in 1..n |-> FALSE]

-----------------------------------------------------------------------------

Init ==
    /\ pc = "idle"
    /\ height = 0
    /\ store \in State
    /\ db = store
    /\ roundStart = store
    /\ txBatch = << >>
    /\ selectedTxs = << >>
    /\ execInfos = << >>
    /\ finished = {}
    /\ todo = << >>
    /\ loaded = << >>
    /\ mustAbort = << >>
    /\ reserveTable = NoReservation
    /\ readReserveTable = NoReservation
    /\ aborted = << >>
    /\ txIndex = 1
    /\ committedTxs = << >>
    /\ abortedTxs = << >>
    /\ blockTxs = << >>
    /\ txRWSetMap = [t \in Tx |-> NoRWSet]

\* The previous block was committed or is given up.
Schedule ==
    /\ pc = "idle"
    /\ height < MaxHeight
    /\ height' = height + 1
    /\ \E base \in {store, db} : store' = base /\ db' = base
    /\ txBatch' \in Batches
    /\ txRWSetMap' = [t \in Tx |-> NoRWSet]
    /\ blockTxs' = << >>
    /\ pc' = "round"
    /\ UNCHANGED <<roundStart, selectedTxs, execInfos, phaseVars, tables, txIndex,
                   committedTxs, abortedTxs>>

\* Phase 1.
Select ==
    /\ pc = "round"
    /\ txBatch # << >>
    /\ LET n == IF BatchSize <= Len(txBatch) THEN BatchSize ELSE Len(txBatch) IN
        /\ selectedTxs' = SubSeq(txBatch, 1, n)
        /\ txBatch' = SubSeq(txBatch, n + 1, Len(txBatch))
        /\ execInfos' = [i \in 1..n |-> NotRun]
        /\ todo' = None(n)
        /\ loaded' = None(n)
        /\ mustAbort' = AllFalse(n)
        /\ aborted' = AllFalse(n)
    /\ finished' = {}
    /\ reserveTable' = NoReservation
    /\ readReserveTable' = NoReservation
    /\ roundStart' = db
    /\ pc' = "execute"
    /\ UNCHANGED <<height, store, db, commitVars>>

\* Phase 2: the goroutine of transaction i finishes.
Execute(i) ==
    /\ pc = "execute"
    /\ i \notin finished
    /\ execInfos' = [execInfos EXCEPT ![i] = ExecuteTx(selectedTxs[i], db, store)]
    /\ finished' = finished \cup {i}
    /\ UNCHANGED <<pc, height, store, db, roundStart, txBatch, selectedTxs, todo,
                   loaded, mustAbort, tables, commitVars>>

\* wg.Wait() of one phase, and the goroutines of the next.
StartReserveWrite ==
    /\ pc = "execute"
    /\ finished = DOMAIN selectedTxs
    /\ pc' = "reserveWrite"
    /\ finished' = {}
    /\ todo' = [i \in DOMAIN selectedTxs |-> WriteKeys(execInfos[i])]
    /\ UNCHANGED <<height, store, db, roundStart, txBatch, selectedTxs, execInfos,
                   loaded, mustAbort, tables, commitVars>>

\* Mutant: a transaction that lost one key does not reserve the others.
LoadWriteUnlessLost(i, k) ==
    /\ pc = "reserveWrite"
    /\ k \in todo[i]
    /\ loaded[i] = {}
    /\ todo' = [todo EXCEPT ![i] = @ \ {k}]
    /\ loaded' = [loaded EXCEPT ![i] = IF mustAbort[i] THEN {} ELSE {k}]
    /\ reserveTable' = [reserveTable EXCEPT
                          ![k] = IF @ = Nobody /\ ~mustAbort[i] THEN i ELSE @]
    /\ UNCHANGED <<pc, height, store, db, roundStart, txBatch, selectedTxs,
                   execInfos, finished, mustAbort, readReserveTable, aborted,
                   commitVars>>

\* Phase 3.1: LoadOrStore of the entry of key k.
LoadWrite(i, k) ==
    /\ pc = "reserveWrite"
    /\ k \in todo[i]
    /\ loaded[i] = {}
    /\ todo' = [todo EXCEPT ![i] = @ \ {k}]
    /\ loaded' = [loaded EXCEPT ![i] = {k}]
    /\ reserveTable' = [reserveTable EXCEPT ![k] = IF @ = Nobody THEN i ELSE @]
    /\ UNCHANGED <<pc, height, store, db, roundStart, txBatch, selectedTxs,
                   execInfos, finished, mustAbort, readReserveTable, aborted,
                   commitVars>>

\* Mutant: a goroutine that finds its own reservation aborts the holder too.
ReserveWriteSelf(i, k) ==
    LET holder == reserveTable[k] IN
    /\ pc = "reserveWrite"
    /\ k \in loaded[i]
    /\ loaded' = [loaded EXCEPT ![i] = {}]
    /\ reserveTable' = [reserveTable EXCEPT ![k] = IF i <= holder THEN i ELSE @]
    /\ aborted' = [j \in DOMAIN aborted |-> aborted[j] \/ (j = holder /\ i <= holder)]
    /\ mustAbort' = [j \in DOMAIN mustAbort |-> mustAbort[j] \/ (j = i /\ holder < i)]
    /\ UNCHANGED <<pc, height, store, db, roundStart, txBatch, selectedTxs,
                   execInfos, finished, todo, readReserveTable, commitVars>>

\* Under the lock of the entry.  A larger holder is aborted on the spot, a
\* smaller one makes this goroutine abort its own transaction at the end.
ReserveWrite(i, k) ==
    LET holder == reserveTable[k] IN
    /\ pc = "reserveWrite"
    /\ k \in loaded[i]
    /\ loaded' = [loaded EXCEPT ![i] = {}]
    /\ reserveTable' = [reserveTable EXCEPT ![k] = IF i < holder THEN i ELSE @]
    /\ aborted' = [j \in DOMAIN aborted |-> aborted[j] \/ (j = holder /\ i < holder)]
    /\ mustAbort' = [j \in DOMAIN mustAbort |-> mustAbort[j] \/ (j = i /\ holder < i)]
    /\ UNCHANGED <<pc, height, store, db, roundStart, txBatch, selectedTxs,
                   execInfos, finished, todo, readReserveTable, commitVars>>

FinishReserveWrite(i) ==
    /\ pc = "reserveWrite"
    /\ i \notin finished
    /\ todo[i] = {} /\ loaded[i] = {}
    /\ finished' = finished \cup {i}
    /\ aborted' = [j \in DOMAIN aborted |-> aborted[j] \/ (j = i /\ mustAbort[i])]
    /\ UNCHANGED <<pc, height, store, db, roundStart, txBatch, selectedTxs,
                   execInfos, todo, loaded, mustAbort, reserveTable,
                   readReserveTable, commitVars>>

\* Mutant: no reserveWg.Wait().
StartReserveReadEarly ==
    /\ pc = "reserveWrite"
    /\ pc' = "reserveRead"
    /\ finished' = {}
    /\ todo' = [i \in DOMAIN selectedTxs |-> ReadKeys(execInfos[i])]
    /\ UNCHANGED <<height, store, db, roundStart, txBatch, selectedTxs, execInfos,
                   loaded, mustAbort, tables, commitVars>>

StartReserveRead ==
    /\ pc = "reserveWrite"
    /\ finished = DOMAIN selectedTxs
    /\ pc' = "reserveRead"
    /\ finished' = {}
    /\ todo' = [i \in DOMAIN selectedTxs |-> ReadKeys(execInfos[i])]
    /\ UNCHANGED <<height, store, db, roundStart, txBatch, selectedTxs, execInfos,
                   loaded, mustAbort, tables, commitVars>>

\* Phase 3.2, likewise; nobody is aborted.
LoadRead(i, k) ==
    /\ pc = "reserveRead"
    /\ k \in todo[i]
    /\ loaded[i] = {}
    /\ todo' = [todo EXCEPT ![i] = @ \ {k}]
    /\ loaded' = [loaded EXCEPT ![i] = {k}]
    /\ readReserveTable' = [readReserveTable EXCEPT ![k] = IF @ = Nobody THEN i ELSE @]
    /\ UNCHANGED <<pc, height, store, db, roundStart, txBatch, selectedTxs,
                   execInfos, finished, mustAbort, reserveTable, aborted,
                   commitVars>>

ReserveRead(i, k) ==
    /\ pc = "reserveRead"
    /\ k \in loaded[i]
    /\ loaded' = [loaded EXCEPT ![i] = {}]
    /\ readReserveTable' = [readReserveTable EXCEPT ![k] = IF i < @ THEN i ELSE @]
    /\ UNCHANGED <<pc, height, store, db, roundStart, txBatch, selectedTxs,
                   execInfos, finished, todo, mustAbort, reserveTable, aborted,
                   commitVars>>

\* Mutant: no wg.Wait() in reserveRead.
StartCheckEarly ==
    /\ pc = "reserveRead"
    /\ pc' = "check"
    /\ UNCHANGED <<height, store, db, roundStart, txBatch, selectedTxs, execInfos,
                   phaseVars, tables, commitVars>>

StartCheckConflicts ==
    /\ pc = "reserveRead"
    /\ \A i \in DOMAIN selectedTxs : todo[i] = {} /\ loaded[i] = {}
    /\ pc' = "check"
    /\ UNCHANGED <<height, store, db, roundStart, txBatch, selectedTxs, execInfos,
                   phaseVars, tables, commitVars>>

hasWAWConflict(i) == \E k \in WriteKeys(execInfos[i]) : reserveTable[k] \notin {Nobody, i}

Earlier(table, k, i) == table[k] # Nobody /\ table[k] < i

hasRAWConflict(i) == \E k \in ReadKeys(execInfos[i]) : Earlier(reserveTable, k, i)

\* Mutant: the comparison the wrong way round.
hasWARConflictLater(i) ==
    \E k \in WriteKeys(execInfos[i]) : readReserveTable[k] > i

hasWARConflict(i) == \E k \in WriteKeys(execInfos[i]) : Earlier(readReserveTable, k, i)

\* Phase 4: the goroutine of transaction i aborts it or applies its writes.
CheckConflicts(i) ==
    /\ pc = "check"
    /\ i \notin finished
    /\ finished' = finished \cup {i}
    /\ LET abort == \/ aborted[i]
                    \/ hasWAWConflict(i)
                    \/ hasWARConflict(i) /\ hasRAWConflict(i)
       IN /\ aborted' = [aborted EXCEPT ![i] = abort]
          /\ db' = IF abort THEN db ELSE ApplyWrites(db, execInfos[i].writes)
    /\ UNCHANGED <<pc, height, store, roundStart, txBatch, selectedTxs, execInfos,
                   todo, loaded, mustAbort, reserveTable, readReserveTable,
                   commitVars>>

StartCommit ==
    /\ pc = "check"
    /\ finished = DOMAIN selectedTxs
    /\ pc' = "commit"
    /\ UNCHANGED <<height, store, db, roundStart, txBatch, selectedTxs, execInfos,
                   phaseVars, tables, commitVars>>

\* Phase 5, one transaction at a time.
Commit ==
    /\ pc = "commit"
    /\ txIndex <= Len(selectedTxs)
    /\ ~aborted[txIndex]
    /\ committedTxs' = Append(committedTxs, selectedTxs[txIndex])
    /\ txRWSetMap' = [txRWSetMap EXCEPT ![selectedTxs[txIndex]] = execInfos[txIndex]]
    /\ txIndex' = txIndex + 1
    /\ UNCHANGED <<pc, height, store, db, roundStart, txBatch, selectedTxs,
                   execInfos, phaseVars, tables, abortedTxs, blockTxs>>

Abort ==
    /\ pc = "commit"
    /\ txIndex <= Len(selectedTxs)
    /\ aborted[txIndex]
    /\ abortedTxs' = Append(abortedTxs, selectedTxs[txIndex])
    /\ txIndex' = txIndex + 1
    /\ UNCHANGED <<pc, height, store, db, roundStart, txBatch, selectedTxs,
                   execInfos, phaseVars, tables, committedTxs, blockTxs, txRWSetMap>>

EndRound ==
    /\ pc = "commit"
    /\ txIndex > Len(selectedTxs)
    /\ blockTxs' = blockTxs \o committedTxs
    /\ txBatch' = abortedTxs \o txBatch
    /\ selectedTxs' = << >>
    /\ execInfos' = << >>
    /\ finished' = {}
    /\ todo' = << >>
    /\ loaded' = << >>
    /\ mustAbort' = << >>
    /\ reserveTable' = NoReservation
    /\ readReserveTable' = NoReservation
    /\ aborted' = << >>
    /\ txIndex' = 1
    /\ committedTxs' = << >>
    /\ abortedTxs' = << >>
    /\ pc' = "round"
    /\ UNCHANGED <<height, store, db, roundStart, txRWSetMap>>

Finish ==
    /\ pc = "round"
    /\ txBatch = << >>
    /\ pc' = "idle"
    /\ UNCHANGED <<height, store, db, roundStart, txBatch, selectedTxs, execInfos,
                   phaseVars, tables, commitVars>>

\* More than ScheduleTimeout seconds have passed: the rest is dropped.
Timeout ==
    /\ pc = "round"
    /\ txBatch # << >>
    /\ pc' = "idle"
    /\ UNCHANGED <<height, store, db, roundStart, txBatch, selectedTxs, execInfos,
                   phaseVars, tables, commitVars>>

Goroutine(i) ==
    \/ Execute(i)
    \/ \E k \in todo[i] : LoadWrite(i, k) \/ LoadRead(i, k)
    \/ \E k \in loaded[i] : ReserveWrite(i, k) \/ ReserveRead(i, k)
    \/ FinishReserveWrite(i)
    \/ CheckConflicts(i)

Step ==
    \/ Select
    \/ \E i \in DOMAIN selectedTxs : Goroutine(i)
    \/ StartReserveWrite
    \/ StartReserveRead
    \/ StartCheckConflicts
    \/ StartCommit
    \/ Commit
    \/ Abort
    \/ EndRound
    \/ Finish

Next == Schedule \/ Step \/ Timeout

Spec == Init /\ [][Next]_vars

\* The goroutines of a phase are runnable; nothing makes a caller call
\* Schedule, and no timeout is needed for a call to return.
FairSpec == Spec /\ WF_vars(Step)

-----------------------------------------------------------------------------

\* Types, and the shape of the round's arrays.
TypeOK ==
    /\ pc \in {"idle", "round", "execute", "reserveWrite", "reserveRead", "check",
              "commit"}
    /\ height \in Nat
    /\ store \in State /\ db \in State /\ roundStart \in State
    /\ txBatch \in Seq(Tx)
    /\ selectedTxs \in Seq(Tx)
    /\ execInfos \in [DOMAIN selectedTxs -> RWSet]
    /\ finished \in SUBSET DOMAIN selectedTxs
    /\ todo \in [DOMAIN selectedTxs -> SUBSET ReserveKey]
    /\ loaded \in [DOMAIN selectedTxs -> SUBSET ReserveKey]
    /\ mustAbort \in [DOMAIN selectedTxs -> BOOLEAN]
    /\ reserveTable \in [ReserveKey -> DOMAIN selectedTxs \cup {Nobody}]
    /\ readReserveTable \in [ReserveKey -> DOMAIN selectedTxs \cup {Nobody}]
    /\ aborted \in [DOMAIN selectedTxs -> BOOLEAN]
    /\ txIndex \in 1..(Len(selectedTxs) + 1)
    /\ committedTxs \in Seq(Tx)
    /\ abortedTxs \in Seq(Tx)
    /\ blockTxs \in Seq(Tx)
    /\ txRWSetMap \in [Tx -> RWSet \cup {NoRWSet}]

\* Dependencies of transaction i on the earlier ones of its round.
DependsWAW(i) ==
    \E j \in 1..(i - 1) : WriteKeys(execInfos[i]) \cap WriteKeys(execInfos[j]) # {}
DependsRAW(i) ==
    \E j \in 1..(i - 1) : ReadKeys(execInfos[i]) \cap WriteKeys(execInfos[j]) # {}
DependsWAR(i) ==
    \E j \in 1..(i - 1) : WriteKeys(execInfos[i]) \cap ReadKeys(execInfos[j]) # {}

(***************************************************************************)
(* Rule 2 of the Aria paper, as checkConflicts quotes it, in terms of the  *)
(* read and write sets alone: whatever order the goroutines reserve and    *)
(* check in, a transaction aborts exactly when it has a WAW dependency on  *)
(* an earlier one, or both a WAR and a RAW dependency.                     *)
(***************************************************************************)
AbortRule ==
    pc \in {"check", "commit"} =>
        \A i \in finished :
            aborted[i] <=> DependsWAW(i) \/ (DependsWAR(i) /\ DependsRAW(i))

(***************************************************************************)
(* A serial order of the transactions a round commits.  Those that missed  *)
(* a write of an earlier one come first, the last of them at the front;    *)
(* the others follow in the order of their indexes.                        *)
(***************************************************************************)
Before(i, j) ==
    \/ DependsRAW(i) /\ ~DependsRAW(j)
    \/ DependsRAW(i) /\ DependsRAW(j) /\ i > j
    \/ ~DependsRAW(i) /\ ~DependsRAW(j) /\ i < j

Committed(i) == i \in finished /\ ~aborted[i]

(***************************************************************************)
(* The transactions a round commits have an equivalent serial order: no    *)
(* two of them write the same location, and one that read a location comes *)
(* before the one that wrote it.                                           *)
(***************************************************************************)
ReadersFirst ==
    pc \in {"check", "commit"} =>
        \A i \in DOMAIN selectedTxs, j \in DOMAIN selectedTxs, l \in Loc :
            /\ i # j
            /\ Committed(i) /\ Committed(j)
            /\ Writes(execInfos[j], l)
            => /\ ~Writes(execInfos[i], l)
               /\ l \in execInfos[i].reads => Before(i, j)

(***************************************************************************)
(* What the committed transactions of a round did is what they do one by   *)
(* one: on any state that differs from the one before the round only where *)
(* committed transactions that come before it wrote, a transaction has the *)
(* read/write set it got in the round.                                     *)
(***************************************************************************)
CommittedUnaffected ==
    pc = "commit" =>
        \A i \in DOMAIN selectedTxs, d \in State :
            /\ Committed(i)
            /\ \A l \in Loc : \/ d[l] = roundStart[l]
                              \/ \E j \in DOMAIN selectedTxs :
                                    Committed(j) /\ Before(j, i) /\ Writes(execInfos[j], l)
            => ExecuteTx(selectedTxs[i], d, store) = execInfos[i]

\* Every round commits a transaction.
RoundsShrinkTheBatch ==
    [][pc = "commit" /\ pc' = "round"
        => Len(txBatch') < Len(selectedTxs) + Len(txBatch)]_vars

\* Schedule returns, whatever the conflicts among its transactions.
ScheduleReturns == pc = "round" ~> pc = "idle"

-----------------------------------------------------------------------------
(* The inductive invariant.                                                *)

wkeys == [i \in DOMAIN selectedTxs |-> WriteKeys(execInfos[i])]
rkeys == [i \in DOMAIN selectedTxs |-> ReadKeys(execInfos[i])]

\* Only an owner of a key holds its entry.
HoldersOwn(keys, table) ==
    \A k \in ReserveKey :
        table[k] # Nobody => table[k] \in DOMAIN keys /\ k \in keys[table[k]]

\* A finished reservation: the entry of a key holds its smallest owner.
Reserved(keys, table) ==
    /\ HoldersOwn(keys, table)
    /\ \A i \in DOMAIN keys : \A k \in keys[i] : table[k] # Nobody /\ table[k] <= i

\* A reservation under way: the goroutine of i has come to the keys that are
\* no longer in td[i], and has locked the entries of those not in ld[i].
Reserving(keys, td, ld, table) ==
    /\ HoldersOwn(keys, table)
    /\ \A i \in DOMAIN keys :
        /\ td[i] \subseteq keys[i]
        /\ ld[i] \subseteq keys[i] \ td[i]
        /\ \A k \in ld[i], m \in ld[i] : k = m
        /\ \A k \in keys[i] :
            k \notin td[i] => table[k] # Nobody /\ (k \in ld[i] \/ table[k] <= i)

ExecutePhase ==
    /\ reserveTable = NoReservation
    /\ readReserveTable = NoReservation
    /\ loaded = None(Len(selectedTxs))
    /\ aborted = AllFalse(Len(selectedTxs))
    /\ mustAbort = AllFalse(Len(selectedTxs))

WritePhase ==
    /\ Reserving(wkeys, todo, loaded, reserveTable)
    /\ readReserveTable = NoReservation
    /\ \A i \in DOMAIN selectedTxs : aborted[i] \/ mustAbort[i] => DependsWAW(i)
    /\ \A i \in finished : todo[i] = {} /\ loaded[i] = {}

ReadPhase ==
    /\ Reserved(wkeys, reserveTable)
    /\ Reserving(rkeys, todo, loaded, readReserveTable)
    /\ \A i \in DOMAIN selectedTxs : aborted[i] => DependsWAW(i)
    /\ finished = {}

CheckPhase ==
    /\ Reserved(wkeys, reserveTable)
    /\ Reserved(rkeys, readReserveTable)
    /\ \A i \in DOMAIN selectedTxs \ finished : aborted[i] => DependsWAW(i)

RoundInv ==
    /\ pc = "execute" => ExecutePhase
    /\ pc = "reserveWrite" => WritePhase
    /\ pc = "reserveRead" => ReadPhase
    /\ pc \in {"check", "commit"} => CheckPhase
    /\ pc = "commit" => finished = DOMAIN selectedTxs

\* The commit loop, which counts what it commits and what it puts back.
LoopInv ==
    /\ pc \notin {"idle", "round"} => selectedTxs # << >>
    /\ pc # "commit" => txIndex = 1 /\ committedTxs = << >> /\ abortedTxs = << >>
    /\ Len(abortedTxs) + Len(committedTxs) = txIndex - 1
    /\ txIndex > 1 => Len(committedTxs) > 0

\* The values the round works on.
ValueInv ==
    /\ pc \in {"execute", "reserveWrite", "reserveRead"} => db = roundStart
    /\ pc \notin {"idle", "round"} =>
        \A i \in DOMAIN selectedTxs :
            pc # "execute" \/ i \in finished
                => execInfos[i] = ExecuteTx(selectedTxs[i], roundStart, store)

IInv == TypeOK /\ RoundInv /\ AbortRule /\ LoopInv /\ ValueInv
=============================================================================
