----------------------------- MODULE TxScheduler -----------------------------
(***************************************************************************)
(* ChainMaker's optimistic scheduler (TxScheduler.Schedule).  A handler    *)
(* goroutine takes transactions from a channel and gives them to a pool of *)
(* workers.  A worker runs its transaction on the snapshot while others    *)
(* change it, applies the result if nothing it read was written since it   *)
(* began, and otherwise puts the transaction back.  Transactions that open *)
(* an iterator are set aside and run one by one at the end.                *)
(*                                                                         *)
(* scheduleFinishC is an unbuffered channel of the scheduler, not of the   *)
(* call: the handler of an earlier call and Halt send on it too.           *)
(***************************************************************************)
EXTENDS Snapshot, BlockDAG

CONSTANTS
    Worker,             \* goroutines of the pool
    Batches,            \* the transaction lists Schedule may be called with
    EnableSenderGroup,  \* dispatch a sender's next transaction after its last
    Sender(_),          \* who pays for a transaction, a non-empty string
    EnableSqlSupport,   \* contracts on an SQL store
    MaxHeight,          \* bound on the number of calls
    MaxHalts            \* bound on the number of calls of Halt

ASSUME SchedulerBoundsAssumption == MaxHeight \in Nat /\ MaxHalts \in Nat

ASSUME SchedulerModeAssumption ==
    EnableSenderGroup \in BOOLEAN /\ EnableSqlSupport \in BOOLEAN

\* The transaction pool hands out a transaction once.
ASSUME SchedulerBatchesAssumption ==
    Batches \subseteq {b \in Seq(Tx) : IsInjective(b)}

VARIABLES
    pc,              \* the caller
    height,          \* number of calls so far
    txBatch,
    runningTxC,      \* transactions in the channel; the order is left open
    handler,         \* goroutine startTxHandler, with the transaction it holds
    work,            \* what each worker is doing
    seen,            \* per worker: the values each location had since it began
    specialTxTable,
    serialTxs,       \* of specialTxTable, those still to be run
    txsMap,          \* sender group: transactions of a sender not yet applied
    doneTxKeyC,      \* sender group: senders whose transaction was applied
    blockDag,        \* block.Dag
    blockTxs,        \* block.Txs
    txRWSetMap,
    cut,             \* this call reached its time limit or received a Halt
    halting,         \* calls of Halt waiting for a receiver
    halts,           \* calls of Halt so far
    oldHandlers      \* handlers of earlier calls that have not sent yet

poolVars == <<runningTxC, work, seen, specialTxTable, txsMap, doneTxKeyC>>
blockVars == <<blockDag, blockTxs, txRWSetMap, serialTxs>>
signalVars == <<halting, halts, oldHandlers>>
callVars == <<pc, height, txBatch>>
vars == <<snapshot, callVars, handler, poolVars, blockVars, cut, signalVars>>

NotRun == [reads |-> {}, writes |-> NoWrites, ok |-> FALSE]

Idle == [pc |-> "idle", tx |-> << >>, seq |-> 0, rwset |-> NotRun, special |-> FALSE]

Handler(p, held) == [pc |-> p, held |-> held]

Init ==
    /\ NewSnapshot
    /\ pc = "idle"
    /\ height = 0
    /\ txBatch = << >>
    /\ runningTxC = {}
    /\ handler = Handler("done", {})
    /\ work = [w \in Worker |-> Idle]
    /\ seen = [w \in Worker |-> [l \in Loc |-> {}]]
    /\ specialTxTable = << >>
    /\ serialTxs = << >>
    /\ txsMap = << >>
    /\ doneTxKeyC = << >>
    /\ blockDag = << >>
    /\ blockTxs = << >>
    /\ txRWSetMap = [t \in Tx |-> NoRWSet]
    /\ cut = FALSE
    /\ halting = 0
    /\ halts = 0
    /\ oldHandlers = 0

-----------------------------------------------------------------------------
(* The caller, up to the wait.                                             *)

\* Mutant: the last one first.
getSenderTxsMapReversed(batch) ==
    [s \in {Sender(batch[i]) : i \in DOMAIN batch} |->
        Reverse(SelectSeq(batch, LAMBDA t : Sender(t) = s))]

\* SenderGroup: the transactions of each sender in the order of the batch.
getSenderTxsMap(batch) ==
    [s \in {Sender(batch[i]) : i \in DOMAIN batch} |->
        SelectSeq(batch, LAMBDA t : Sender(t) = s)]

(***************************************************************************)
(* A call on a new snapshot, above the last block or in its place.  The    *)
(* first transactions are dispatched; an empty batch starts no handler.    *)
(***************************************************************************)
Schedule ==
    /\ pc = "idle"
    /\ height < MaxHeight
    /\ height' = height + 1
    /\ \E batch \in Batches :
        LET groups == getSenderTxsMap(batch) IN
        /\ txBatch' = batch
        /\ pc' = IF batch = << >> THEN "seal" ELSE "wait"
        /\ handler' = Handler(IF batch = << >> THEN "done" ELSE "loop", {})
        /\ txsMap' = IF EnableSenderGroup THEN groups ELSE << >>
        /\ runningTxC' = IF EnableSenderGroup
                         THEN {Head(groups[s]) : s \in DOMAIN groups} ELSE ToSet(batch)
    /\ store' \in {store, View}
    /\ sealed' = FALSE
    /\ writeTable' = [k \in FinalKey |-> NoEntry]
    /\ txRWSetTable' = << >>
    /\ txTable' = << >>
    /\ specialTxTable' = << >>
    /\ doneTxKeyC' = << >>
    /\ blockDag' = << >>
    /\ blockTxs' = << >>
    /\ txRWSetMap' = [t \in Tx |-> NoRWSet]
    /\ serialTxs' = << >>
    /\ cut' = FALSE
    /\ UNCHANGED <<lock, work, seen, signalVars>>

\* sendTxBySenderGroup: the sender's next transaction, if any.
DispatchNext ==
    /\ doneTxKeyC # << >>
    /\ Head(doneTxKeyC) # ""
    /\ LET s == Head(doneTxKeyC)
           rest == Tail(txsMap[s])
       IN /\ txsMap' = [txsMap EXCEPT ![s] = rest]
          /\ runningTxC' = IF rest = << >> THEN runningTxC ELSE runningTxC \cup {Head(rest)}
    /\ doneTxKeyC' = Tail(doneTxKeyC)
    /\ UNCHANGED <<snapshot, callVars, handler, work, seen, specialTxTable, blockVars, cut,
                   signalVars>>

-----------------------------------------------------------------------------
(* startTxHandler.                                                         *)

TakeTx ==
    /\ handler.pc = "loop"
    /\ \E t \in runningTxC :
        /\ runningTxC' = runningTxC \ {t}
        /\ handler' = Handler("submit", {t})
    /\ UNCHANGED <<snapshot, callVars, work, seen, specialTxTable, txsMap, doneTxKeyC,
                   blockVars, cut, signalVars>>

\* goRoutinePool.Submit waits for a free worker.
Submit(w) ==
    /\ handler.pc = "submit"
    /\ work[w].pc = "idle"
    /\ \E t \in handler.held : work' = [work EXCEPT ![w] = [Idle EXCEPT !.pc = "start", !.tx = t]]
    /\ handler' = Handler("loop", {})
    /\ UNCHANGED <<snapshot, callVars, runningTxC, seen, specialTxTable, txsMap, doneTxKeyC,
                   blockVars, cut, signalVars>>

Timeout ==
    /\ handler.pc = "loop"
    /\ handler' = Handler("signal", {})
    /\ cut' = TRUE
    /\ UNCHANGED <<snapshot, callVars, poolVars, blockVars, signalVars>>

\* A worker hands over its message on finishC and is done.
ReceiveFinish(w) ==
    /\ handler.pc = "loop"
    /\ work[w].pc = "finish"
    /\ handler' = Handler("signal", {})
    /\ work' = [work EXCEPT ![w] = Idle]
    /\ UNCHANGED <<snapshot, callVars, runningTxC, seen, specialTxTable, txsMap, doneTxKeyC,
                   blockVars, cut, signalVars>>

-----------------------------------------------------------------------------
(* A worker: handleTx.                                                     *)

poolRest == <<callVars, handler, txsMap, blockVars, cut, signalVars>>

StartTx(w) ==
    /\ work[w].pc = "start"
    /\ ~sealed
    /\ work' = [work EXCEPT ![w].pc = "execute", ![w].seq = GetSnapshotSize]
    /\ seen' = [seen EXCEPT ![w] = [l \in Loc |-> {GetKey(l)}]]
    /\ UNCHANGED <<snapshot, poolRest, runningTxC, specialTxTable, doneTxKeyC>>

GiveUp(w) ==
    /\ work[w].pc = "start"
    /\ sealed
    /\ work' = [work EXCEPT ![w] = Idle]
    /\ UNCHANGED <<snapshot, poolRest, runningTxC, seen, specialTxTable, doneTxKeyC>>

(***************************************************************************)
(* The run took some time, and reads no lock protects: at each location it *)
(* found one of the values that were there since it began.                 *)
(***************************************************************************)
Execute(w) ==
    /\ work[w].pc = "execute"
    /\ \E d \in {e \in State : \A l \in Loc : e[l] \in seen[w][l]} :
        work' = [work EXCEPT ![w].pc = "apply",
                             ![w].rwset = ExecuteTx(work[w].tx, d, IteratorView),
                             ![w].special = UsesIterator(work[w].tx, d)]
    /\ seen' = [seen EXCEPT ![w] = [l \in Loc |-> {}]]
    /\ UNCHANGED <<snapshot, poolRest, runningTxC, specialTxTable, doneTxKeyC>>

\* Mutant: the last but one says that all is done.
ReportEarly(w, applySize) ==
    work' = [work EXCEPT ![w] = IF applySize + 1 >= Len(txBatch)
                                THEN [Idle EXCEPT !.pc = "finish"] ELSE Idle]

\* What is left of handleTx once the snapshot has answered.
Report(w, applySize) ==
    work' = [work EXCEPT ![w] = IF applySize >= Len(txBatch)
                                THEN [Idle EXCEPT !.pc = "finish"] ELSE Idle]

\* ApplyTxSimContext says no, before the lock or under it: the transaction goes back.
Refuse(w) ==
    /\ work[w].pc = "apply"
    /\ \/ sealed /\ (work[w].special => ~lock)
       \/ ~work[w].special /\ Conflicted(work[w].rwset, work[w].seq)
    /\ runningTxC' = runningTxC \cup {work[w].tx}
    /\ Report(w, GetSnapshotSize + (IF sealed THEN 0 ELSE Len(specialTxTable)))
    /\ UNCHANGED <<snapshot, poolRest, seen, specialTxTable, doneTxKeyC>>

\* applyIteratorFirstRun, and what handleTx does after it.
SetAside(w) ==
    /\ work[w].pc = "apply"
    /\ work[w].special
    /\ ~lock
    /\ ~sealed
    /\ specialTxTable' = Append(specialTxTable, work[w].tx)
    /\ doneTxKeyC' = IF EnableSenderGroup THEN Append(doneTxKeyC, Sender(work[w].tx))
                     ELSE doneTxKeyC
    /\ Report(w, GetSnapshotSize + Len(specialTxTable'))
    /\ UNCHANGED <<snapshot, poolRest, runningTxC, seen>>

\* The checks pass, the last one under the lock; the runs going on see the writes.
ApplyWriteSet(w) ==
    /\ work[w].pc = "apply"
    /\ ~work[w].special
    /\ ~sealed
    /\ Applicable(work[w].rwset, work[w].seq)
    /\ PutWrites(work[w].rwset)
    /\ work' = [work EXCEPT ![w].pc = "rwset"]
    /\ seen' = [v \in Worker |-> IF work[v].pc = "execute"
                                 THEN [l \in Loc |-> seen[v][l] \cup {View'[l]}]
                                 ELSE seen[v]]
    /\ UNCHANGED <<poolRest, runningTxC, specialTxTable, doneTxKeyC>>

ListRWSet(w) ==
    /\ work[w].pc = "rwset"
    /\ AppendRWSet(work[w].tx, work[w].rwset)
    /\ work' = [work EXCEPT ![w].pc = "table"]
    /\ UNCHANGED <<poolRest, runningTxC, seen, specialTxTable, doneTxKeyC>>

\* Mutant: those set aside are not counted.
ListTxUncounted(w) ==
    /\ work[w].pc = "table"
    /\ AppendTx(work[w].tx)
    /\ doneTxKeyC' = IF EnableSenderGroup THEN Append(doneTxKeyC, Sender(work[w].tx))
                     ELSE doneTxKeyC
    /\ Report(w, Len(txTable'))
    /\ UNCHANGED <<poolRest, runningTxC, seen, specialTxTable>>

\* The last step of applyOptimize, and what handleTx does after it.
ListTx(w) ==
    /\ work[w].pc = "table"
    /\ AppendTx(work[w].tx)
    /\ doneTxKeyC' = IF EnableSenderGroup THEN Append(doneTxKeyC, Sender(work[w].tx))
                     ELSE doneTxKeyC
    /\ Report(w, Len(txTable') + Len(specialTxTable))
    /\ UNCHANGED <<poolRest, runningTxC, seen, specialTxTable>>

Work(w) ==
    \/ StartTx(w) \/ GiveUp(w) \/ Execute(w) \/ Refuse(w) \/ SetAside(w)
    \/ ApplyWriteSet(w) \/ ListRWSet(w) \/ ListTx(w)

-----------------------------------------------------------------------------
(* The caller: woken by its handler, by Halt or by an earlier handler.     *)

Wake == pc = "wait" /\ pc' = "seal" /\ UNCHANGED <<snapshot, height, txBatch, blockVars>>

ReceiveSignal ==
    /\ Wake
    /\ handler.pc = "signal"
    /\ handler' = Handler("done", {})
    /\ doneTxKeyC' = IF EnableSenderGroup THEN Append(doneTxKeyC, "") ELSE doneTxKeyC
    /\ UNCHANGED <<runningTxC, work, seen, specialTxTable, txsMap, cut, signalVars>>

ReceiveHalt ==
    /\ Wake
    /\ halting > 0
    /\ halting' = halting - 1
    /\ cut' = TRUE
    /\ UNCHANGED <<handler, poolVars, halts, oldHandlers>>

ReceiveOldSignal ==
    /\ Wake
    /\ oldHandlers > 0
    /\ oldHandlers' = oldHandlers - 1
    /\ UNCHANGED <<handler, poolVars, cut, halting, halts>>

SealSnapshot ==
    /\ pc = "seal"
    /\ Seal
    /\ pc' = "dag"
    /\ UNCHANGED <<height, txBatch, handler, poolVars, blockVars, cut, signalVars>>

\* Mutant: no lock is taken.
BuildDagUnlocked ==
    /\ pc = "dag"
    /\ blockDag' = BuildDAG(EnableSqlSupport,
                            [i \in DOMAIN txTable |-> txRWSetTable[i].rwset])
    /\ serialTxs' = specialTxTable
    /\ pc' = "special"
    /\ UNCHANGED <<snapshot, height, txBatch, handler, poolVars, blockTxs, txRWSetMap, cut,
                   signalVars>>

\* The read lock waits for an apply that has begun.
BuildDag ==
    /\ pc = "dag"
    /\ ~lock
    /\ blockDag' = BuildDAG(EnableSqlSupport,
                            [i \in DOMAIN txTable |-> txRWSetTable[i].rwset])
    /\ serialTxs' = specialTxTable
    /\ pc' = "special"
    /\ UNCHANGED <<snapshot, height, txBatch, handler, poolVars, blockTxs, txRWSetMap, cut,
                   signalVars>>

\* simulateSpecialTxs: run again on its own, and applied without a check.
RunSpecialTx ==
    /\ pc = "special"
    /\ serialTxs # << >>
    /\ ~lock
    /\ \E rwset \in {ExecuteTx(Head(serialTxs), View, IteratorView)} :
        /\ writeTable' = FinalWriteKvs(rwset)
        /\ txRWSetTable' = Append(txRWSetTable, [tx |-> Head(serialTxs), rwset |-> rwset])
        /\ txTable' = Append(txTable, Head(serialTxs))
    /\ blockDag' = Append(blockDag, SpecialVertex(blockDag, serialTxs = specialTxTable))
    /\ serialTxs' = Tail(serialTxs)
    /\ UNCHANGED <<store, sealed, lock, callVars, handler, poolVars, blockTxs, txRWSetMap,
                   cut, signalVars>>

(***************************************************************************)
(* All are run, or their time is up.  The snapshot is sealed: of the       *)
(* goroutines left behind only a handler can still be heard.               *)
(***************************************************************************)
Return ==
    /\ pc = "special"
    /\ blockTxs' = txTable
    /\ txRWSetMap' = GetTxRWSetTable
    /\ cut' = (cut \/ serialTxs # << >>)
    /\ oldHandlers' = IF handler.pc = "done" THEN oldHandlers ELSE oldHandlers + 1
    /\ handler' = Handler("done", {})
    /\ work' = [w \in Worker |-> Idle]
    /\ seen' = [w \in Worker |-> [l \in Loc |-> {}]]
    /\ runningTxC' = {}
    /\ pc' = "idle"
    /\ UNCHANGED <<snapshot, height, txBatch, specialTxTable, serialTxs, txsMap, doneTxKeyC,
                   blockDag, halting, halts>>

\* The call blocks until a Schedule receives it.
Halt ==
    /\ halts < MaxHalts
    /\ halts' = halts + 1
    /\ halting' = halting + 1
    /\ UNCHANGED <<snapshot, callVars, handler, poolVars, blockVars, cut, oldHandlers>>

Caller ==
    \/ ReceiveSignal \/ ReceiveHalt \/ ReceiveOldSignal
    \/ SealSnapshot \/ BuildDag \/ RunSpecialTx \/ Return

HandlerStep == TakeTx \/ \E w \in Worker : Submit(w) \/ ReceiveFinish(w)

Next ==
    \/ Schedule \/ Halt \/ Caller
    \/ DispatchNext \/ HandlerStep \/ Timeout
    \/ \E w \in Worker : Work(w)

(***************************************************************************)
(* Goroutines go on and contracts terminate.  The clock is not assumed to  *)
(* reach the time limit.                                                   *)
(***************************************************************************)
Spec ==
    /\ Init /\ [][Next]_vars
    /\ WF_vars(Caller) /\ WF_vars(DispatchNext) /\ WF_vars(HandlerStep)
    /\ \A w \in Worker : WF_vars(Work(w))

-----------------------------------------------------------------------------
(* Properties.                                                             *)

WorkState ==
    [pc : {"idle", "start", "execute", "apply", "rwset", "table", "finish"},
     tx : Tx \cup {<< >>}, seq : Nat, rwset : RWSet, special : BOOLEAN]

TypeOK ==
    /\ SnapshotTypeOK
    /\ pc \in {"idle", "wait", "seal", "dag", "special"}
    /\ height \in 0..MaxHeight
    /\ txBatch \in Batches \cup {<< >>}
    /\ runningTxC \subseteq ToSet(txBatch)
    /\ handler.pc \in {"loop", "submit", "signal", "done"}
    /\ handler.held \subseteq ToSet(txBatch)
    /\ work \in [Worker -> WorkState]
    /\ seen \in [Worker -> [Loc -> SUBSET Val]]
    /\ specialTxTable \in Seq(Tx)
    /\ serialTxs \in Seq(Tx)
    /\ \A s \in DOMAIN txsMap : txsMap[s] \in Seq(Tx)
    /\ Len(doneTxKeyC) <= Len(txBatch) + 1
    /\ ValidDAG(blockDag)
    /\ blockTxs \in Seq(Tx)
    /\ txRWSetMap \in [Tx -> RWSet \cup {NoRWSet}]
    /\ cut \in BOOLEAN
    /\ halting \in 0..halts
    /\ halts \in 0..MaxHalts
    /\ oldHandlers \in 0..height

(***************************************************************************)
(* The snapshot is filled as by a serial execution of txTable, although    *)
(* runs overlap, read while others apply, and are repeated: what a run     *)
(* applies is what it would have computed on the state it is applied to.   *)
(***************************************************************************)
appliers == {w \in Worker : work[w].pc \in {"rwset", "table"}}
applied == {work[w].tx : w \in appliers}
appliedTxs == txTable \o SetToSeq(applied)

Ledger == INSTANCE SerialLedger WITH
    base    <- store,
    state   <- View,
    pending <- ToSet(txBatch) \ ToSet(appliedTxs),
    order   <- appliedTxs,
    results <- [t \in Tx |->
                    IF t \in applied
                    THEN work[CHOOSE w \in appliers : work[w].tx = t].rwset
                    ELSE GetTxRWSetTable[t]]

Serializable == Ledger!LedgerSpec

(***************************************************************************)
(* A call leaves a block whose parts belong together, whoever woke it and  *)
(* whatever its workers were doing then: every transaction has a vertex    *)
(* and a read/write set, and the graph orders the conflicts.               *)
(***************************************************************************)
BlockIsConsistent ==
    pc = "idle" /\ height > 0 =>
        /\ \A t \in ToSet(blockTxs) : txRWSetMap[t] # NoRWSet
        /\ DOMAIN blockDag = DOMAIN blockTxs
        /\ Covers(blockDag, [i \in DOMAIN blockTxs |-> txRWSetMap[blockTxs[i]]])

(***************************************************************************)
(* The wait ends when the transactions are all applied or set aside, the   *)
(* time is up or Halt was called: otherwise the block has the whole batch  *)
(* (`Wait for schedule finish signal').                                    *)
(***************************************************************************)
CompleteUnlessCut ==
    pc = "idle" /\ height > 0 /\ ~cut =>
        IsInjective(blockTxs) /\ ToSet(blockTxs) = ToSet(txBatch)

(***************************************************************************)
(* With sender groups, a sender's transactions are taken in the order of   *)
(* the batch: none before the earlier ones are applied or set aside, and   *)
(* each of the two lists has them in order.                                *)
(***************************************************************************)
IndexIn(s, t) == CHOOSE i \in DOMAIN s : s[i] = t

SenderOrder ==
    EnableSenderGroup =>
        \A j \in DOMAIN txBatch : \A i \in 1..(j - 1) :
            LET t == txBatch[i]
                u == txBatch[j]
                aside == ToSet(specialTxTable)
                handled == aside \cup ToSet(txTable)
            IN Sender(t) = Sender(u) /\ u \in handled =>
                    /\ t \in handled
                    /\ t \in aside /\ u \in aside =>
                            IndexIn(specialTxTable, t) < IndexIn(specialTxTable, u)
                    /\ t \notin aside /\ u \notin aside =>
                            IndexIn(txTable, t) < IndexIn(txTable, u)

(***************************************************************************)
(* A call ends without the help of its time limit: refused transactions    *)
(* come back until they are applied, and the one that completes the batch  *)
(* says so, counting those set aside.                                      *)
(***************************************************************************)
ScheduleFinishes == (pc = "wait") ~> (pc = "idle")
=============================================================================
