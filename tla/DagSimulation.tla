--------------------------- MODULE DagSimulation ---------------------------
(***************************************************************************)
(* The execution of a proposed block by the optimistic scheduler of        *)
(* another node (TxScheduler.SimulateWithDag): a transaction is started    *)
(* when those its vertex names have been reported done, each on a          *)
(* goroutine of its own.  One loop hands out the transactions, receives    *)
(* the reports and, when the count is right, sends itself a message on     *)
(* finishC, a channel with room for one.                                   *)
(*                                                                         *)
(* The block comes from Schedule: transactions run one after the other, of *)
(* which the last ones may be iterator transactions set aside.             *)
(***************************************************************************)
EXTENDS Snapshot, BlockDAG

CONSTANT Batches   \* the transactions of the blocks

ASSUME BlocksAssumption == Batches \subseteq {b \in Seq(Tx) : IsInjective(b)}

VARIABLES
    pc,              \* the caller
    block,           \* transactions, graph, read/write sets, final state
    loop,            \* the goroutine with the select statement
    runningTxC,      \* indexes in the channel; the order is left open
    dagRemain,       \* for each transaction, those it still waits for
    work,            \* what the goroutine of each transaction is doing
    seen,            \* the values each location had since its run began
    doneTxC,
    failApplyCount,
    finishC,
    timedOut,
    txRWSetMap

callVars == <<pc, block, txRWSetMap>>
loopVars == <<loop, runningTxC, dagRemain, failApplyCount, finishC, timedOut>>
vars == <<snapshot, callVars, loopVars, work, seen, doneTxC>>

Idle == [pc |-> "idle", seq |-> 0, special |-> FALSE, ok |-> FALSE, size |-> 0,
         rwset |-> [reads |-> {}, writes |-> NoWrites, ok |-> FALSE]]

NoValues == [l \in Loc |-> {}]

EmptyBlock == [txs |-> << >>, dag |-> << >>, rwsets |-> << >>, state |-> << >>]

Init ==
    /\ NewSnapshot
    /\ pc = "idle"
    /\ block = EmptyBlock
    /\ loop = "done"
    /\ runningTxC = {}
    /\ dagRemain = << >>
    /\ work = << >>
    /\ seen = << >>
    /\ doneTxC = << >>
    /\ failApplyCount = 0
    /\ finishC = 0
    /\ timedOut = FALSE
    /\ txRWSetMap = [t \in Tx |-> NoRWSet]

-----------------------------------------------------------------------------
(* The block.                                                              *)

\* The transactions run one after the other from d.
SerialRun(d, txs) ==
    LET run[n \in 0..Len(txs)] ==
            IF n = 0 THEN [state |-> d, rwsets |-> << >>]
            ELSE LET p == run[n - 1]
                     rwset == ExecuteTx(txs[n], p.state, p.state)
                 IN [state  |-> ApplyWrites(p.state, rwset.writes),
                     rwsets |-> Append(p.rwsets, rwset)]
    IN run

\* The graph of n transactions, the last ones from k + 1 on run on their own.
BlockGraph(rwsets, k) ==
    FoldLeft(LAMBDA dag, n : Append(dag, SpecialVertex(dag, n = k + 1)),
             BuildDAG(FALSE, SubSeq(rwsets, 1, k)),
             [i \in 1..(Len(rwsets) - k) |-> k + i])

\* Could Schedule have applied the first k directly and set the others aside?
Schedulable(d, txs, k) ==
    /\ \A i \in 1..k : ~UsesIterator(txs[i], SerialRun(d, txs)[i - 1].state)
    /\ \A i \in (k + 1)..Len(txs) : \E e \in State : UsesIterator(txs[i], e)

Blocks(d) ==
    {LET end == SerialRun(d, p[1])[Len(p[1])]
     IN [txs |-> p[1], dag |-> BlockGraph(end.rwsets, p[2]),
         rwsets |-> end.rwsets, state |-> end.state] :
        p \in {q \in Batches \X (0..Max({Len(b) : b \in Batches})) :
                q[2] <= Len(q[1]) /\ Schedulable(d, q[1], q[2])}}

\* An empty block is answered at once.
SimulateWithDag ==
    /\ pc = "idle"
    /\ block' \in Blocks(store)
    /\ block'.txs # << >>
    /\ dagRemain' = block'.dag
    /\ runningTxC' = {i \in DOMAIN block'.dag : block'.dag[i] = {}}
    /\ work' = [i \in DOMAIN block'.txs |-> Idle]
    /\ seen' = [i \in DOMAIN block'.txs |-> NoValues]
    /\ loop' = "select"
    /\ pc' = "wait"
    /\ UNCHANGED <<snapshot, doneTxC, failApplyCount, finishC, timedOut, txRWSetMap>>

-----------------------------------------------------------------------------
(* The loop.                                                               *)

SubmitTx ==
    /\ loop = "select"
    /\ \E i \in runningTxC :
        /\ runningTxC' = runningTxC \ {i}
        /\ work' = [work EXCEPT ![i].pc = "start"]
    /\ UNCHANGED <<snapshot, callVars, loop, dagRemain, failApplyCount, finishC, timedOut,
                   seen, doneTxC>>

\* The transactions that waited for i only.
shrinkDag(i) == {j \in DOMAIN dagRemain : dagRemain[j] = {i}}

\* Mutant: off by one.
EnoughMore(size) == size > Len(block.txs)

\* The count that ends the loop.
Enough(size) == size >= Len(block.txs)

ReceiveDone ==
    /\ loop = "select"
    /\ doneTxC # << >>
    /\ LET m == Head(doneTxC) IN
        /\ failApplyCount' = failApplyCount + (IF m.ok THEN 0 ELSE 1)
        /\ runningTxC' = runningTxC \cup shrinkDag(m.txIndex)
        /\ dagRemain' = [j \in DOMAIN dagRemain |-> dagRemain[j] \ {m.txIndex}]
        /\ loop' = IF Enough(m.applySize + failApplyCount') THEN "send" ELSE "select"
    /\ doneTxC' = Tail(doneTxC)
    /\ UNCHANGED <<snapshot, callVars, finishC, timedOut, work, seen>>

\* The loop is the only one that receives from finishC.
SendFinish ==
    /\ loop = "send"
    /\ finishC = 0
    /\ finishC' = 1
    /\ loop' = "select"
    /\ UNCHANGED <<snapshot, callVars, runningTxC, dagRemain, failApplyCount, timedOut,
                   work, seen, doneTxC>>

ReceiveFinish ==
    /\ loop = "select"
    /\ finishC = 1
    /\ finishC' = 0
    /\ loop' = "signal"
    /\ UNCHANGED <<snapshot, callVars, runningTxC, dagRemain, failApplyCount, timedOut,
                   work, seen, doneTxC>>

Timeout ==
    /\ loop = "select"
    /\ loop' = "signal"
    /\ timedOut' = TRUE
    /\ UNCHANGED <<snapshot, callVars, runningTxC, dagRemain, failApplyCount, finishC,
                   work, seen, doneTxC>>

Loop == SubmitTx \/ ReceiveDone \/ SendFinish \/ ReceiveFinish

-----------------------------------------------------------------------------
(* The goroutine of transaction i: handleTxInSimulateWithDag.              *)

tx(i) == block.txs[i]

StartTx(i) ==
    /\ work[i].pc = "start"
    /\ work' = [work EXCEPT ![i].pc = "execute", ![i].seq = GetSnapshotSize]
    /\ seen' = [seen EXCEPT ![i] = [l \in Loc |-> {GetKey(l)}]]
    /\ UNCHANGED <<snapshot, callVars, loopVars, doneTxC>>

\* At each location the run finds one of the values there since it began.
Execute(i) ==
    /\ work[i].pc = "execute"
    /\ \E d \in {e \in State : \A l \in Loc : e[l] \in seen[i][l]} :
        work' = [work EXCEPT ![i].pc = "apply",
                             ![i].rwset = ExecuteTx(tx(i), d, IteratorView),
                             ![i].special = UsesIterator(tx(i), d)]
    /\ seen' = [seen EXCEPT ![i] = NoValues]
    /\ UNCHANGED <<snapshot, callVars, loopVars, doneTxC>>

Refuse(i) ==
    /\ work[i].pc = "apply"
    /\ ~work[i].special
    /\ sealed \/ Conflicted(work[i].rwset, work[i].seq)
    /\ work' = [work EXCEPT ![i].pc = "report", ![i].size = GetSnapshotSize]
    /\ UNCHANGED <<snapshot, callVars, loopVars, seen, doneTxC>>

\* applySpecialTx is set: an iterator transaction is applied without a check.
ApplyWriteSet(i) ==
    /\ work[i].pc = "apply"
    /\ ~work[i].special => ~sealed /\ Applicable(work[i].rwset, work[i].seq)
    /\ PutWrites(work[i].rwset)
    /\ work' = [work EXCEPT ![i].pc = "rwset"]
    /\ seen' = [j \in DOMAIN seen |-> IF work[j].pc = "execute"
                                      THEN [l \in Loc |-> seen[j][l] \cup {View'[l]}]
                                      ELSE seen[j]]
    /\ UNCHANGED <<callVars, loopVars, doneTxC>>

ListRWSet(i) ==
    /\ work[i].pc = "rwset"
    /\ AppendRWSet(tx(i), work[i].rwset)
    /\ work' = [work EXCEPT ![i].pc = "table"]
    /\ UNCHANGED <<callVars, loopVars, seen, doneTxC>>

ListTx(i) ==
    /\ work[i].pc = "table"
    /\ AppendTx(tx(i))
    /\ work' = [work EXCEPT ![i].pc = "report", ![i].ok = TRUE, ![i].size = Len(txTable')]
    /\ UNCHANGED <<callVars, loopVars, seen, doneTxC>>

\* The channel has room for all.
Report(i) ==
    /\ work[i].pc = "report"
    /\ doneTxC' = Append(doneTxC, [txIndex |-> i, ok |-> work[i].ok,
                                   applySize |-> work[i].size])
    /\ work' = [work EXCEPT ![i] = [Idle EXCEPT !.pc = "done"]]
    /\ UNCHANGED <<snapshot, callVars, loopVars, seen>>

Work(i) ==
    \/ StartTx(i) \/ Execute(i) \/ Refuse(i) \/ ApplyWriteSet(i)
    \/ ListRWSet(i) \/ ListTx(i) \/ Report(i)

-----------------------------------------------------------------------------
(* The caller.                                                             *)

ReceiveSignal ==
    /\ pc = "wait"
    /\ loop = "signal"
    /\ pc' = "seal"
    /\ loop' = "done"
    /\ UNCHANGED <<snapshot, block, txRWSetMap, runningTxC, dagRemain, failApplyCount,
                   finishC, timedOut, work, seen, doneTxC>>

SealSnapshot ==
    /\ pc = "seal"
    /\ Seal
    /\ pc' = "pack"
    /\ UNCHANGED <<block, txRWSetMap, loopVars, work, seen, doneTxC>>

Return ==
    /\ pc = "pack"
    /\ txRWSetMap' = GetTxRWSetTable
    /\ pc' = "done"
    /\ UNCHANGED <<snapshot, block, loopVars, work, seen, doneTxC>>

Caller == ReceiveSignal \/ SealSnapshot \/ Return

Next ==
    \/ SimulateWithDag \/ Caller \/ Loop \/ Timeout
    \/ \E i \in DOMAIN work : Work(i)

\* Goroutines go on and contracts terminate.
SimulationFairness ==
    /\ WF_vars(Caller) /\ WF_vars(Loop)
    /\ \A i \in 1..Max({Len(b) : b \in Batches}) :
            WF_vars(i \in DOMAIN work /\ Work(i))

Spec == Init /\ [][Next]_vars /\ SimulationFairness

\* ... and the clock reaches the time limit; the select statement is fair.
TimedSpec == Spec /\ SF_vars(Timeout)

-----------------------------------------------------------------------------
(* Properties.                                                             *)

Index == DOMAIN block.txs

TypeOK ==
    /\ SnapshotTypeOK
    /\ pc \in {"idle", "wait", "seal", "pack", "done"}
    /\ loop \in {"select", "send", "signal", "done"}
    /\ ValidDAG(block.dag) /\ DOMAIN block.dag = Index
    /\ runningTxC \subseteq Index
    /\ dagRemain \in [Index -> SUBSET Index]
    /\ DOMAIN work = Index
    /\ \A i \in Index : work[i].rwset \in RWSet /\ work[i].size \in 0..Len(block.txs)
    /\ seen \in [Index -> [Loc -> SUBSET Val]]
    /\ Len(doneTxC) <= Len(block.txs)
    /\ failApplyCount \in 0..Len(block.txs)
    /\ finishC \in 0..1
    /\ timedOut \in BOOLEAN
    /\ txRWSetMap \in [Tx -> RWSet \cup {NoRWSet}]

(***************************************************************************)
(* SimulateWithDag computes what the proposer computed, in whatever order  *)
(* the goroutines run.  With the graph of an honest proposer no apply      *)
(* fails (the comment on failApplyCount): a transaction that must see a    *)
(* write starts after it, and one that must not is never late.  Each       *)
(* transaction has the read/write set of the block, and a call that did    *)
(* not time out has them all and ends in the same state.                   *)
(***************************************************************************)
SameResults ==
    /\ failApplyCount = 0
    /\ \A e \in ToSet(txRWSetTable) : \E i \in Index :
            e = [tx |-> tx(i), rwset |-> block.rwsets[i]]
    /\ pc = "done" /\ ~timedOut =>
            /\ \A i \in Index : txRWSetMap[tx(i)] = block.rwsets[i]
            /\ View = block.state

(***************************************************************************)
(* SimulateWithDag returns (`Run VM with a given DAG, and return           *)
(* results').                                                              *)
(***************************************************************************)
SimulateReturns == (pc = "wait") ~> (pc = "done")
=============================================================================
