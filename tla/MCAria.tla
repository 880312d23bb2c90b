------------------------------- MODULE MCAria -------------------------------
(***************************************************************************)
(* The Aria scheduler on the sample contracts.                             *)
(***************************************************************************)
EXTENDS Aria, SampleContracts

CONSTANTS MaxTx   \* longest list of transactions in one call

AllBatches == Lists(MaxTx)

\* One contract: the name of a key tells its location.
MCConstructKey(l) == l[2]

(***************************************************************************)
(* The serial order of ReadersFirst does its job: run one by one in that   *)
(* order from the state before the round, the committed transactions have  *)
(* the read/write sets of the round and end in the state it leaves.        *)
(***************************************************************************)
RoundSerializable ==
    pc = "commit" =>
        LET order == SetToSortSeq({i \in finished : ~aborted[i]}, Before)
            txs == [n \in DOMAIN order |-> selectedTxs[order[n]]]
            upTo(n) == SerialDb(roundStart, SubSeq(txs, 1, n - 1))
        IN /\ db = SerialDb(roundStart, txs)
           /\ \A n \in DOMAIN order :
                execInfos[order[n]] = ExecuteTx(txs[n], upTo(n), upTo(n))

-----------------------------------------------------------------------------
(* The arguments of the current call, kept for the properties.             *)

VARIABLE call

MCInit == Init /\ call = << >>

MCNext == Next /\ call' = IF height' # height THEN txBatch' ELSE call

MCSpec == MCInit /\ [][MCNext]_<<vars, call>> /\ WF_vars(Step)

\* A reference for one call of Schedule, by Rule 2 on the locations.
RECURSIVE RefSchedule(_, _)
RefSchedule(d, txs) ==
    IF txs = << >> THEN << >>
    ELSE LET n == IF BatchSize <= Len(txs) THEN BatchSize ELSE Len(txs)
             rw == [i \in 1..n |-> ExecuteTx(txs[i], d, d)]
             R(i) == rw[i].reads
             W(i) == {l \in Loc : Writes(rw[i], l)}
             meets(i, A(_), B(_)) == \E j \in 1..(i - 1) : A(i) \cap B(j) # {}
             ok == {i \in 1..n : ~meets(i, W, W) /\ ~(meets(i, W, R) /\ meets(i, R, W))}
             next == [l \in Loc |->
                        IF \E i \in ok : l \in W(i)
                        THEN rw[CHOOSE i \in ok : l \in W(i)].writes[l] ELSE d[l]]
         IN Pick(txs, ok) \o RefSchedule(next, Pick(txs, (1..n) \ ok)
                                                \o SubSeq(txs, n + 1, Len(txs)))

(***************************************************************************)
(* Schedule is deterministic: whatever order its goroutines run in, the    *)
(* block is a function of the transactions and the state.  A call that     *)
(* times out returns a prefix of it.                                       *)
(***************************************************************************)
OutcomeDetermined ==
    pc = "idle" /\ height > 0 =>
        LET ref == RefSchedule(store, call) IN
        IsPrefix(blockTxs, ref) /\ (txBatch = << >> => blockTxs = ref)
=============================================================================
