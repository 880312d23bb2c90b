------------------------------- MODULE MCPDCC -------------------------------
(***************************************************************************)
(* The PDCC scheduler on the sample contracts.                             *)
(***************************************************************************)
EXTENDS PDCC, SampleContracts

CONSTANTS MaxTx   \* longest list of transactions in one call

AllBatches == Lists(MaxTx)

-----------------------------------------------------------------------------
(* The arguments of the current call, kept for the properties.             *)

VARIABLE call

MCInit == Init /\ call = [txs |-> << >>, size |-> batchSize]

MCNext ==
    /\ Next
    /\ call' = IF height' # height THEN [txs |-> txBatch', size |-> batchSize] ELSE call

MCSpec == MCInit /\ [][MCNext]_<<vars, call>> /\ WF_vars(Step)

-----------------------------------------------------------------------------
(* A reference for one call of Schedule, as a function of its arguments.   *)

RECURSIVE RefCommitted(_, _, _)
\* Indexes of the transactions of a round that commit: by ascending index,
\* those that read no key name written by a committed one before.
RefCommitted(rw, n, done) ==
    IF n > Len(rw) THEN done
    ELSE LET hit(j) == \E r \in rw[n].reads, l \in Loc :
                          l[2] = r[2] /\ rw[j].writes[l] # NoWrite
         IN RefCommitted(rw, n + 1, IF \E j \in done : hit(j) THEN done ELSE done \cup {n})

RECURSIVE RefSchedule(_, _, _, _)
RefSchedule(d, todo, size, rounds) ==
    IF todo = << >> THEN [txs |-> << >>, rounds |-> rounds]
    ELSE LET n == MinNat(size, Len(todo))
             sel == SubSeq(todo, 1, n)
             rw == [i \in 1..n |-> ExecuteTx(sel[i], d, d)]
             done == RefCommitted(rw, 1, {})
             txs == Pick(sel, done)
             rest == Pick(sel, (1..n) \ done) \o SubSeq(todo, n + 1, Len(todo))
             tail == RefSchedule(SerialDb(d, txs), rest, size, rounds + 1)
         IN [tail EXCEPT !.txs = txs \o @]

(***************************************************************************)
(* Schedule is deterministic: however its goroutines interleave, the block *)
(* and the number of rounds are a function of the transactions, the state  *)
(* and the batch size.  A call that times out returns a prefix of it.      *)
(***************************************************************************)
OutcomeDetermined ==
    pc = "idle" /\ height > 0 =>
        LET ref == RefSchedule(store, call.txs, call.size, 0) IN
        /\ IsPrefix(blockTxs, ref.txs)
        /\ txBatch = << >> => blockTxs = ref.txs /\ roundNum = ref.rounds

(***************************************************************************)
(* Aborted transactions do not lose their place: between rounds the        *)
(* remaining transactions are in the order in which they were handed over. *)
(***************************************************************************)
RemainingInOrder ==
    pc = "round" =>
        \A i, j \in DOMAIN txBatch :
            i < j => \E k, m \in DOMAIN call.txs :
                        k < m /\ call.txs[k] = txBatch[i] /\ call.txs[m] = txBatch[j]
=============================================================================
