--------------------------- MODULE MCTxScheduler ---------------------------
(***************************************************************************)
(* The optimistic scheduler on the sample contracts.                       *)
(***************************************************************************)
EXTENDS TxScheduler, SampleContracts

CONSTANTS MaxTx   \* longest list of transactions in one call

AllBatches == Lists(MaxTx)

\* Without sender groups the order of the batch makes no difference.
UnorderedBatches == {SetToSeq(S) : S \in {T \in SUBSET Tx : Cardinality(T) <= MaxTx}}

\* One contract: the name of a key tells its location.
MCConstructKey(l) == l[2]

MCLocOrder == <<LocA, LocB>>

\* Two transactions that depend on each other, one that uses an iterator, one
\* that uses it only if it finds a set.
OccTxs ==
    { Always("flip_b", {LocA}, Put(1, {LocB})),
      Always("b_to_a", {LocB}, Put(0, {LocA})),
      Always("scan_a", {}, [Put(1, {LocB}) EXCEPT !.scan = {LocA}]),
      [id |-> "scan_if_a", read |-> {LocA},
       zero |-> Put(1, {LocA}), other |-> [Put(0, {LocB}) EXCEPT !.scan = {LocB}]] }

MCSender(t) == IF t.id = "b_to_a" THEN "bob" ELSE "alice"
\* Used where no liveness is checked.
WorkerSymmetry == Permutations(Worker)
=============================================================================
