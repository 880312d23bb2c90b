-------------------------- MODULE MCDagSimulation --------------------------
(***************************************************************************)
(* SimulateWithDag on blocks of the sample contracts.                      *)
(***************************************************************************)
EXTENDS DagSimulation, SampleContracts

CONSTANTS MaxTx   \* longest block

AllBatches == Lists(MaxTx)

MCConstructKey(l) == l

\* By contract, then by name.
Earlier(l, m) == IF l[1] = m[1] THEN l[2] = "a" /\ m[2] = "b" ELSE l[1] < m[1]

MCLocOrder == SetToSortSeq(Loc, Earlier)

\* Two transactions that depend on each other, one that sets what both use, one
\* that uses an iterator, one that uses it only if it finds a set.
DagTxs ==
    { Always("flip_b", {LocA}, Put(1, {LocB})),
      Always("b_to_a", {LocB}, Put(0, {LocA})),
      Always("set_a", {}, Put(1, {LocA})),
      Always("scan_a", {}, [Put(1, {LocB}) EXCEPT !.scan = {LocA}]),
      [id |-> "scan_if_a", read |-> {LocA},
       zero |-> Put(1, {LocA}), other |-> [Put(0, {LocB}) EXCEPT !.scan = {LocB}]] }

\* The second writes a key name in two contracts, and reads one of the two.
TwoContractTxs ==
    { Always("set_second", {}, Put(1, {<<2, "b">>})),
      Always("copy", {<<2, "b">>}, Put(1, {<<1, "b">>, <<2, "b">>})),
      Always("set_a", {}, Put(1, {LocA})) }
=============================================================================
