------------------------- MODULE MCSerialScheduler -------------------------
(***************************************************************************)
(* The serial scheduler on the sample contracts.                           *)
(***************************************************************************)
EXTENDS SerialScheduler, SampleContracts

CONSTANTS MaxTx   \* longest list of transactions in one call

AllBatches == Lists(MaxTx)

\* One contract: the name of a key tells its location.
MCConstructKey(l) == l[2]

\* Some transactions of PointTxs, and one that scans.
SerialTxs ==
    { Always("set_a", {}, Put(1, {LocA})),
      Always("a_to_b", {LocA}, Put(1, {LocB})),
      Always("scan_a", {}, [Put(0, {LocB}) EXCEPT !.scan = {LocA}]),
      [id |-> "fail_on_b", read |-> {LocB},
       zero |-> Put(1, {LocA}), other |-> [Put(1, {LocA, LocB}) EXCEPT !.ok = FALSE]] }

=============================================================================
