-------------------------- MODULE SampleContracts --------------------------
(***************************************************************************)
(* Small contracts to run the schedulers on.  A transaction is a record:   *)
(* it reads the locations `read', and behaves as `zero' or as `other' by   *)
(* the sum of what it found there.  A behaviour reads some more locations, *)
(* scans some with an iterator, and writes the sum of everything it saw    *)
(* plus `add' to the locations `write'; if not `ok', the run fails.        *)
(***************************************************************************)
EXTENDS Transactions, FiniteSetsExt, SequencesExt

SumOver(d, L) == MapThenSumSet(LAMBDA l : d[l], L)

MCVal == {0, 1}

MCRunVM(t, d, s) ==
    LET first == SumOver(d, t.read)
        b == IF first = 0 THEN t.zero ELSE t.other
        sum == first + SumOver(d, b.read \ t.read) + SumOver(s, b.scan) + b.add
    IN [reads  |-> t.read \cup b.read \cup b.scan,
        writes |-> [l \in Loc |-> IF l \in b.write THEN sum % 2 ELSE NoWrite],
        ok     |-> b.ok]

MCUsesIterator(t, d) ==
    (IF SumOver(d, t.read) = 0 THEN t.zero ELSE t.other).scan # {}

Put(add, write) ==
    [read |-> {}, scan |-> {}, write |-> write, add |-> add, ok |-> TRUE]

Always(id, read, b) == [id |-> id, read |-> read, zero |-> b, other |-> b]

LocA == <<1, "a">>
LocB == <<1, "b">>
LocC == <<1, "c">>

PointTxs ==
    { Always("set_a", {}, Put(1, {LocA})),
      Always("a_to_b", {LocA}, Put(1, {LocB})),
      Always("b_to_c", {LocB}, Put(0, {LocC})),
      Always("flip_ac", {LocC}, Put(1, {LocA, LocC})),
      [id |-> "branch", read |-> {LocA},
       zero |-> [Put(1, {LocA}) EXCEPT !.read = {LocB}], other |-> Put(0, {LocC})],
      [id |-> "fail_on_b", read |-> {LocB},
       zero |-> Put(1, {LocA}), other |-> [Put(1, {LocA, LocB}) EXCEPT !.ok = FALSE]] }

\* The same key name in two contracts.
ClashTxs ==
    { Always("set_first", {}, Put(1, {<<1, "a">>})),
      Always("set_second", {}, Put(1, {<<2, "a">>})) }

\* A transaction that scans the key another one sets.
ScanTxs ==
    { Always("set_a", {}, Put(1, {LocA})),
      Always("scan_a", {}, [Put(0, {LocB}) EXCEPT !.scan = {LocA}]) }

\* Every list of at most n different transactions.
Lists(n) == {s \in SeqOf(Tx, n) : IsInjective(s)}

RECURSIVE SerialDb(_, _)
\* The state after running the transactions of s one by one.
SerialDb(d, s) ==
    IF s = << >> THEN d
    ELSE SerialDb(ApplyWrites(d, ExecuteTx(Head(s), d, d).writes), Tail(s))

\* The elements of s at the indexes in keep, in order.
Pick(s, keep) ==
    LET idx == SetToSortSeq(keep, <) IN [i \in 1..Len(idx) |-> s[idx[i]]]
=============================================================================
