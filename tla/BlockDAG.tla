------------------------------ MODULE BlockDAG ------------------------------
(***************************************************************************)
(* The dependency graph of a block: vertex i lists the earlier             *)
(* transactions that transaction i has to wait for when the block is       *)
(* executed again.  It is built from the read/write sets with a dictionary *)
(* of readers and one of writers per key name, following an edge only if   *)
(* the target is not reached already.                                      *)
(***************************************************************************)
EXTENDS Transactions, Integers, SequencesExt

CONSTANT LocOrder   \* the locations in the order in which read/write sets are sorted

ASSUME LocOrderAssumption ==
    IsInjective(LocOrder) /\ ToSet(LocOrder) = Loc

TxReads(rwset) == SelectSeq(LocOrder, LAMBDA l : l \in rwset.reads)
TxWrites(rwset) == SelectSeq(LocOrder, LAMBDA l : Writes(rwset, l))

\* How often a key name occurs in a list of locations.
Count(locs, k) == Cardinality({n \in DOMAIN locs : locs[n][2] = k})

\* One entry per read or write of a key of that name, in block order.
Entries(lists, k) ==
    FlattenSeq([i \in DOMAIN lists |-> [n \in 1..Count(lists[i], k) |-> i]])

readKeyDict(rwsets, k) == Entries([i \in DOMAIN rwsets |-> TxReads(rwsets[i])], k)
writeKeyDict(rwsets, k) == Entries([i \in DOMAIN rwsets |-> TxWrites(rwsets[i])], k)

(***************************************************************************)
(* The position of transaction i in the dictionary of a key: the number of *)
(* entries before its own last one, or before where it would have been.    *)
(***************************************************************************)
Position(dict, i) ==
    LET own == Cardinality({n \in DOMAIN dict : dict[n] = i})
        before == Cardinality({n \in DOMAIN dict : dict[n] < i})
    IN IF own = 0 THEN before ELSE before + own - 1

\* The entry before it, if there is one.
LastWriter(rwsets, i, k) ==
    LET dict == writeKeyDict(rwsets, k)
        pos == Position(dict, i)
    IN IF pos = 0 THEN << >> ELSE <<dict[pos]>>

\* Mutant: only the last reader.
ReadersLast(rwsets, i, k) ==
    LET dict == readKeyDict(rwsets, k)
        pos == Position(dict, i)
    IN IF pos = 0 THEN << >> ELSE <<dict[pos]>>

\* Mutant: a writer waits for no reader.
ReadersNone(rwsets, i, k) == << >>

\* All the entries before it, from the last to the first.
Readers(rwsets, i, k) ==
    LET dict == readKeyDict(rwsets, k) IN
    Reverse(SubSeq(dict, 1, Position(dict, i)))

\* The transactions buildReachMap comes to, in this order.
Candidates(rwsets, i) ==
    LET reads == TxReads(rwsets[i])
        writes == TxWrites(rwsets[i])
    IN FlattenSeq([n \in DOMAIN reads |-> LastWriter(rwsets, i, reads[n][2])])
       \o FlattenSeq([n \in DOMAIN writes |->
                        Readers(rwsets, i, writes[n][2])
                        \o LastWriter(rwsets, i, writes[n][2])])

\* reachMap[j] is known for j < i.
buildReachMap(rwsets, i, reachMap) ==
    FoldLeft(LAMBDA r, j : IF j \in r.all THEN r
                           ELSE [direct |-> r.direct \cup {j},
                                 all    |-> r.all \cup reachMap[j].all],
             [direct |-> {}, all |-> {i}],
             Candidates(rwsets, i))

\* Contracts on an SQL store: the graph is a chain.
SqlDAG(n) == [i \in 1..n |-> IF i = 1 THEN {} ELSE {i - 1}]

BuildDAG(isSql, rwsets) ==
    LET reach[n \in 0..Len(rwsets)] ==
            IF n = 0 THEN << >>
            ELSE LET r == reach[n - 1] IN Append(r, buildReachMap(rwsets, n, r))
        reachMap == reach[Len(rwsets)]
    IN IF isSql THEN SqlDAG(Len(rwsets))
       ELSE [i \in DOMAIN rwsets |-> reachMap[i].direct]

\* simulateSpecialTxs: the vertex of the next transaction run on its own.
SpecialVertex(dag, first) ==
    IF first THEN DOMAIN dag ELSE {Len(dag)}

\* initSimulateDag accepts it: transactions wait for earlier ones only.
ValidDAG(dag) == \A i \in DOMAIN dag : dag[i] \subseteq 1..(i - 1)

-----------------------------------------------------------------------------
(* What the graph is for.                                                  *)

Conflict(a, b) ==
    \E l \in Loc : \/ Writes(a, l) /\ (Writes(b, l) \/ l \in b.reads)
                   \/ l \in a.reads /\ Writes(b, l)

\* The transactions i waits for, directly or not.
Ancestors(dag) ==
    LET A[i \in DOMAIN dag] == dag[i] \cup UNION {A[j] : j \in dag[i]} IN A

Covers(dag, rwsets) ==
    LET A == Ancestors(dag) IN
    \A i \in DOMAIN rwsets : \A j \in 1..(i - 1) :
        Conflict(rwsets[j], rwsets[i]) => j \in A[i]
=============================================================================
