----------------------------- MODULE MCBlockDAG -----------------------------
(***************************************************************************)
(* BuildDAG on every block of at most MaxLen transactions whose read/write *)
(* sets have at most MaxAccess entries.                                    *)
(***************************************************************************)
EXTENDS BlockDAG

CONSTANTS MaxAccess, MaxLen, RWSets

VARIABLES rwSetTable, dag

dagVars == <<rwSetTable, dag>>

DagInit == rwSetTable = << >> /\ dag = << >>

\* The block grows by one transaction and its graph is built anew.
DagNext ==
    /\ Len(rwSetTable) < MaxLen
    /\ \E rwset \in RWSets : rwSetTable' = Append(rwSetTable, rwset)
    /\ dag' = BuildDAG(FALSE, rwSetTable')

DagSpec == DagInit /\ [][DagNext]_dagVars

\* The two share a key name that one of them writes.
NameConflict(a, b) ==
    LET names(L) == {L[n][2] : n \in DOMAIN L} IN
    \/ names(TxWrites(a)) \cap (names(TxReads(b)) \cup names(TxWrites(b))) # {}
    \/ names(TxReads(a)) \cap names(TxWrites(b)) # {}

(***************************************************************************)
(* BuildDAG finds the conflicts and nothing else.  Of two transactions     *)
(* that touch a location, one of them writing, the later one waits for the *)
(* earlier one: no dependency is lost by looking at the last writer only   *)
(* and by skipping what is reached.  And one waits for another only if     *)
(* they share a key name that one of them writes: the verifier may run     *)
(* everything else in parallel, and initSimulateDag accepts the graph.     *)
(***************************************************************************)
DagMatchesConflicts ==
    /\ Covers(dag, rwSetTable)
    /\ ValidDAG(dag)
    /\ \A i \in DOMAIN dag : \A j \in dag[i] :
        NameConflict(rwSetTable[j], rwSetTable[i])

-----------------------------------------------------------------------------

ReadWrite(R, W) ==
    [reads |-> R, writes |-> [l \in Loc |-> IF l \in W THEN 1 ELSE NoWrite], ok |-> TRUE]

SmallRWSets ==
    {ReadWrite(p[1], p[2]) :
        p \in {q \in (SUBSET Loc) \X (SUBSET Loc) :
                    Cardinality(q[1]) + Cardinality(q[2]) <= MaxAccess}}

\* By contract, then by name.
MCLocOrder == << <<1, "a">>, <<1, "b">>, <<2, "a">>, <<2, "b">> >>

\* No transaction is run.
NoRun(t, d, s) == ReadWrite({}, {})

\* Those that write no key name in two contracts.
OneContractPerKey ==
    {rw \in SmallRWSets : \A l, m \in Loc :
        Writes(rw, l) /\ Writes(rw, m) /\ l[2] = m[2] => l = m}
=============================================================================
