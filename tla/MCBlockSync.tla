----------------------------- MODULE MCBlockSync ----------------------------
(***************************************************************************)
(* Block synchronisation, and BuildDAG on small blocks.  The two share no  *)
(* state: `part' says which one a behaviour is about, and the other stays  *)
(* in its initial state (the node that is alone has nothing to do).        *)
(***************************************************************************)
EXTENDS MCBlockDAG, BlockSync

CONSTANTS p1, p2

VARIABLE part

nodeVars == <<part, dagVars, syncVars>>

\* The second peer has archived the first block.
MCArchived == [p \in Peer |-> IF p = p1 THEN 0 ELSE 1]

SyncConfig(h1, h2, size, broadcasts, f, s) ==
    [heights |-> [p \in Peer |-> IF p = p1 THEN h1 ELSE h2], batchSize |-> size,
     broadcasts |-> broadcasts, faults |-> f, stops |-> s]

Alone == SyncConfig(-1, -1, 1, FALSE, 0, 0)

\* One peer or two, at the same height or not, with a fault, a stop, two blocks in a
\* request, or broadcasts.
MCSyncConfigs ==
    { Alone,
      SyncConfig(3, -1, 1, FALSE, 1, 0), SyncConfig(2, 2, 1, FALSE, 1, 0),
      SyncConfig(2, 2, 1, FALSE, 0, 1), SyncConfig(3, -1, 2, FALSE, 0, 0),
      SyncConfig(2, 3, 1, FALSE, 0, 0), SyncConfig(2, 2, 1, TRUE, 0, 0) }

\* Three blocks in a request.
BatchConfigs == {SyncConfig(3, -1, 3, FALSE, 0, 0)}

NodeInit ==
    /\ part \in {"dag", "sync"}
    /\ DagInit /\ SyncInit
    /\ part # "sync" => conf = Alone

NodeNext ==
    /\ UNCHANGED part
    /\ \/ part = "dag" /\ DagNext /\ UNCHANGED syncVars
       \/ part = "sync" /\ SyncNext /\ UNCHANGED dagVars

NodeSpec == NodeInit /\ [][NodeNext]_nodeVars /\ SyncFairness

\* Block synchronisation on its own.
BatchSpec ==
    part = "sync" /\ DagInit /\ SyncInit /\ [][NodeNext]_nodeVars /\ SyncFairness
=============================================================================
