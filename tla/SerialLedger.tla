---------------------------- MODULE SerialLedger ----------------------------
(***************************************************************************)
(* What a deterministic scheduler promises: the transactions of a block    *)
(* might as well have been run one after the other, in the order of        *)
(* block.Txs, each on the state its predecessors left.  Every transaction  *)
(* handed to the scheduler runs at most once and is never lost: it is in   *)
(* the block or it is still pending.                                       *)
(***************************************************************************)
EXTENDS Transactions, Sequences

VARIABLES
    base,     \* state before the block
    state,    \* state after the transactions run so far
    pending,  \* transactions handed over and not run yet
    order,    \* the block: transactions in the order they ran
    results   \* their read/write sets

ledger == <<base, state, pending, order, results>>

LedgerInit ==
    /\ base \in State
    /\ state = base
    /\ pending = {}
    /\ order = << >>
    /\ results = [t \in Tx |-> NoRWSet]

\* A new block on top of the last one, or instead of it.
NewBlock ==
    /\ base' \in {base, state}
    /\ state' = base'
    /\ pending' \in SUBSET Tx
    /\ order' = << >>
    /\ results' = [t \in Tx |-> NoRWSet]

RunTx(t) ==
    LET rwset == ExecuteTx(t, state, state) IN
    /\ t \in pending
    /\ pending' = pending \ {t}
    /\ state' = ApplyWrites(state, rwset.writes)
    /\ order' = Append(order, t)
    /\ results' = [results EXCEPT ![t] = rwset]
    /\ UNCHANGED base

LedgerNext == NewBlock \/ \E t \in Tx : RunTx(t)

LedgerSpec == LedgerInit /\ [][LedgerNext]_ledger
=============================================================================
