---------------------------- MODULE Transactions ----------------------------
(***************************************************************************)
(* What a transaction is to a scheduler.                                   *)
(*                                                                         *)
(* A scheduler never looks inside a transaction: it hands it to            *)
(* CommonVMHelper.ExecuteTx together with a snapshot and gets back a       *)
(* read/write set and a result.  The contract the transaction runs is the  *)
(* parameter RunVM; all that is assumed of it is what the simulation       *)
(* context enforces, namely that every value it saw is in its read set.    *)
(*                                                                         *)
(* A location is a pair of a contract and a key name.  Contracts are       *)
(* numbered in the order of their names, the order in which the simulation *)
(* context sorts the writes of one transaction.                            *)
(***************************************************************************)
EXTENDS Naturals, FiniteSets

CONSTANTS
    Tx,              \* transaction ids
    Contract,        \* contracts, as naturals
    AccountManager,  \* the contract that keeps the gas accounts
    Key,             \* key names
    Val,             \* values; a deleted or absent key has one of them too
    NoWrite,         \* "this transaction does not write the location"
    NoRWSet,         \* "the block has no read/write set of this transaction"
    RunVM(_, _, _)   \* RunVM(tx, snapshot view, committed store)

Loc == Contract \X Key
State == [Loc -> Val]
WriteSet == [Loc -> Val \cup {NoWrite}]
RWSet == [reads : SUBSET Loc, writes : WriteSet, ok : BOOLEAN]

ASSUME ContractAssumption == Contract \subseteq Nat /\ IsFiniteSet(Contract)

ASSUME NoWriteAssumption == NoWrite \notin Val

ASSUME NoRWSetAssumption == NoRWSet \notin RWSet

ASSUME RunVMType ==
    \A t \in Tx, d \in State, s \in State : RunVM(t, d, s) \in RWSet

(***************************************************************************)
(* A run is a function of the values it read: Get, GetKeys and the         *)
(* iterators put every value they return from outside the transaction into *)
(* the read set.  The third argument is the committed store, which         *)
(* iterators read directly.                                                *)
(***************************************************************************)
ASSUME RunVMLocality ==
    \A t \in Tx, d \in State, e \in State, s \in State :
        (\A l \in RunVM(t, d, s).reads : d[l] = e[l])
            => RunVM(t, e, s) = RunVM(t, d, s)

(***************************************************************************)
(* txSimContext.GetTxRWSet: a failed run keeps its reads, and of its       *)
(* writes only those to the gas accounts.                                  *)
(***************************************************************************)
GetTxRWSet(run) ==
    [reads  |-> run.reads,
     writes |-> [l \in Loc |-> IF run.ok \/ l[1] = AccountManager
                               THEN run.writes[l] ELSE NoWrite],
     ok     |-> run.ok]

ExecuteTx(t, d, s) == GetTxRWSet(RunVM(t, d, s))

Writes(rwset, l) == rwset.writes[l] # NoWrite

\* SnapshotImpl.ApplyWritesToWriteTable, as seen through GetKey.
ApplyWrites(d, w) == [l \in Loc |-> IF w[l] = NoWrite THEN d[l] ELSE w[l]]

NoWrites == [l \in Loc |-> NoWrite]

(***************************************************************************)
(* Side conditions under which the deterministic schedulers are correct.   *)
(***************************************************************************)

\* No key name is written in two contracts.
NoKeyClash ==
    \A t \in Tx, u \in Tx, d \in State, e \in State, s \in State,
       l \in Loc, m \in Loc :
        /\ Writes(ExecuteTx(t, d, s), l)
        /\ Writes(ExecuteTx(u, e, s), m)
        /\ l[2] = m[2]
        => l = m

\* No transaction uses an iterator: the store is read through the snapshot only.
NoIterators ==
    \A t \in Tx, d \in State, s \in State, r \in State :
        RunVM(t, d, s) = RunVM(t, d, r)
=============================================================================
