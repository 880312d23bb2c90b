------------------------------ MODULE Snapshot ------------------------------
(***************************************************************************)
(* The snapshot of one block (SnapshotImpl): the tables transactions are   *)
(* applied to, and the pieces of ApplyTxSimContext.  A reader takes no     *)
(* lock, so an apply is three steps of its goroutine: the writes become    *)
(* visible, then the read/write set is listed, then the transaction.  The  *)
(* schedulers below compose these pieces into actions.                     *)
(*                                                                         *)
(* The read table is left out: it repeats values of locations nobody has   *)
(* written, which GetKey would otherwise fetch from below.                 *)
(***************************************************************************)
EXTENDS Transactions, Integers, Sequences

CONSTANTS
    UsesIterator(_, _), \* does the transaction open an iterator on this view?
    constructKey(_),    \* contractName + key: need not tell all locations apart
    NoEntry             \* "the write table has no entry for this key"

ASSUME UsesIteratorType ==
    \A t \in Tx, d \in State : UsesIterator(t, d) \in BOOLEAN

FinalKey == {constructKey(l) : l \in Loc}

SV == [seq : Nat, value : Val]

ASSUME NoEntryAssumption == NoEntry \notin SV

\* A run that opens no iterator reads through the snapshot only.
ASSUME UsesIteratorAssumption ==
    \A t \in Tx, d \in State, r \in State, s \in State :
        ~UsesIterator(t, d) => RunVM(t, d, r) = RunVM(t, d, s)

\* Side conditions: the final keys, or even the key names, tell locations apart.
KeysTellLocations == \A l \in Loc, m \in Loc : constructKey(l) = constructKey(m) => l = m
NamesTellLocations == \A l \in Loc, m \in Loc : l[2] = m[2] => l = m

VARIABLES
    store,         \* what GetKey finds below the snapshot
    sealed,
    lock,          \* is SnapshotImpl.lock held?
    writeTable,    \* final key -> value and index of the transaction that wrote it
    txRWSetTable,
    txTable

snapshot == <<store, sealed, lock, writeTable, txRWSetTable, txTable>>

SnapshotTypeOK ==
    /\ store \in State
    /\ sealed \in BOOLEAN
    /\ lock \in BOOLEAN
    /\ writeTable \in [FinalKey -> SV \cup {NoEntry}]
    /\ txRWSetTable \in Seq([tx : Tx, rwset : RWSet])
    /\ txTable \in Seq(Tx)

NewSnapshot ==
    /\ store \in State
    /\ sealed = FALSE
    /\ lock = FALSE
    /\ writeTable = [k \in FinalKey |-> NoEntry]
    /\ txRWSetTable = << >>
    /\ txTable = << >>

GetSnapshotSize == Len(txTable)

GetKey(l) ==
    LET sv == writeTable[constructKey(l)] IN
    IF sv = NoEntry THEN store[l] ELSE sv.value

View == [l \in Loc |-> GetKey(l)]

(***************************************************************************)
(* What an iterator finds at a location: the last write in txRWSetTable to *)
(* a key of that name, in whatever contract, else the committed store.     *)
(***************************************************************************)
IteratorView ==
    [l \in Loc |->
        LET W(i) == {m \in Loc : m[2] = l[2] /\ Writes(txRWSetTable[i].rwset, m)}
            I == {i \in DOMAIN txRWSetTable : W(i) # {}}
            last == CHOOSE i \in I : \A j \in I : j <= i
            top == CHOOSE m \in W(last) : \A n \in W(last) : n[1] <= m[1]
        IN IF I = {} THEN store[l] ELSE txRWSetTable[last].rwset.writes[top]]

\* Mutant: the first transaction applied since the run began is not looked at.
ConflictedLater(rwset, seq) ==
    \E l \in rwset.reads :
        LET sv == writeTable[constructKey(l)] IN sv # NoEntry /\ sv.seq > seq

\* A location of the read set was written at or after seq, when the run began.
Conflicted(rwset, seq) ==
    \E l \in rwset.reads :
        LET sv == writeTable[constructKey(l)] IN sv # NoEntry /\ sv.seq >= seq

\* The test under the lock: nothing to check if nothing was applied meanwhile.
Applicable(rwset, seq) ==
    seq >= GetSnapshotSize \/ ~Conflicted(rwset, seq)

\* Mutant: the entry carries the size after the apply.
FinalWriteKvsNext(rwset) ==
    [k \in FinalKey |->
        LET W == {l \in Loc : constructKey(l) = k /\ Writes(rwset, l)} IN
        IF W = {} THEN writeTable[k]
        ELSE [seq   |-> Len(txTable) + 1,
              value |-> rwset.writes[CHOOSE l \in W : \A m \in W : m[1] <= l[1]]]]

\* Mutant: an entry is stored only once.
FinalWriteKvsOnce(rwset) ==
    [k \in FinalKey |->
        LET W == {l \in Loc : constructKey(l) = k /\ Writes(rwset, l)} IN
        IF W = {} \/ writeTable[k] # NoEntry THEN writeTable[k]
        ELSE [seq   |-> Len(txTable),
              value |-> rwset.writes[CHOOSE l \in W : \A m \in W : m[1] <= l[1]]]]

\* Writes are sorted by contract, the last one to a final key stays.
FinalWriteKvs(rwset) ==
    [k \in FinalKey |->
        LET W == {l \in Loc : constructKey(l) = k /\ Writes(rwset, l)} IN
        IF W = {} THEN writeTable[k]
        ELSE [seq   |-> Len(txTable),
              value |-> rwset.writes[CHOOSE l \in W : \A m \in W : m[1] <= l[1]]]]

-----------------------------------------------------------------------------
(* The steps of applyOptimize, by a goroutine that may apply.              *)

\* lock.Lock(), and both tables.
PutWrites(rwset) ==
    /\ ~lock
    /\ lock' = TRUE
    /\ writeTable' = FinalWriteKvs(rwset)
    /\ UNCHANGED <<store, sealed, txRWSetTable, txTable>>

AppendRWSet(t, rwset) ==
    /\ txRWSetTable' = Append(txRWSetTable, [tx |-> t, rwset |-> rwset])
    /\ UNCHANGED <<store, sealed, lock, writeTable, txTable>>

\* The last step, and lock.Unlock().
AppendTx(t) ==
    /\ txTable' = Append(txTable, t)
    /\ lock' = FALSE
    /\ UNCHANGED <<store, sealed, writeTable, txRWSetTable>>

Seal ==
    /\ sealed' = TRUE
    /\ UNCHANGED <<store, lock, writeTable, txRWSetTable, txTable>>

\* utils.GetTxRWSetTable: the read/write sets by transaction.
GetTxRWSetTable ==
    [t \in Tx |->
        LET I == {i \in DOMAIN txRWSetTable : txRWSetTable[i].tx = t} IN
        IF I = {} THEN NoRWSet
        ELSE txRWSetTable[CHOOSE i \in I : \A j \in I : j <= i].rwset]
=============================================================================
