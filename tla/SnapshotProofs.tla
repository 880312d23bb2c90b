--------------------------- MODULE SnapshotProofs ---------------------------
(***************************************************************************)
(* Facts about the snapshot's operators, for any contracts, keys, values   *)
(* and transactions.  The proofs about the schedulers that fill a snapshot *)
(* rest on them.                                                           *)
(***************************************************************************)
EXTENDS Snapshot, FiniteSetTheorems, TLAPS

-----------------------------------------------------------------------------
(* The last of several writes exists.                                      *)

\* A non-empty finite set of naturals has a largest element.
LEMMA FiniteSetHasMax ==
    ASSUME NEW S \in SUBSET Nat, IsFiniteSet(S), S # {}
    PROVE  \E x \in S : \A y \in S : y <= x
<1> DEFINE HasMax(U) == \E x \in U : \A y \in U : y <= x
           Bad == {U \in FiniteSubsetsOf(S) : U # {} /\ ~HasMax(U)}
<1> SUFFICES ASSUME Bad # {}
             PROVE  FALSE
    <2>1. S \in FiniteSubsetsOf(S)
        BY DEF FiniteSubsetsOf
    <2> QED
        BY <2>1
<1>1. Bad \subseteq FiniteSubsetsOf(S)
    OBVIOUS
<1>2. PICK U \in Bad : \A V \in Bad : ~(<<V, U>> \in StrictSubsetOrdering(S))
    BY <1>1, FS_StrictSubsetOrderingWellFounded, WFMin
<1>3. U \in SUBSET S /\ IsFiniteSet(U) /\ U # {} /\ ~HasMax(U)
    BY DEF FiniteSubsetsOf
<1>4. PICK x : x \in U
    BY <1>3
<1> DEFINE V == U \ {x}
<1>5. V \in SUBSET S /\ IsFiniteSet(V) /\ V # U
    BY <1>3, <1>4, FS_Subset
<1>6. <<V, U>> \in StrictSubsetOrdering(S)
    BY <1>3, <1>5 DEF StrictSubsetOrdering
<1>7. V = {} \/ HasMax(V)
    BY <1>2, <1>5, <1>6 DEF FiniteSubsetsOf
<1>8. CASE V = {}
    <2>1. \A y \in U : y = x
        BY <1>8
    <2>2. x \in Nat
        BY <1>3, <1>4
    <2>3. \A y \in U : y <= x
        BY <2>1, <2>2
    <2> QED
        BY <1>3, <1>4, <2>3
<1>9. CASE HasMax(V)
    <2>1. PICK m \in V : \A y \in V : y <= m
        BY <1>9
    <2>2. x \in Nat /\ m \in Nat /\ m \in U /\ \A y \in U : y \in Nat
        BY <1>3, <1>4, <2>1
    <2>3. CASE x <= m
        BY <1>3, <2>1, <2>2, <2>3
    <2>4. CASE m <= x
        <3>1. \A y \in U : y <= x
            BY <2>1, <2>2, <2>4
        <3> QED
            BY <1>3, <1>4, <3>1
    <2> QED
        BY <2>2, <2>3, <2>4
<1> QED
    BY <1>7, <1>8, <1>9

\* Of some locations, one is in the last of their contracts.
LEMMA LastContract ==
    ASSUME NEW W \in SUBSET Loc, W # {}
    PROVE  \E l \in W : \A m \in W : m[1] <= l[1]
<1> DEFINE C == {l[1] : l \in W}
<1>1. C \subseteq Contract
    BY DEF Loc
<1>2. C # {}
    OBVIOUS
<1> HIDE DEF C
<1>3. IsFiniteSet(C) /\ C \in SUBSET Nat
    BY <1>1, ContractAssumption, FS_Subset
<1>4. PICK c \in C : \A d \in C : d <= c
    BY <1>2, <1>3, FiniteSetHasMax
<1> QED
    BY <1>4 DEF C

\* Of some positions of a list, one is the last.
LEMMA LastPosition ==
    ASSUME NEW s, Len(s) \in Nat, DOMAIN s = 1..Len(s), NEW I \in SUBSET DOMAIN s, I # {}
    PROVE  \E i \in I : \A j \in I : j <= i
<1>1. IsFiniteSet(1..Len(s))
    BY FS_Interval
<1>2. IsFiniteSet(I) /\ I \in SUBSET Nat
    BY <1>1, FS_Subset
<1> QED
    BY <1>2, FiniteSetHasMax

-----------------------------------------------------------------------------
(* Types.                                                                  *)

\* GetTxRWSet filters the writes of a run and keeps everything else.
LEMMA ExecuteTxType ==
    ASSUME NEW t \in Tx, NEW d \in State, NEW s \in State
    PROVE  ExecuteTx(t, d, s) \in RWSet
<1>1. RunVM(t, d, s) \in RWSet
    BY RunVMType
<1> QED
    BY <1>1 DEF ExecuteTx, GetTxRWSet, RWSet, WriteSet

LEMMA NewSnapshotType == NewSnapshot => SnapshotTypeOK
<1> SUFFICES ASSUME NewSnapshot PROVE SnapshotTypeOK
    OBVIOUS
<1>1. writeTable \in [FinalKey -> SV \cup {NoEntry}]
    BY DEF NewSnapshot
<1>2. txRWSetTable \in Seq([tx : Tx, rwset : RWSet]) /\ txTable \in Seq(Tx)
    BY DEF NewSnapshot
<1> QED
    BY <1>1, <1>2 DEF NewSnapshot, SnapshotTypeOK

LEMMA ElementType ==
    ASSUME NEW S, NEW s \in Seq(S), NEW i \in DOMAIN s
    PROVE  s[i] \in S
OBVIOUS

\* What the table lists.
LEMMA TableEntryType ==
    ASSUME SnapshotTypeOK, NEW i \in DOMAIN txRWSetTable
    PROVE  /\ txRWSetTable[i].tx \in Tx /\ txRWSetTable[i].rwset \in RWSet
           /\ txRWSetTable[i].rwset.writes \in WriteSet
<1>1. txRWSetTable \in Seq([tx : Tx, rwset : RWSet])
    BY DEF SnapshotTypeOK
<1>2. txRWSetTable[i] \in [tx : Tx, rwset : RWSet]
    BY <1>1, ElementType, ZenonT(40)
<1>3. txRWSetTable[i].tx \in Tx /\ txRWSetTable[i].rwset \in RWSet
    BY <1>2
<1> QED
    BY <1>3 DEF RWSet

\* GetKey finds a value at every location.
LEMMA ViewType ==
    ASSUME SnapshotTypeOK
    PROVE  View \in State
<1> SUFFICES ASSUME NEW l \in Loc
             PROVE  GetKey(l) \in Val
    BY DEF View, State
<1>1. constructKey(l) \in FinalKey
    BY DEF FinalKey
<1>2. writeTable[constructKey(l)] \in SV \cup {NoEntry} /\ store[l] \in Val
    BY <1>1 DEF SnapshotTypeOK, State
<1> QED
    BY <1>2 DEF GetKey, SV

\* So does an iterator.
LEMMA IteratorViewType ==
    ASSUME SnapshotTypeOK
    PROVE  IteratorView \in State
<1> DEFINE W(l, i) == {m \in Loc : m[2] = l[2] /\ Writes(txRWSetTable[i].rwset, m)}
           I(l) == {i \in DOMAIN txRWSetTable : W(l, i) # {}}
           last(l) == CHOOSE i \in I(l) : \A j \in I(l) : j <= i
           top(l) == CHOOSE m \in W(l, last(l)) : \A n \in W(l, last(l)) : n[1] <= m[1]
           found(l) == IF I(l) = {} THEN store[l] ELSE txRWSetTable[last(l)].rwset.writes[top(l)]
<1>0. /\ txRWSetTable \in Seq([tx : Tx, rwset : RWSet])
      /\ Len(txRWSetTable) \in Nat /\ DOMAIN txRWSetTable = 1..Len(txRWSetTable)
    BY DEF SnapshotTypeOK
<1>1. ASSUME NEW l \in Loc PROVE found(l) \in Val
    <2>1. CASE I(l) = {}
        BY <2>1 DEF SnapshotTypeOK, State
    <2>2. CASE I(l) # {}
        <3>1. \E i \in I(l) : \A j \in I(l) : j <= i
            BY <1>0, <2>2, LastPosition
        <3>2. last(l) \in I(l)
            BY <3>1
        <3> HIDE DEF last
        <3>3. \E m \in W(l, last(l)) : \A n \in W(l, last(l)) : n[1] <= m[1]
            BY <3>2, LastContract
        <3>4. top(l) \in W(l, last(l))
            BY <3>3
        <3> HIDE DEF top
        <3>5. txRWSetTable[last(l)].rwset.writes \in WriteSet /\ top(l) \in Loc
            BY <3>2, <3>4, TableEntryType
        <3>6. txRWSetTable[last(l)].rwset.writes[top(l)] # NoWrite
            BY <3>4 DEF Writes
        <3> QED
            BY <2>2, <3>5, <3>6 DEF WriteSet
    <2> QED
        BY <2>1, <2>2
<1>2. IteratorView = [l \in Loc |-> found(l)]
    BY DEF IteratorView
<1> HIDE DEF found
<1> QED
    BY <1>1, <1>2 DEF State

\* An apply puts values into the write table, with the index of the transaction.
LEMMA FinalWriteKvsEntry ==
    ASSUME SnapshotTypeOK, NEW rwset \in RWSet, NEW k \in FinalKey
    PROVE  LET W == {l \in Loc : constructKey(l) = k /\ Writes(rwset, l)} IN
           \/ W = {} /\ FinalWriteKvs(rwset)[k] = writeTable[k]
           \/ \E l \in W : FinalWriteKvs(rwset)[k]
                             = [seq |-> Len(txTable), value |-> rwset.writes[l]]
<1> DEFINE W == {l \in Loc : constructKey(l) = k /\ Writes(rwset, l)}
           top == CHOOSE l \in W : \A m \in W : m[1] <= l[1]
<1>1. FinalWriteKvs(rwset)[k] = IF W = {} THEN writeTable[k]
                                ELSE [seq |-> Len(txTable), value |-> rwset.writes[top]]
    BY DEF FinalWriteKvs
<1>2. CASE W = {}
    BY <1>1, <1>2
<1>3. CASE W # {}
    <2>1. \E l \in W : \A m \in W : m[1] <= l[1]
        BY <1>3, LastContract
    <2>2. top \in W
        BY <2>1
    <2> HIDE DEF top
    <2> QED
        BY <1>1, <1>3, <2>2
<1> QED
    BY <1>2, <1>3

LEMMA FinalWriteKvsType ==
    ASSUME SnapshotTypeOK, NEW rwset \in RWSet
    PROVE  FinalWriteKvs(rwset) \in [FinalKey -> SV \cup {NoEntry}]
<1> SUFFICES ASSUME NEW k \in FinalKey
             PROVE  FinalWriteKvs(rwset)[k] \in SV \cup {NoEntry}
    BY DEF FinalWriteKvs
<1> DEFINE W == {l \in Loc : constructKey(l) = k /\ Writes(rwset, l)}
<1>1. CASE FinalWriteKvs(rwset)[k] = writeTable[k]
    BY <1>1 DEF SnapshotTypeOK
<1>2. ASSUME NEW l \in W,
             FinalWriteKvs(rwset)[k] = [seq |-> Len(txTable), value |-> rwset.writes[l]]
      PROVE  FinalWriteKvs(rwset)[k] \in SV
    <2>1. rwset.writes[l] \in Val
        BY DEF RWSet, WriteSet, Writes
    <2>2. Len(txTable) \in Nat
        BY DEF SnapshotTypeOK
    <2> QED
        BY <1>2, <2>1, <2>2 DEF SV
<1> QED
    BY <1>1, <1>2, FinalWriteKvsEntry

\* A transaction with an entry in txRWSetTable gets the read/write set of its last one.
LEMMA GetTxRWSetTableEntry ==
    ASSUME SnapshotTypeOK, NEW t \in Tx,
           NEW i \in DOMAIN txRWSetTable, txRWSetTable[i].tx = t
    PROVE  \E j \in DOMAIN txRWSetTable :
                /\ i <= j /\ txRWSetTable[j].tx = t
                /\ GetTxRWSetTable[t] = txRWSetTable[j].rwset
<1> DEFINE I == {j \in DOMAIN txRWSetTable : txRWSetTable[j].tx = t}
           last == CHOOSE j \in I : \A n \in I : n <= j
<1>1. Len(txRWSetTable) \in Nat /\ DOMAIN txRWSetTable = 1..Len(txRWSetTable)
    BY DEF SnapshotTypeOK
<1>2. i \in I
    OBVIOUS
<1>3. \E j \in I : \A n \in I : n <= j
    BY <1>1, <1>2, LastPosition
<1>4. last \in I /\ i <= last
    BY <1>2, <1>3
<1>5. GetTxRWSetTable[t] = txRWSetTable[last].rwset
    BY <1>2 DEF GetTxRWSetTable
<1> HIDE DEF last
<1> QED
    BY <1>4, <1>5

LEMMA GetTxRWSetTableType ==
    ASSUME SnapshotTypeOK
    PROVE  GetTxRWSetTable \in [Tx -> RWSet \cup {NoRWSet}]
<1> SUFFICES ASSUME NEW t \in Tx
             PROVE  GetTxRWSetTable[t] \in RWSet \cup {NoRWSet}
    BY DEF GetTxRWSetTable
<1>1. CASE \E i \in DOMAIN txRWSetTable : txRWSetTable[i].tx = t
    <2>1. PICK j \in DOMAIN txRWSetTable : GetTxRWSetTable[t] = txRWSetTable[j].rwset
        BY <1>1, GetTxRWSetTableEntry
    <2> QED
        BY <2>1, TableEntryType
<1>2. CASE ~\E i \in DOMAIN txRWSetTable : txRWSetTable[i].tx = t
    BY <1>2 DEF GetTxRWSetTable
<1> QED
    BY <1>1, <1>2

-----------------------------------------------------------------------------
(* What an apply does to what readers see.                                 *)

\* Writes reach GetKey, if the final keys tell locations apart.
THEOREM ViewAfterWrites ==
    ASSUME SnapshotTypeOK, KeysTellLocations, NEW rwset \in RWSet,
           writeTable' = FinalWriteKvs(rwset), store' = store
    PROVE  View' = ApplyWrites(View, rwset.writes)
<1> SUFFICES ASSUME NEW l \in Loc
             PROVE  GetKey(l)' = IF rwset.writes[l] = NoWrite THEN GetKey(l)
                                 ELSE rwset.writes[l]
    BY DEF View, ApplyWrites
<1> DEFINE k == constructKey(l)
           W == {m \in Loc : constructKey(m) = k /\ Writes(rwset, m)}
<1>1. k \in FinalKey
    BY DEF FinalKey
<1>2. \A m \in W : m = l
    BY DEF KeysTellLocations
<1>3. CASE rwset.writes[l] = NoWrite
    <2>1. W = {}
        BY <1>2, <1>3 DEF Writes
    <2>2. writeTable'[k] = writeTable[k]
        BY <1>1, <2>1, FinalWriteKvsEntry
    <2> QED
        BY <1>3, <2>2 DEF GetKey
<1>4. CASE rwset.writes[l] # NoWrite
    <2>1. l \in W
        BY <1>4 DEF Writes
    <2> HIDE DEF k
    <2>2. PICK m \in W : writeTable'[k] = [seq |-> Len(txTable), value |-> rwset.writes[m]]
        BY <1>1, <2>1, FinalWriteKvsEntry
    <2>0. writeTable'[k] = [seq |-> Len(txTable), value |-> rwset.writes[l]]
        BY <1>2, <2>2
    <2> USE DEF k
    <2>3. Len(txTable) \in Nat /\ rwset.writes[l] \in Val
        BY <1>4 DEF SnapshotTypeOK, RWSet, WriteSet
    <2>4. writeTable'[k] # NoEntry
        BY <2>0, <2>3, NoEntryAssumption DEF SV
    <2> QED
        BY <1>4, <2>0, <2>4 DEF GetKey
<1> QED
    BY <1>3, <1>4

\* What utils.GetTxRWSetTable finds in a table.
Listed(table, t) ==
    LET I == {i \in DOMAIN table : table[i].tx = t} IN
    IF I = {} THEN NoRWSet
    ELSE table[CHOOSE i \in I : \A j \in I : j <= i].rwset

\* A new entry is the one found for its transaction, the others stay.
LEMMA GetTxRWSetTableAppend ==
    ASSUME SnapshotTypeOK, NEW t \in Tx, NEW rwset \in RWSet,
           txRWSetTable' = Append(txRWSetTable, [tx |-> t, rwset |-> rwset])
    PROVE  GetTxRWSetTable' = [GetTxRWSetTable EXCEPT ![t] = rwset]
<1> DEFINE s == txRWSetTable
           e == [tx |-> t, rwset |-> rwset]
           p == Append(s, e)
           n == Len(s)
<1>1. /\ GetTxRWSetTable = [u \in Tx |-> Listed(s, u)]
      /\ GetTxRWSetTable' = [u \in Tx |-> Listed(p, u)]
    BY DEF GetTxRWSetTable, Listed
<1>2. /\ s \in Seq([tx : Tx, rwset : RWSet]) /\ n \in Nat /\ DOMAIN s = 1..n
      /\ DOMAIN p = 1..(n + 1) /\ p[n + 1] = e /\ \A i \in 1..n : p[i] = s[i]
    BY DEF SnapshotTypeOK
<1> HIDE DEF s, e, p, n
<1> SUFFICES ASSUME NEW u \in Tx
             PROVE  Listed(p, u) = IF u = t THEN rwset ELSE Listed(s, u)
    BY <1>1
<1> DEFINE I == {i \in DOMAIN s : s[i].tx = u}
           J == {i \in DOMAIN p : p[i].tx = u}
<1>3. CASE u = t
    <2>1. n + 1 \in J /\ \A j \in J : j <= n + 1
        BY <1>2, <1>3 DEF e
    <2>2. \A i \in J : (\A j \in J : j <= i) => i = n + 1
        BY <1>2, <2>1
    <2> DEFINE last == CHOOSE i \in J : \A j \in J : j <= i
    <2>3. last = n + 1
        BY <2>1, <2>2
    <2>4. Listed(p, u) = p[last].rwset
        BY <2>1 DEF Listed
    <2>5. e.rwset = rwset
        BY DEF e
    <2> HIDE DEF last
    <2> QED
        BY <1>2, <1>3, <2>3, <2>4, <2>5
<1>4. CASE u # t
    <2>1. I = J
        BY <1>2, <1>4 DEF e
    <2>2. CASE I = {}
        BY <1>4, <2>1, <2>2 DEF Listed
    <2>3. CASE I # {}
        <3> DEFINE last == CHOOSE i \in I : \A j \in I : j <= i
        <3>1. \E i \in I : \A j \in I : j <= i
            BY <1>2, <2>3, LastPosition DEF n
        <3>2. last \in I
            BY <3>1
        <3>3. Listed(s, u) = s[last].rwset /\ Listed(p, u) = p[last].rwset
            BY <2>1, <2>3 DEF Listed
        <3> HIDE DEF last
        <3> QED
            BY <1>2, <1>4, <3>2, <3>3
    <2> QED
        BY <2>2, <2>3
<1> QED
    BY <1>3, <1>4

\* What an iterator finds at a location, in a table above a store.
Found(table, base, l) ==
    LET W(i) == {m \in Loc : m[2] = l[2] /\ Writes(table[i].rwset, m)}
        I == {i \in DOMAIN table : W(i) # {}}
        last == CHOOSE i \in I : \A j \in I : j <= i
        top == CHOOSE m \in W(last) : \A n \in W(last) : n[1] <= m[1]
    IN IF I = {} THEN base[l] ELSE table[last].rwset.writes[top]

\* If key names tell locations apart, it is the last write to the location.
LEMMA FoundIsLastWrite ==
    ASSUME NamesTellLocations, NEW table, NEW base, NEW l \in Loc,
           Len(table) \in Nat, DOMAIN table = 1..Len(table)
    PROVE  /\ (\A i \in DOMAIN table : ~Writes(table[i].rwset, l))
                    => Found(table, base, l) = base[l]
           /\ \A i \in DOMAIN table :
                /\ Writes(table[i].rwset, l)
                /\ \A j \in DOMAIN table : Writes(table[j].rwset, l) => j <= i
                => Found(table, base, l) = table[i].rwset.writes[l]
<1> DEFINE W(i) == {m \in Loc : m[2] = l[2] /\ Writes(table[i].rwset, m)}
           I == {i \in DOMAIN table : W(i) # {}}
           last == CHOOSE i \in I : \A j \in I : j <= i
           top == CHOOSE m \in W(last) : \A n \in W(last) : n[1] <= m[1]
<1>1. \A i \in DOMAIN table : W(i) = IF Writes(table[i].rwset, l) THEN {l} ELSE {}
    BY DEF NamesTellLocations
<1>2. I = {i \in DOMAIN table : Writes(table[i].rwset, l)}
    BY <1>1
<1>3. ASSUME \A i \in DOMAIN table : ~Writes(table[i].rwset, l)
      PROVE  Found(table, base, l) = base[l]
    <2>1. I = {}
        BY <1>2, <1>3
    <2> QED
        BY <2>1 DEF Found
<1>4. ASSUME NEW i \in DOMAIN table, Writes(table[i].rwset, l),
             \A j \in DOMAIN table : Writes(table[j].rwset, l) => j <= i
      PROVE  Found(table, base, l) = table[i].rwset.writes[l]
    <2>1. i \in I /\ \A j \in I : j <= i
        BY <1>2, <1>4
    <2>2. \A h \in I : (\A j \in I : j <= h) => h = i
        BY <2>1
    <2>3. last = i
        BY <2>1, <2>2
    <2>4. W(last) = {l}
        BY <1>1, <1>4, <2>3
    <2>a. l[1] \in Nat
        BY ContractAssumption DEF Loc
    <2>5. l[1] <= l[1]
        BY <2>a
    <2>6. top = l
        BY <2>4, <2>5
    <2>7. Found(table, base, l) = table[last].rwset.writes[top]
        BY <2>1 DEF Found
    <2> QED
        BY <2>3, <2>6, <2>7
<1> QED
    BY <1>3, <1>4

\* A new entry's writes reach iterators, if key names tell locations apart.
LEMMA IteratorViewAppend ==
    ASSUME SnapshotTypeOK, NamesTellLocations, NEW t \in Tx, NEW rwset \in RWSet,
           txRWSetTable' = Append(txRWSetTable, [tx |-> t, rwset |-> rwset]), store' = store
    PROVE  IteratorView' = ApplyWrites(IteratorView, rwset.writes)
<1> DEFINE s == txRWSetTable
           e == [tx |-> t, rwset |-> rwset]
           p == Append(s, e)
           n == Len(s)
<1>1. /\ IteratorView = [l \in Loc |-> Found(s, store, l)]
      /\ IteratorView' = [l \in Loc |-> Found(p, store, l)]
    BY DEF IteratorView, Found
<1>2. /\ s \in Seq([tx : Tx, rwset : RWSet]) /\ n \in Nat /\ DOMAIN s = 1..n
      /\ DOMAIN p = 1..(n + 1) /\ p[n + 1] = e /\ \A i \in 1..n : p[i] = s[i]
      /\ Len(p) = n + 1
    BY DEF SnapshotTypeOK
<1> HIDE DEF s, e, p, n
<1> SUFFICES ASSUME NEW l \in Loc
             PROVE  Found(p, store, l)
                      = IF rwset.writes[l] = NoWrite THEN Found(s, store, l) ELSE rwset.writes[l]
    BY <1>1 DEF ApplyWrites
<1> DEFINE wrote(i) == Writes(s[i].rwset, l)
<1>3. CASE rwset.writes[l] # NoWrite
    <2>1. n + 1 \in DOMAIN p /\ Writes(p[n + 1].rwset, l) /\ \A j \in DOMAIN p : j <= n + 1
        BY <1>2, <1>3 DEF e, Writes
    <2>2. Found(p, store, l) = p[n + 1].rwset.writes[l]
        BY <1>2, <2>1, FoundIsLastWrite
    <2> QED
        BY <1>2, <1>3, <2>2 DEF e
<1>4. CASE rwset.writes[l] = NoWrite
    <2>0. \A i \in DOMAIN p : Writes(p[i].rwset, l) => i \in DOMAIN s /\ wrote(i)
        BY <1>2, <1>4 DEF e, Writes
    <2>1. CASE \A i \in DOMAIN s : ~wrote(i)
        <3>1. Found(p, store, l) = store[l]
            BY <1>2, <2>0, <2>1, FoundIsLastWrite
        <3>2. Found(s, store, l) = store[l]
            BY <1>2, <2>1, FoundIsLastWrite DEF n
        <3> QED
            BY <1>4, <3>1, <3>2
    <2>2. CASE \E i \in DOMAIN s : wrote(i)
        <3> DEFINE I == {i \in DOMAIN s : wrote(i)}
        <3>1. PICK i \in I : \A j \in I : j <= i
            BY <1>2, <2>2, LastPosition DEF n
        <3>2. i \in DOMAIN s /\ wrote(i) /\ \A j \in DOMAIN s : wrote(j) => j <= i
            BY <3>1
        <3>7. Len(s) \in Nat /\ DOMAIN s = 1..Len(s)
            BY <1>2 DEF n
        <3>3. Found(s, store, l) = s[i].rwset.writes[l]
            BY <3>2, <3>7, FoundIsLastWrite
        <3>4. /\ i \in DOMAIN p /\ Writes(p[i].rwset, l)
              /\ \A j \in DOMAIN p : Writes(p[j].rwset, l) => j <= i
            BY <1>2, <2>0, <3>2
        <3>6. Len(p) \in Nat /\ DOMAIN p = 1..Len(p)
            BY <1>2
        <3>5. Found(p, store, l) = p[i].rwset.writes[l]
            BY <3>4, <3>6, FoundIsLastWrite
        <3> QED
            BY <1>2, <1>4, <3>2, <3>3, <3>5
    <2> QED
        BY <2>1, <2>2
<1> QED
    BY <1>3, <1>4
=============================================================================
