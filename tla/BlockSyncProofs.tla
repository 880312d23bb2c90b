-------------------------- MODULE BlockSyncProofs ---------------------------
(***************************************************************************)
(* Proofs about block synchronisation, for any peers, chains, archives,    *)
(* pool sizes and number of faults.                                        *)
(***************************************************************************)
EXTENDS BlockSync, FiniteSetTheorems, TLAPS

-----------------------------------------------------------------------------
(* Bounded sets of integers.                                               *)

LEMMA NatHasLeast ==
    ASSUME NEW T \in SUBSET Nat, T # {}
    PROVE  \E n \in T : \A m \in T : n <= m
<1>1. PICK n \in T : \A m \in T : ~(<<m, n>> \in OpToRel(<, Nat))
    BY NatLessThanWellFounded, WFMin
<1>2. \A m \in T : ~(m < n)
    BY <1>1, Zenon DEF OpToRel
<1> QED
    BY <1>2

LEMMA MinIsLeast ==
    ASSUME NEW S \in SUBSET Nat, S # {}
    PROVE  Min(S) \in S /\ \A x \in S : Min(S) <= x
BY NatHasLeast DEF Min

LEMMA MaxIsGreatest ==
    ASSUME NEW b \in Int, NEW S \in SUBSET Int, S # {}, \A x \in S : x <= b
    PROVE  Max(S) \in S /\ \A x \in S : x <= Max(S)
<1> DEFINE T == {b - x : x \in S}
<1>0. \A x \in S : b - x \in Nat
    OBVIOUS
<1>1. T \in SUBSET Nat /\ T # {}
    BY <1>0
<1>2. PICK n \in T : \A m \in T : n <= m
    BY <1>1, NatHasLeast, Zenon
<1>3. PICK x \in S : n = b - x
    BY <1>2
<1>4. \A y \in S : n <= b - y
    BY <1>2
<1>5. \A y \in S : x >= y
    BY <1>3, <1>4
<1>6. Max(S) \in S /\ \A y \in S : Max(S) >= y
    BY <1>5 DEF Max
<1> QED
    BY <1>6

-----------------------------------------------------------------------------
(* Types and the operators of the scheduler.                               *)

LEMMA ConfType ==
    ASSUME SyncTypeOK
    PROVE  /\ conf.heights \in [Peer -> -1..TopHeight] /\ conf.batchSize \in Nat \ {0}
           /\ conf.broadcasts \in BOOLEAN /\ conf.faults \in Nat /\ conf.stops \in Nat
           /\ TopHeight \in Nat /\ MaxPendingBlocks \in Nat \ {0}
           /\ committed \in Nat /\ committed <= TopHeight
           /\ ArchivedHeight \in [Peer -> Nat]
<1>1. conf \in [heights : [Peer -> -1..TopHeight], batchSize : Nat \ {0},
                broadcasts : BOOLEAN, faults : Nat, stops : Nat]
    BY SyncAssumption DEF SyncTypeOK
<1>2. /\ TopHeight \in Nat /\ MaxPendingBlocks \in Nat \ {0} /\ ArchivedHeight \in [Peer -> Nat]
      /\ committed \in 0..TopHeight
    BY SyncAssumption DEF SyncTypeOK
<1> QED
    BY <1>1, <1>2

LEMMA HeightsAreNat == Height \subseteq Nat
BY DEF Height

LEMMA StopsAreNat ==
    ASSUME SyncInv
    PROVE  stops \in Nat
<1>1. conf.stops \in Nat /\ stops \in 0..conf.stops
    BY ConfType DEF SyncInv, SyncTypeOK
<1> QED
    BY <1>1

LEMMA ChainHeightType ==
    ASSUME SyncTypeOK
    PROVE  ChainHeight \in 0..TopHeight
<1> DEFINE S == {0} \cup {conf.heights[p] : p \in Peer}
<1>1. S \in SUBSET Int /\ S # {} /\ 0 \in S /\ \A x \in S : x <= TopHeight
    BY ConfType
<1>2. TopHeight \in Int
    BY ConfType
<1>3. Max(S) \in S /\ \A x \in S : x <= Max(S)
    BY <1>1, <1>2, MaxIsGreatest
<1>4. Max(S) \in Int /\ 0 <= Max(S) /\ Max(S) <= TopHeight
    BY <1>1, <1>3
<1> QED
    BY <1>2, <1>4 DEF ChainHeight

\* What becomes of the records of one height when they are cleared.
RecordKept(c, h) ==
    /\ c.bs[h] = blockStates[h] /\ c.pending[h] = pendingBlocks[h]
    /\ h \in c.received <=> h \in receivedBlocks

RecordCleared(c, h) ==
    /\ h < committed /\ blockStates[h] # NoState
    /\ c.bs[h] = NoState /\ c.pending[h] = NoPeer /\ h \notin c.received

RecordAdded(c, h) ==
    /\ h = committed + 1 /\ blockStates[h] = NoState
    /\ c.bs[h] = "new" /\ c.pending[h] = pendingBlocks[h]
    /\ h \in c.received <=> h \in receivedBlocks

Cleans(c) ==
    /\ c.bs \in [Height -> BlockState]
    /\ c.pending \in [Height -> Peer \cup {NoPeer}]
    /\ c.received \subseteq receivedBlocks
    /\ c.next = committed + 1
    /\ \A h \in Height : RecordKept(c, h) \/ RecordCleared(c, h) \/ RecordAdded(c, h)

LEMMA ClearLaggingRequestCleans ==
    ASSUME SyncInv
    PROVE  Cleans(ClearLaggingRequest)
<1> DEFINE lagging == {h \in States(blockStates) : h < committed}
           c == ClearLaggingRequest
<1>0. /\ blockStates \in [Height -> BlockState]
      /\ pendingBlocks \in [Height -> Peer \cup {NoPeer}] /\ committed \in Nat
      /\ Height \subseteq Nat
    BY ConfType DEF SyncInv, SyncTypeOK, Height
<1>1. /\ c.bs = [h \in Height |-> IF h \in lagging THEN NoState
                                  ELSE IF h = committed + 1 /\ blockStates[h] = NoState THEN "new"
                                  ELSE blockStates[h]]
      /\ c.pending = [h \in Height |-> IF h \in lagging THEN NoPeer ELSE pendingBlocks[h]]
      /\ c.received = receivedBlocks \ lagging
      /\ c.next = committed + 1
    BY DEF ClearLaggingRequest
<1>2. \A h \in lagging : h < committed /\ blockStates[h] # NoState
    BY DEF States
<1> HIDE DEF lagging, c
<1>3. c.bs \in [Height -> BlockState] /\ c.pending \in [Height -> Peer \cup {NoPeer}]
    BY <1>0, <1>1 DEF BlockState, NoState
<1>4. ASSUME NEW h \in Height
      PROVE  RecordKept(c, h) \/ RecordCleared(c, h) \/ RecordAdded(c, h)
    <2>1. CASE h \in lagging
        BY <1>1, <1>2, <2>1 DEF RecordCleared
    <2>2. CASE h \notin lagging /\ h = committed + 1 /\ blockStates[h] = NoState
        BY <1>1, <2>2 DEF RecordAdded
    <2>3. CASE h \notin lagging /\ ~(h = committed + 1 /\ blockStates[h] = NoState)
        BY <1>1, <2>3 DEF RecordKept
    <2> QED
        BY <2>1, <2>2, <2>3
<1>5. c.received \subseteq receivedBlocks
    BY <1>1
<1> QED
    BY <1>1, <1>3, <1>4, <1>5 DEF Cleans, c

LEMMA RecordsClean ==
    ASSUME SyncInv
    PROVE  Cleans(Records)
<1>1. CASE committed >= pendingRecvHeight
    BY <1>1, ClearLaggingRequestCleans DEF Records
<1>2. CASE ~(committed >= pendingRecvHeight)
    <2>1. /\ Records.bs = blockStates /\ Records.pending = pendingBlocks
          /\ Records.received = receivedBlocks /\ Records.next = pendingRecvHeight
        BY <1>2 DEF Records
    <2>2. pendingRecvHeight = committed + 1
        BY <1>2, ConfType DEF SyncInv, SyncTypeOK, MessagesInv, Height
    <2> QED
        BY <2>1, <2>2 DEF Cleans, RecordKept, SyncInv, SyncTypeOK
<1> QED
    BY <1>1, <1>2

\* A request is for the first new height, which is above the ledger's, and to a peer that has it.
LEMMA ScheduleEffect ==
    ASSUME SyncInv, NEW p \in Peer, HandleSchedule(p)
    PROVE  \E next \in Height, batch \in SUBSET Height :
              /\ next > committed /\ Records.bs[next] = "new"
              /\ next <= peers[p] /\ \A h \in batch : h >= next
              /\ conf.batchSize = 1 => batch = {next}
              /\ blockStates' = [h \in Height |-> IF h \in batch THEN "pending" ELSE Records.bs[h]]
              /\ pendingBlocks' = [h \in Height |-> IF h \in batch THEN p ELSE Records.pending[h]]
              /\ requests' \subseteq requests \cup {<<p, next>>}
<1> DEFINE new == {h \in Height : Records.bs[h] = "new"}
           next == Min(new)
           batch == {h \in Height : h >= next /\ h <= peers[p] /\ h < next + conf.batchSize}
<1>1. /\ new # {} /\ next >= Records.next /\ p \in SelectPeer(next, Records.pending)
      /\ blockStates' = [h \in Height |-> IF h \in batch THEN "pending" ELSE Records.bs[h]]
      /\ pendingBlocks' = [h \in Height |-> IF h \in batch THEN p ELSE Records.pending[h]]
      /\ requests' = IF Cardinality(requests) < MaxInFlight THEN requests \cup {<<p, next>>} ELSE requests
    BY DEF HandleSchedule
<1>2. new \in SUBSET Nat /\ committed \in Nat /\ Height \subseteq Nat
    BY ConfType DEF Height, SyncInv
<1>3. next \in new
    BY <1>1, <1>2, MinIsLeast
<1> HIDE DEF next
<1>4. next > committed
    BY <1>1, <1>2, <1>3, RecordsClean DEF Cleans
<1>5. next <= peers[p]
    <2>1. peers[p] >= next
        BY <1>1 DEF SelectPeer
    <2>2. peers[p] \in Int
        BY DEF SyncInv, SyncTypeOK
    <2> QED
        BY <1>2, <1>3, <2>1, <2>2
<1>6. conf.batchSize = 1 => batch = {next}
    <2>1. peers[p] \in Int
        BY DEF SyncInv, SyncTypeOK
    <2>2. next \in Nat
        BY <1>2, <1>3
    <2>3. \A h \in Height : h >= next /\ h < next + 1 => h = next
        BY <1>2, <2>2
    <2>4. next >= next /\ next < next + 1
        BY <2>2
    <2> QED
        BY <1>3, <1>5, <2>3, <2>4
<1>7. batch \in SUBSET Height /\ \A h \in batch : h >= next
    OBVIOUS
<1> HIDE DEF batch
<1> QED
    BY <1>1, <1>3, <1>4, <1>5, <1>6, <1>7

\* Without a request, at most the mark of a height the ledger has is taken back.
LEMMA ScheduleNothingEffect ==
    ASSUME SyncInv, HandleScheduleNothing
    PROVE  \/ blockStates' = Records.bs
           \/ \E next \in Height : /\ next <= committed /\ Records.bs[next] = "new"
                                   /\ blockStates' = [Records.bs EXCEPT ![next] = NoState]
<1> DEFINE new == {h \in Height : Records.bs[h] = "new"}
           next == Min(new)
<1>1. \/ blockStates' = Records.bs
      \/ new # {} /\ next < Records.next /\ blockStates' = [Records.bs EXCEPT ![next] = NoState]
    BY DEF HandleScheduleNothing
<1>2. new \in SUBSET Nat /\ committed \in Nat /\ Height \subseteq Nat
    BY ConfType DEF Height, SyncInv
<1>3. CASE new # {} /\ next < Records.next /\ blockStates' = [Records.bs EXCEPT ![next] = NoState]
    <2>1. next \in new
        BY <1>2, <1>3, MinIsLeast
    <2> HIDE DEF next
    <2>2. next <= committed
        BY <1>2, <1>3, <2>1, RecordsClean DEF Cleans
    <2> QED
        BY <1>3, <2>1, <2>2
<1> QED
    BY <1>1, <1>3

\* A status marks new heights only, and within the pool.
LEMMA StatusEffect ==
    ASSUME SyncInv, NEW p \in Peer, NEW height \in 0..conf.heights[p], NEW archived,
           HandleNodeStatus(p, height, archived)
    PROVE  /\ blockStates' \in [Height -> BlockState]
           /\ \A h \in Height :
                \/ blockStates'[h] = blockStates[h]
                \/ /\ blockStates[h] = NoState /\ blockStates'[h] = "new"
                   /\ h <= committed + MaxPendingBlocks
           /\ \/ UNCHANGED peers
              \/ peers' = [peers EXCEPT ![p] = -1]
              \/ peers' = [peers EXCEPT ![p] = height] /\ ~IsPeerArchivedTooHeight(committed, archived)
           /\ minLagReached' \in BOOLEAN
<1>0. /\ blockStates \in [Height -> BlockState] /\ minLagReached \in BOOLEAN
      /\ committed \in Nat /\ pendingRecvHeight \in Height /\ Height \subseteq Nat
      /\ pendingRecvHeight <= committed + 1 /\ MaxPendingBlocks \in Nat
    BY ConfType DEF SyncInv, SyncTypeOK, MessagesInv, Height
<1>1. \/ UNCHANGED blockStates
      \/ blockStates' = AddPendingBlocks(height)
    BY DEF HandleNodeStatus
<1>2. /\ AddPendingBlocks(height) \in [Height -> BlockState]
      /\ \A h \in Height :
            \/ AddPendingBlocks(height)[h] = blockStates[h]
            \/ /\ blockStates[h] = NoState /\ AddPendingBlocks(height)[h] = "new"
               /\ h <= committed + MaxPendingBlocks
    <2> DEFINE missing == {h \in Height : /\ h >= pendingRecvHeight /\ h <= height
                                          /\ h < pendingRecvHeight + MaxPendingBlocks
                                          /\ blockStates[h] = NoState}
               Room(h) == Cardinality(States(blockStates)) + Cardinality({k \in missing : k < h})
                                <= MaxPendingBlocks
               added == [h \in Height |-> IF h \in missing /\ Room(h) THEN "new" ELSE blockStates[h]]
    <2>1. AddPendingBlocks(height) = blockStates \/ AddPendingBlocks(height) = added
        BY DEF AddPendingBlocks
    <2>2. \A h \in missing : blockStates[h] = NoState /\ h <= committed + MaxPendingBlocks
        BY <1>0
    <2> HIDE DEF missing, Room
    <2>3. added \in [Height -> BlockState]
        BY <1>0 DEF BlockState
    <2>4. \A h \in Height : \/ added[h] = blockStates[h]
                            \/ /\ blockStates[h] = NoState /\ added[h] = "new"
                               /\ h <= committed + MaxPendingBlocks
        BY <2>2
    <2> HIDE DEF added
    <2> QED
        BY <1>0, <2>1, <2>3, <2>4
<1>3. \/ UNCHANGED peers
      \/ peers' = [peers EXCEPT ![p] = -1]
      \/ peers' = [peers EXCEPT ![p] = height] /\ ~IsPeerArchivedTooHeight(committed, archived)
    BY DEF HandleNodeStatus
<1>4. minLagReached' \in BOOLEAN
    BY <1>0, Zenon DEF HandleNodeStatus, ReceiveMajorityBlocks
<1> QED
    BY <1>0, <1>1, <1>2, <1>3, <1>4

\* The messages of the routines.
LEMMA MessageTypes ==
    ASSUME NEW p \in Peer \cup {NoPeer}, NEW h \in 0..(TopHeight + 1),
           NEW s \in {"ok", "addErr", "hasProcessed", "validateFailed"}
    PROVE  /\ SyncedBlock(p, h) \in SyncMsg /\ ReceivedBlock(p, h) \in SyncMsg
           /\ ProcessedBlock(p, h, s) \in SyncMsg
BY DEF SyncedBlock, ReceivedBlock, ProcessedBlock, SyncMsg

LEMMA ControlTypes == Control("StopSync") \in SyncMsg /\ Control("StartSync") \in SyncMsg
<1>1. NoHeight \in 0..(TopHeight + 1) /\ 1 \in 1..3
    BY SyncAssumption DEF NoHeight
<1> QED
    BY <1>1 DEF Control, SyncMsg

\* Heights only grow, and what goes wrong stays within the bounds.
LEMMA CommonStep ==
    ASSUME SyncInv, [SyncNext]_syncVars
    PROVE  /\ conf' = conf /\ faults' \in 0..conf.faults /\ stops' \in 0..conf.stops
           /\ committed' \in 0..TopHeight /\ committed' >= committed
           /\ stops' = 0 => stops = 0
<1>0. /\ conf.faults \in Nat /\ conf.stops \in Nat /\ TopHeight \in Nat
      /\ committed \in 0..TopHeight /\ faults \in 0..conf.faults /\ stops \in 0..conf.stops
    BY ConfType DEF SyncInv, SyncTypeOK
<1>p. ASSUME NEW w, Pays(w) PROVE faults' \in 0..conf.faults
    BY <1>0, <1>p DEF Pays
<1>1. ASSUME NEW p \in Peer, StatusAnswer(p) \/ StatusBroadcast(p)
      PROVE  conf' = conf /\ faults' \in 0..conf.faults /\ UNCHANGED <<stops, committed>>
    BY <1>1, <1>p DEF StatusAnswer, StatusBroadcast, HandleNodeStatus
<1>2. ASSUME NEW p \in Peer, HandleSchedule(p)
      PROVE  UNCHANGED <<conf, faults, stops, committed>>
    BY <1>2 DEF HandleSchedule, boundVars
<1>3. CASE SchedulerDataDetection \/ HandleScheduleNothing
    BY <1>0, <1>3 DEF SchedulerDataDetection, HandleScheduleNothing, boundVars
<1>4. CASE HandleLiviness
    <2>1. UNCHANGED <<conf, stops, committed>>
        BY <1>4 DEF HandleLiviness
    <2>2. faults' \in 0..conf.faults
        BY <1>0, <1>4 DEF HandleLiviness, Pays
    <2> QED
        BY <1>0, <2>1, <2>2
<1>5. ASSUME NEW m \in schedulerQueue,
             \/ HandleSyncedBlock(m) \/ HandleProcessedBlockResp(m)
             \/ SchedulerStops(m) \/ SchedulerStarts(m)
      PROVE  UNCHANGED <<conf, faults, stops, committed>>
    BY <1>5 DEF HandleSyncedBlock, HandleProcessedBlockResp, SchedulerStops, SchedulerStarts, boundVars
<1>6. ASSUME NEW m \in processorQueue, HandleReceivedBlockInfos(m) \/ ProcessorStops(m)
      PROVE  UNCHANGED <<conf, faults, stops, committed>>
    BY <1>6 DEF HandleReceivedBlockInfos, ProcessorStops, boundVars
<1>7. CASE HandleProcessBlock \/ ProcessorDataDetection \/ StartBlockSync
    BY <1>0, <1>7 DEF HandleProcessBlock, ProcessorDataDetection, StartBlockSync, boundVars
<1>8. CASE ProcessBlockEnds
    <2>1. conf' = conf /\ faults' \in 0..conf.faults /\ stops' = stops
        BY <1>8, <1>p DEF ProcessBlockEnds
    <2>2. processing \in 1..TopHeight
        <3>1. processing \in 1..(TopHeight + 1) /\ processing # TopHeight + 1
            BY <1>8 DEF ProcessBlockEnds, SyncInv, SyncTypeOK, MessagesInv, Height
        <3> QED
            BY <1>0, <3>1
    <2>3. committed' = committed \/ (committed < processing /\ committed' = processing)
        BY <1>8 DEF ProcessBlockEnds, ValidateAndCommitBlock
    <2> QED
        BY <1>0, <2>1, <2>2, <2>3
<1>9. ASSUME NEW p \in Peer, NEW h \in Height, HandleBlockReq(p, h)
      PROVE  conf' = conf /\ faults' \in 0..conf.faults /\ UNCHANGED <<stops, committed>>
    BY <1>9, <1>p DEF HandleBlockReq
<1>10. CASE ConsensusCommits
    <2>1. committed < ChainHeight /\ committed' = committed + 1 /\ UNCHANGED <<conf, faults, stops>>
        BY <1>10 DEF ConsensusCommits, boundVars
    <2> QED
        BY <1>0, <2>1, ChainHeightType DEF SyncInv
<1>11. CASE StopBlockSync
    BY <1>0, <1>11 DEF StopBlockSync
<1>12. CASE UNCHANGED syncVars
    BY <1>0, <1>12 DEF syncVars, boundVars
<1> QED
    BY <1>0, <1>1, <1>2, <1>3, <1>4, <1>5, <1>6, <1>7, <1>8, <1>9, <1>10, <1>11, <1>12
       DEF SyncNext

LEMMA HeightGrows ==
    ASSUME SyncInv, [SyncNext]_syncVars
    PROVE  /\ conf' = conf /\ committed \in Nat /\ committed' \in Nat /\ committed' >= committed
           /\ stops' = 0 => stops = 0
<1>1. committed' \in 0..TopHeight /\ TopHeight \in Nat /\ committed \in 0..TopHeight
    BY CommonStep, ConfType DEF SyncInv, SyncTypeOK
<1> QED
    BY <1>1, CommonStep

\* Every step keeps the types, and the messages carry what they should.
LEMMA NextSyncInv ==
    ASSUME SyncInv, [SyncNext]_syncVars
    PROVE  SyncInv'
<1>0. SyncTypeOK /\ MessagesInv
    BY DEF SyncInv
<1>a. /\ conf' \in SyncConfigs /\ conf' = conf
      /\ faults' \in 0..conf'.faults /\ stops' \in 0..conf'.stops
      /\ committed' \in 0..TopHeight /\ committed' >= committed
    BY <1>0, CommonStep DEF SyncTypeOK
<1>b. /\ TopHeight \in Nat /\ Height \subseteq Nat /\ committed \in 0..TopHeight
      /\ conf.heights \in [Peer -> -1..TopHeight] /\ pendingRecvHeight \in Height
      /\ \A h \in 1..TopHeight : h \in Height /\ h + 1 \in Height /\ h \in 0..(TopHeight + 1)
      /\ \A n \in 0..TopHeight : n + 1 \in Height
      /\ \A h \in Height : h \in 0..(TopHeight + 1)
    <2>1. /\ TopHeight \in Nat /\ committed \in 0..TopHeight
          /\ conf.heights \in [Peer -> -1..TopHeight] /\ pendingRecvHeight \in Height
        BY <1>0, ConfType DEF SyncTypeOK
    <2> QED
        BY <2>1 DEF Height
<1>c. \A h \in Nat : h <= committed => h <= committed'
    BY <1>a, <1>b
<1>1. ASSUME NEW p \in Peer, StatusAnswer(p) \/ StatusBroadcast(p)
      PROVE  SyncInv'
    <2>1. PICK h \in 0..conf.heights[p], archived \in Nat : HandleNodeStatus(p, h, archived)
        BY <1>1, ConfType, <1>0 DEF StatusAnswer, StatusBroadcast
    <2>2. /\ UNCHANGED <<committed, pendingBlocks, receivedBlocks, pendingRecvHeight, stopSyncBlock,
                         queueVars, queue, processing, requests>>
        BY <2>1 DEF HandleNodeStatus
    <2>3. /\ blockStates' \in [Height -> BlockState] /\ minLagReached' \in BOOLEAN
          /\ UNCHANGED peers \/ peers' = [peers EXCEPT ![p] = -1] \/ peers' = [peers EXCEPT ![p] = h]
        BY <2>1, StatusEffect
    <2>4. h \in -1..TopHeight /\ h <= conf.heights[p] /\ -1 <= conf.heights[p] /\ -1 \in -1..TopHeight
        BY <1>b
    <2>5. peers' \in [Peer -> -1..TopHeight] /\ \A q \in Peer : peers'[q] <= conf.heights[q]
        BY <1>0, <2>3, <2>4 DEF SyncTypeOK, MessagesInv
    <2>6. SyncTypeOK'
        BY <1>0, <1>a, <2>2, <2>3, <2>5 DEF SyncTypeOK, queueVars
    <2>7. MessagesInv'
        BY <1>0, <1>a, <2>2, <2>5 DEF MessagesInv, queueVars
    <2> QED
        BY <2>6, <2>7 DEF SyncInv
<1>2. ASSUME NEW p \in Peer, HandleSchedule(p)
      PROVE  SyncInv'
    <2>1. PICK next \in Height, batch \in SUBSET Height :
              /\ blockStates' = [h \in Height |-> IF h \in batch THEN "pending" ELSE Records.bs[h]]
              /\ pendingBlocks' = [h \in Height |-> IF h \in batch THEN p ELSE Records.pending[h]]
              /\ requests' \subseteq requests \cup {<<p, next>>}
        BY <1>2, ScheduleEffect
    <2>2. /\ Records.bs \in [Height -> BlockState] /\ Records.pending \in [Height -> Peer \cup {NoPeer}]
          /\ Records.received \subseteq receivedBlocks /\ Records.next = committed + 1
        BY RecordsClean DEF Cleans
    <2>3. /\ receivedBlocks' = Records.received /\ pendingRecvHeight' = Records.next
          /\ UNCHANGED <<committed, peers, stopSyncBlock, queueVars, queue, processing, minLagReached>>
        BY <1>2 DEF HandleSchedule
    <2>4. blockStates' \in [Height -> BlockState] /\ pendingBlocks' \in [Height -> Peer \cup {NoPeer}]
        BY <2>1, <2>2 DEF BlockState
    <2>5. requests' \subseteq Peer \X Height
        BY <1>0, <2>1 DEF SyncTypeOK
    <2>6. SyncTypeOK'
        BY <1>0, <1>a, <1>b, <2>2, <2>3, <2>4, <2>5, Zenon DEF SyncTypeOK, queueVars
    <2>7. MessagesInv'
        BY <1>0, <1>a, <1>b, <2>2, <2>3 DEF MessagesInv, queueVars
    <2> QED
        BY <2>6, <2>7 DEF SyncInv
<1>3. CASE SchedulerDataDetection
    <2> DEFINE c == ClearLaggingRequest
    <2>1. /\ blockStates' = c.bs /\ pendingBlocks' = c.pending /\ receivedBlocks' = c.received
          /\ pendingRecvHeight' = c.next
          /\ UNCHANGED <<committed, peers, stopSyncBlock, queueVars, queue, processing, requests,
                         minLagReached>>
        BY <1>3 DEF SchedulerDataDetection
    <2>2. /\ c.bs \in [Height -> BlockState] /\ c.pending \in [Height -> Peer \cup {NoPeer}]
          /\ c.received \subseteq receivedBlocks /\ c.next = committed + 1
        BY ClearLaggingRequestCleans DEF Cleans
    <2> HIDE DEF c
    <2>3. SyncTypeOK'
        BY <1>0, <1>a, <1>b, <2>1, <2>2, Zenon DEF SyncTypeOK, queueVars
    <2>4. MessagesInv'
        BY <1>0, <1>a, <1>b, <2>1, <2>2 DEF MessagesInv, queueVars
    <2> QED
        BY <2>3, <2>4 DEF SyncInv
<1>4. CASE HandleLiviness
    <2> DEFINE h == pendingRecvHeight
               p == pendingBlocks[h]
    <2>1. /\ p # NoPeer
          /\ blockStates' = IF committed < h THEN [blockStates EXCEPT ![h] = "new"] ELSE blockStates
          /\ peers' = [peers EXCEPT ![p] = -1]
          /\ pendingBlocks' = [pendingBlocks EXCEPT ![h] = NoPeer]
          /\ UNCHANGED <<committed, receivedBlocks, pendingRecvHeight, stopSyncBlock, queueVars,
                         queue, processing, requests, minLagReached>>
        BY <1>4 DEF HandleLiviness
    <2>2. /\ blockStates' \in [Height -> BlockState] /\ pendingBlocks' \in [Height -> Peer \cup {NoPeer}]
        BY <1>0, <2>1 DEF SyncTypeOK, BlockState
    <2>3. p \in Peer /\ -1 \in -1..TopHeight /\ \A q \in Peer : -1 <= conf.heights[q]
        BY <1>0, <1>b, <2>1 DEF SyncTypeOK
    <2> HIDE DEF p
    <2>4. peers' \in [Peer -> -1..TopHeight] /\ \A q \in Peer : peers'[q] <= conf.heights[q]
        BY <1>0, <2>1, <2>3 DEF SyncTypeOK, MessagesInv
    <2>5. SyncTypeOK'
        BY <1>0, <1>a, <2>1, <2>2, <2>4 DEF SyncTypeOK, queueVars
    <2>6. MessagesInv'
        BY <1>0, <1>a, <2>1, <2>4 DEF MessagesInv, queueVars
    <2> QED
        BY <2>5, <2>6 DEF SyncInv
<1>5. CASE HandleScheduleNothing
    <2>1. /\ pendingBlocks' = Records.pending /\ receivedBlocks' = Records.received
          /\ pendingRecvHeight' = Records.next
          /\ UNCHANGED <<committed, peers, stopSyncBlock, queueVars, queue, processing, requests,
                         minLagReached>>
        BY <1>5 DEF HandleScheduleNothing
    <2>2. /\ Records.bs \in [Height -> BlockState] /\ Records.pending \in [Height -> Peer \cup {NoPeer}]
          /\ Records.received \subseteq receivedBlocks /\ Records.next = committed + 1
        BY RecordsClean DEF Cleans
    <2>3. blockStates' \in [Height -> BlockState]
        BY <1>5, <2>2, ScheduleNothingEffect DEF BlockState
    <2>4. SyncTypeOK'
        BY <1>0, <1>a, <1>b, <2>1, <2>2, <2>3, Zenon DEF SyncTypeOK, queueVars
    <2>5. MessagesInv'
        BY <1>0, <1>a, <1>b, <2>1, <2>2 DEF MessagesInv, queueVars
    <2> QED
        BY <2>4, <2>5 DEF SyncInv
<1>6. ASSUME NEW m \in schedulerQueue, HandleSyncedBlock(m)
      PROVE  SyncInv'
    <2>1. /\ schedulerQueue' = schedulerQueue \ {m}
          /\ UNCHANGED <<committed, peers, pendingRecvHeight, stopSyncBlock, queue, processing,
                         requests, minLagReached>>
        BY <1>6 DEF HandleSyncedBlock, SchedulerTakes
    <2>2. m.height \in 1..TopHeight /\ m.from \in Peer /\ m.height \in Height
        BY <1>0, <1>6, <1>b DEF HandleSyncedBlock, MessagesInv
    <2>3. /\ blockStates' \in {blockStates, [blockStates EXCEPT ![m.height] = "received"]}
          /\ pendingBlocks' \in {pendingBlocks, [pendingBlocks EXCEPT ![m.height] = NoPeer]}
          /\ receivedBlocks' \in {receivedBlocks, receivedBlocks \cup {m.height}}
          /\ processorQueue' \in {processorQueue, processorQueue \cup {ReceivedBlock(m.from, m.height)}}
        BY <1>6 DEF HandleSyncedBlock
    <2>4. /\ blockStates' \in [Height -> BlockState] /\ pendingBlocks' \in [Height -> Peer \cup {NoPeer}]
          /\ receivedBlocks' \subseteq Height
        BY <1>0, <2>2, <2>3 DEF SyncTypeOK, BlockState
    <2>5. processorQueue' \subseteq SyncMsg
        BY <1>0, <1>b, <2>2, <2>3, MessageTypes DEF SyncTypeOK
    <2>6. \A n \in processorQueue' : n.type = "ReceivedBlock" => n.height \in 1..TopHeight /\ n.from \in Peer
        BY <1>0, <2>2, <2>3 DEF MessagesInv, ReceivedBlock
    <2>7. SyncTypeOK'
        BY <1>0, <1>a, <2>1, <2>4, <2>5 DEF SyncTypeOK
    <2>8. MessagesInv'
        BY <1>0, <1>a, <2>1, <2>6 DEF MessagesInv
    <2> QED
        BY <2>7, <2>8 DEF SyncInv
<1>7. ASSUME NEW m \in schedulerQueue, HandleProcessedBlockResp(m)
      PROVE  SyncInv'
    <2> DEFINE done == m.status \in {"ok", "hasProcessed"}
    <2>1. /\ schedulerQueue' = schedulerQueue \ {m} /\ m.type = "ProcessedBlock"
          /\ receivedBlocks' = receivedBlocks \ {m.height}
          /\ blockStates' = [blockStates EXCEPT ![m.height] = IF done THEN NoState ELSE "new"]
          /\ pendingRecvHeight' = IF done THEN Max({pendingRecvHeight, m.height + 1}) ELSE pendingRecvHeight
          /\ peers' = IF done THEN peers ELSE [peers EXCEPT ![m.from] = -1]
          /\ UNCHANGED <<committed, pendingBlocks, stopSyncBlock, processorQueue, queue, processing,
                         requests, minLagReached>>
        BY <1>7 DEF HandleProcessedBlockResp, SchedulerTakes
    <2>2. /\ m.height \in 1..TopHeight /\ m.from \in Peer /\ m.height + 1 \in Height
          /\ done => m.height <= committed
        BY <1>0, <1>b, <2>1 DEF MessagesInv
    <2> HIDE DEF done
    <2>3. blockStates' \in [Height -> BlockState]
        BY <1>0, <2>1 DEF SyncTypeOK, BlockState
    <2>4. pendingRecvHeight' \in Height /\ pendingRecvHeight' <= committed + 1
        <3> DEFINE S == {pendingRecvHeight, m.height + 1}
        <3>1. Max(S) \in S
            <4>1. S \in SUBSET Int /\ S # {} /\ TopHeight + 1 \in Int /\ \A x \in S : x <= TopHeight + 1
                BY <1>b, <2>2 DEF Height
            <4> HIDE DEF S
            <4> QED
                BY <4>1, MaxIsGreatest, Zenon
        <3>2. done => \A x \in S : x \in Height /\ x <= committed + 1
            BY <1>0, <1>b, <2>2 DEF MessagesInv
        <3> HIDE DEF S
        <3>3. done => pendingRecvHeight' = Max(S)
            BY <2>1 DEF S
        <3> QED
            BY <1>0, <1>b, <2>1, <3>1, <3>2, <3>3 DEF MessagesInv
    <2>5. -1 \in -1..TopHeight /\ \A q \in Peer : -1 <= conf.heights[q]
        BY <1>b
    <2>6. peers' \in [Peer -> -1..TopHeight] /\ \A q \in Peer : peers'[q] <= conf.heights[q]
        BY <1>0, <2>1, <2>2, <2>5 DEF SyncTypeOK, MessagesInv
    <2>7. SyncTypeOK'
        BY <1>0, <1>a, <2>1, <2>3, <2>4, <2>6, Zenon DEF SyncTypeOK
    <2>8. MessagesInv'
        BY <1>0, <1>a, <2>1, <2>4, <2>6 DEF MessagesInv
    <2> QED
        BY <2>7, <2>8 DEF SyncInv
<1>8. ASSUME NEW m \in schedulerQueue, SchedulerStops(m) \/ SchedulerStarts(m)
      PROVE  SyncInv'
    <2>1. /\ schedulerQueue' = schedulerQueue \ {m}
          /\ UNCHANGED <<committed, peers, pendingRecvHeight, processorQueue, queue, processing,
                         requests, minLagReached>>
        BY <1>8 DEF SchedulerStops, SchedulerStarts, SchedulerTakes
    <2>2. /\ blockStates' \in {blockStates, [h \in Height |-> NoState]}
          /\ pendingBlocks' \in {pendingBlocks, [h \in Height |-> NoPeer]}
          /\ receivedBlocks' \in {receivedBlocks, {}} /\ stopSyncBlock' \in BOOLEAN
        BY <1>8 DEF SchedulerStops, SchedulerStarts
    <2>3. /\ blockStates' \in [Height -> BlockState] /\ pendingBlocks' \in [Height -> Peer \cup {NoPeer}]
          /\ receivedBlocks' \subseteq Height
        BY <1>0, <2>2 DEF SyncTypeOK, BlockState
    <2>4. SyncTypeOK'
        BY <1>0, <1>a, <2>1, <2>2, <2>3 DEF SyncTypeOK
    <2>5. MessagesInv'
        BY <1>0, <1>a, <2>1 DEF MessagesInv
    <2> QED
        BY <2>4, <2>5 DEF SyncInv
<1>9. ASSUME NEW m \in processorQueue, HandleReceivedBlockInfos(m) \/ ProcessorStops(m)
      PROVE  SyncInv'
    <2>1. /\ processorQueue' = processorQueue \ {m} /\ processing = NoHeight
          /\ UNCHANGED <<committed, schedulerVars, schedulerQueue, processing, requests, minLagReached>>
        BY <1>9 DEF HandleReceivedBlockInfos, ProcessorStops, ProcessorTakes
    <2>2. queue' \in [Height -> Peer \cup {NoPeer}] /\ queue'[TopHeight + 1] = NoPeer
        <3>1. CASE HandleReceivedBlockInfos(m)
            <4>1. m.height \in 1..TopHeight /\ m.from \in Peer
                BY <1>0, <3>1 DEF HandleReceivedBlockInfos, MessagesInv
            <4>2. queue' \in {queue, [queue EXCEPT ![m.height] = m.from]}
                BY <3>1 DEF HandleReceivedBlockInfos
            <4>3. m.height # TopHeight + 1 /\ m.height \in Height
                BY <1>b, <4>1
            <4>4. queue \in [Height -> Peer \cup {NoPeer}] /\ queue[TopHeight + 1] = NoPeer
                BY <1>0 DEF SyncTypeOK, MessagesInv
            <4>5. CASE queue' = queue
                BY <4>4, <4>5
            <4>6. CASE queue' = [queue EXCEPT ![m.height] = m.from]
                BY <4>1, <4>3, <4>4, <4>6
            <4> QED
                BY <4>2, <4>5, <4>6
        <3>2. CASE ProcessorStops(m)
            <4>1. queue' = [h \in Height |-> NoPeer] /\ TopHeight + 1 \in Height
                BY <1>b, <3>2 DEF ProcessorStops
            <4> QED
                BY <4>1, Zenon
        <3> QED
            BY <1>9, <3>1, <3>2
    <2>3. SyncTypeOK'
        BY <1>0, <1>a, <2>1, <2>2 DEF SyncTypeOK, schedulerVars
    <2>4. MessagesInv'
        BY <1>0, <1>a, <2>1, <2>2 DEF MessagesInv, schedulerVars
    <2> QED
        BY <2>3, <2>4 DEF SyncInv
<1>10. CASE HandleProcessBlock
    <2>1. /\ queue[committed + 1] # NoPeer /\ processing' = committed + 1
          /\ UNCHANGED <<committed, schedulerVars, queueVars, queue, requests, minLagReached>>
        BY <1>10 DEF HandleProcessBlock
    <2>2. committed + 1 \in Height
        BY <1>b
    <2>3. SyncTypeOK'
        BY <1>0, <1>a, <2>1, <2>2 DEF SyncTypeOK, schedulerVars, queueVars
    <2>4. MessagesInv'
        BY <1>0, <1>a, <2>1 DEF MessagesInv, schedulerVars, queueVars
    <2> QED
        BY <2>3, <2>4 DEF SyncInv
<1>11. CASE ProcessBlockEnds
    <2> DEFINE from == queue[processing]
    <2>1. PICK status \in {"ok", "hasProcessed", "validateFailed", "addErr"} :
              /\ ValidateAndCommitBlock(status)
              /\ schedulerQueue' = schedulerQueue \cup {ProcessedBlock(from, processing, status)}
        BY <1>11 DEF ProcessBlockEnds
    <2>2. /\ processing # NoHeight /\ queue' = [queue EXCEPT ![processing] = NoPeer]
          /\ processing' = NoHeight
          /\ UNCHANGED <<schedulerVars, processorQueue, requests, minLagReached>>
        BY <1>11 DEF ProcessBlockEnds
    <2>3. processing \in Height /\ from \in Peer /\ processing # TopHeight + 1
        BY <1>0, <2>2 DEF SyncTypeOK, MessagesInv
    <2>4. processing \in 1..TopHeight /\ processing \in 0..(TopHeight + 1)
        BY <1>b, <2>3 DEF Height
    <2> HIDE DEF from
    <2> DEFINE m == ProcessedBlock(from, processing, status)
    <2>5. /\ m.type = "ProcessedBlock" /\ m.from = from /\ m.height = processing /\ m.status = status
          /\ m \in SyncMsg
        BY <2>3, <2>4, MessageTypes, Zenon DEF ProcessedBlock
    <2> HIDE DEF m
    <2>6. status \in {"ok", "hasProcessed"} => processing <= committed'
        BY <1>a, <1>b, <2>1, <2>4 DEF ValidateAndCommitBlock
    <2>7. schedulerQueue' = schedulerQueue \cup {m}
        BY <2>1 DEF m
    <2>8. \A n \in schedulerQueue' : n.type \in {"SyncedBlock", "ProcessedBlock"} =>
                n.height \in 1..TopHeight /\ n.from \in Peer
        BY <1>0, <2>3, <2>4, <2>5, <2>7 DEF MessagesInv
    <2>9. \A n \in schedulerQueue' : n.type = "ProcessedBlock" /\ n.status \in {"ok", "hasProcessed"} =>
                n.height <= committed'
        BY <1>0, <1>c, <2>5, <2>6, <2>7, <2>8 DEF MessagesInv
    <2>10. queue' \in [Height -> Peer \cup {NoPeer}] /\ queue'[TopHeight + 1] = NoPeer
        BY <1>0, <2>2, <2>3 DEF SyncTypeOK, MessagesInv
    <2>11. pendingRecvHeight' <= committed' + 1
        BY <1>0, <1>a, <1>b, <2>2 DEF MessagesInv, schedulerVars
    <2>12. SyncTypeOK'
        BY <1>0, <1>a, <2>2, <2>5, <2>7, <2>10 DEF SyncTypeOK, schedulerVars
    <2>13. MessagesInv'
        BY <1>0, <1>a, <2>2, <2>8, <2>9, <2>10, <2>11 DEF MessagesInv, schedulerVars
    <2> QED
        BY <2>12, <2>13 DEF SyncInv
<1>12. CASE ProcessorDataDetection
    <2>1. /\ processing = NoHeight
          /\ queue' = [h \in Height |-> IF h <= committed THEN NoPeer ELSE queue[h]]
          /\ UNCHANGED <<committed, schedulerVars, queueVars, processing, requests, minLagReached>>
        BY <1>12 DEF ProcessorDataDetection
    <2>2. queue' \in [Height -> Peer \cup {NoPeer}] /\ queue'[TopHeight + 1] = NoPeer
        <3>1. TopHeight + 1 \in Height
            BY <1>b
        <3> QED
            BY <1>0, <2>1, <3>1 DEF SyncTypeOK, MessagesInv
    <2>3. SyncTypeOK'
        BY <1>0, <1>a, <2>1, <2>2 DEF SyncTypeOK, schedulerVars, queueVars
    <2>4. MessagesInv'
        BY <1>0, <1>a, <2>1, <2>2 DEF MessagesInv, schedulerVars, queueVars
    <2> QED
        BY <2>3, <2>4 DEF SyncInv
<1>13. ASSUME NEW p \in Peer, NEW h \in Height, HandleBlockReq(p, h)
       PROVE  SyncInv'
    <2> DEFINE sent == IF h <= ArchivedHeight[p] THEN {}
                       ELSE {k \in h..(h + conf.batchSize - 1) : k <= conf.heights[p]}
    <2>1. PICK got \in SUBSET sent :
              /\ schedulerQueue' = schedulerQueue \cup {SyncedBlock(p, k) : k \in got}
              /\ requests' \subseteq requests
        BY <1>13 DEF HandleBlockReq
    <2>2. UNCHANGED <<committed, schedulerVars, processorQueue, queue, processing, minLagReached>>
        BY <1>13 DEF HandleBlockReq
    <2>3. \A k \in got : k \in 1..TopHeight
        BY <1>b, <1>0, ConfType
    <2>4. \A k \in got : SyncedBlock(p, k) \in SyncMsg
        BY <1>b, <2>3, MessageTypes
    <2>5. \A k \in got : /\ SyncedBlock(p, k).type = "SyncedBlock" /\ SyncedBlock(p, k).height = k
                         /\ SyncedBlock(p, k).from = p
        BY DEF SyncedBlock
    <2>6. SyncTypeOK'
        BY <1>0, <1>a, <2>1, <2>2, <2>4, Zenon DEF SyncTypeOK, schedulerVars
    <2>7. \A n \in schedulerQueue' : n.type \in {"SyncedBlock", "ProcessedBlock"} =>
                n.height \in 1..TopHeight /\ n.from \in Peer
        BY <1>0, <2>1, <2>3, <2>5 DEF MessagesInv
    <2>8. \A n \in schedulerQueue' : n.type = "ProcessedBlock" => n \in schedulerQueue
        BY <2>1, <2>5
    <2>9. MessagesInv'
        BY <1>0, <1>a, <2>2, <2>7, <2>8 DEF MessagesInv, schedulerVars
    <2> QED
        BY <2>6, <2>9 DEF SyncInv
<1>14. CASE ConsensusCommits \/ UNCHANGED syncVars
    <2>1. UNCHANGED <<schedulerVars, queueVars, queue, processing, requests, minLagReached>>
        BY <1>14 DEF ConsensusCommits, syncVars
    <2>2. SyncTypeOK'
        BY <1>0, <1>a, <2>1, Zenon DEF SyncTypeOK, schedulerVars, queueVars
    <2>a. pendingRecvHeight' = pendingRecvHeight /\ pendingRecvHeight \in Nat
        BY <1>b, <2>1 DEF schedulerVars
    <2>b. pendingRecvHeight <= committed + 1
        BY <1>0 DEF MessagesInv
    <2>3. pendingRecvHeight' <= committed' + 1
        <3>1. committed \in Nat /\ committed' \in Nat /\ committed' >= committed
            BY <1>a, <1>b
        <3>2. \A a \in Nat, b \in Nat, c \in Nat : a <= b + 1 /\ c >= b => a <= c + 1
            OBVIOUS
        <3> QED
            BY <2>a, <2>b, <3>1, <3>2
    <2>4. \A m \in schedulerQueue : m.type = "ProcessedBlock" /\ m.status \in {"ok", "hasProcessed"} =>
                m.height <= committed'
        BY <1>0, <1>c DEF MessagesInv
    <2>5. MessagesInv'
        BY <1>0, <1>a, <2>1, <2>3, <2>4 DEF MessagesInv, schedulerVars, queueVars
    <2> QED
        BY <2>2, <2>5 DEF SyncInv
<1>15. CASE StopBlockSync \/ StartBlockSync
    <2>1. /\ schedulerQueue' \in {schedulerQueue \cup {Control("StopSync")},
                                  schedulerQueue \cup {Control("StartSync")}}
          /\ processorQueue' \in {processorQueue, processorQueue \cup {Control("StopSync")}}
          /\ UNCHANGED <<committed, schedulerVars, queue, processing, requests, minLagReached>>
        BY <1>15 DEF StopBlockSync, StartBlockSync
    <2>2. Control("StopSync").type = "StopSync" /\ Control("StartSync").type = "StartSync"
        BY DEF Control
    <2>3. SyncTypeOK'
        BY <1>0, <1>a, <2>1, ControlTypes DEF SyncTypeOK, schedulerVars
    <2>4. MessagesInv'
        BY <1>0, <1>a, <2>1, <2>2, Zenon DEF MessagesInv, schedulerVars
    <2> QED
        BY <2>3, <2>4 DEF SyncInv
<1> QED
    BY <1>1, <1>2, <1>3, <1>4, <1>5, <1>6, <1>7, <1>8, <1>9, <1>10, <1>11, <1>12, <1>13, <1>14, <1>15
       DEF SyncNext

-----------------------------------------------------------------------------
(* Requests can be served.                                                 *)

LEMMA NextArchiveInv ==
    ASSUME SyncInv, ArchiveInv, [SyncNext]_syncVars
    PROVE  ArchiveInv'
<1>0. /\ conf' = conf /\ committed \in Nat /\ committed' \in Nat /\ committed' >= committed
      /\ ArchivedHeight \in [Peer -> Nat] /\ conf.heights \in [Peer -> -1..TopHeight]
    BY CommonStep, ConfType DEF SyncInv
<1> SUFFICES ASSUME ~conf.broadcasts
             PROVE  /\ \A p \in Peer : peers'[p] # -1 =>
                            ArchivedHeight[p] = 0 \/ ArchivedHeight[p] < committed'
                    /\ \A r \in requests' :
                            r[2] > ArchivedHeight[r[1]] /\ r[2] <= conf.heights[r[1]]
    BY <1>0 DEF ArchiveInv, RequestsServable
<1>a. /\ \A p \in Peer : peers[p] # -1 => ArchivedHeight[p] = 0 \/ ArchivedHeight[p] < committed
      /\ \A r \in requests : r[2] > ArchivedHeight[r[1]] /\ r[2] <= conf.heights[r[1]]
    BY DEF ArchiveInv, RequestsServable
<1>b. peers \in [Peer -> -1..TopHeight] /\ \A p \in Peer : peers[p] <= conf.heights[p]
    BY Zenon DEF SyncInv, SyncTypeOK, MessagesInv
\* The scheduler forgets peers, or keeps them, and sends no request.
<1>1. ASSUME requests' \subseteq requests, \A p \in Peer : peers'[p] \in {peers[p], -1}
      PROVE  /\ \A p \in Peer : peers'[p] # -1 => ArchivedHeight[p] = 0 \/ ArchivedHeight[p] < committed'
             /\ \A r \in requests' : r[2] > ArchivedHeight[r[1]] /\ r[2] <= conf.heights[r[1]]
    <2>1. ASSUME NEW p \in Peer, peers'[p] # -1
          PROVE  ArchivedHeight[p] = 0 \/ ArchivedHeight[p] < committed'
        <3>1. ArchivedHeight[p] = 0 \/ ArchivedHeight[p] < committed
            BY <1>1, <1>a, <2>1
        <3>2. ArchivedHeight[p] \in Nat
            BY <1>0, Zenon
        <3> QED
            BY <1>0, <3>1, <3>2
    <2> QED
        BY <1>1, <1>a, <2>1
<1>2. ASSUME NEW p \in Peer, StatusAnswer(p)
      PROVE  /\ \A q \in Peer : peers'[q] # -1 => ArchivedHeight[q] = 0 \/ ArchivedHeight[q] < committed'
             /\ \A r \in requests' : r[2] > ArchivedHeight[r[1]] /\ r[2] <= conf.heights[r[1]]
    <2>1. PICK h \in 0..conf.heights[p] : HandleNodeStatus(p, h, ArchivedHeight[p])
        BY <1>2, Zenon DEF StatusAnswer
    <2>2. requests' = requests
        BY <2>1 DEF HandleNodeStatus
    <2>3. CASE UNCHANGED peers \/ peers' = [peers EXCEPT ![p] = -1]
        BY <1>1, <1>b, <2>2, <2>3
    <2>4. CASE /\ peers' = [peers EXCEPT ![p] = h]
               /\ ~IsPeerArchivedTooHeight(committed, ArchivedHeight[p])
        <3>1. ArchivedHeight[p] = 0 \/ ArchivedHeight[p] < committed
            BY <1>0, <2>4 DEF IsPeerArchivedTooHeight
        <3>2. \A q \in Peer : peers'[q] # -1 => ArchivedHeight[q] = 0 \/ ArchivedHeight[q] < committed
            BY <1>a, <1>b, <2>4, <3>1
        <3>3. \A q \in Peer : ArchivedHeight[q] \in Nat
            BY <1>0
        <3> QED
            BY <1>0, <1>a, <2>2, <3>2, <3>3
    <2> QED
        BY <2>1, <2>3, <2>4, StatusEffect
<1>3. ASSUME NEW p \in Peer, StatusBroadcast(p)
      PROVE  FALSE
    BY <1>3 DEF StatusBroadcast
<1>4. ASSUME NEW p \in Peer, HandleSchedule(p)
      PROVE  /\ \A q \in Peer : peers'[q] # -1 => ArchivedHeight[q] = 0 \/ ArchivedHeight[q] < committed'
             /\ \A r \in requests' : r[2] > ArchivedHeight[r[1]] /\ r[2] <= conf.heights[r[1]]
    <2>1. PICK next \in Height : /\ next > committed /\ next <= peers[p]
                                 /\ requests' \subseteq requests \cup {<<p, next>>}
        BY <1>4, ScheduleEffect
    <2>2. peers' = peers /\ committed' = committed
        BY <1>4 DEF HandleSchedule
    <2>3. next \in Nat /\ next >= 1 /\ peers[p] \in Int /\ conf.heights[p] \in Int
          /\ ArchivedHeight[p] \in Nat /\ peers[p] <= conf.heights[p]
        BY <1>0, <1>b, ConfType DEF Height, SyncInv
    <2>4. next > ArchivedHeight[p] /\ next <= conf.heights[p]
        <3>1. peers[p] # -1
            BY <2>1, <2>3
        <3>2. ArchivedHeight[p] = 0 \/ ArchivedHeight[p] < committed
            BY <1>a, <3>1
        <3> QED
            BY <1>0, <2>1, <2>3, <3>2
    <2> QED
        BY <1>a, <2>1, <2>2, <2>4
<1>5. CASE HandleLiviness
    <2>1. requests' = requests /\ peers' = [peers EXCEPT ![pendingBlocks[pendingRecvHeight]] = -1]
        BY <1>5, Zenon DEF HandleLiviness
    <2> QED
        BY <1>1, <1>b, <2>1
<1>6. CASE SchedulerDataDetection \/ HandleScheduleNothing
    BY <1>1, <1>6 DEF SchedulerDataDetection, HandleScheduleNothing
<1>7. ASSUME NEW m \in schedulerQueue,
             HandleSyncedBlock(m) \/ SchedulerStops(m) \/ SchedulerStarts(m)
      PROVE  UNCHANGED <<peers, requests>>
    BY <1>7 DEF HandleSyncedBlock, SchedulerStops, SchedulerStarts
<1>8. ASSUME NEW m \in schedulerQueue, HandleProcessedBlockResp(m)
      PROVE  requests' = requests /\ \A p \in Peer : peers'[p] \in {peers[p], -1}
    <2>1. requests' = requests /\ peers' \in {peers, [peers EXCEPT ![m.from] = -1]}
        BY <1>8 DEF HandleProcessedBlockResp
    <2> QED
        BY <1>b, <2>1
<1>9. ASSUME NEW m \in processorQueue, HandleReceivedBlockInfos(m) \/ ProcessorStops(m)
      PROVE  UNCHANGED <<peers, requests>>
    BY <1>9 DEF HandleReceivedBlockInfos, ProcessorStops, schedulerVars
<1>10. CASE HandleProcessBlock \/ ProcessBlockEnds \/ ProcessorDataDetection
    BY <1>1, <1>10 DEF HandleProcessBlock, ProcessBlockEnds, ProcessorDataDetection, schedulerVars
<1>11. ASSUME NEW p \in Peer, NEW h \in Height, HandleBlockReq(p, h)
       PROVE  requests' \subseteq requests /\ UNCHANGED peers
    BY <1>11, Zenon DEF HandleBlockReq, schedulerVars
<1>12. CASE ConsensusCommits \/ StopBlockSync \/ StartBlockSync \/ UNCHANGED syncVars
    BY <1>1, <1>12, Zenon DEF ConsensusCommits, StopBlockSync, StartBlockSync, syncVars, schedulerVars
<1> QED
    BY <1>1, <1>2, <1>3, <1>4, <1>5, <1>6, <1>7, <1>8, <1>9, <1>10, <1>11, <1>12 DEF SyncNext

-----------------------------------------------------------------------------
(* What is received is held.                                               *)

\* The steps of the scheduler that handle no message of another routine.
Tick ==
    \/ \E p \in Peer : StatusAnswer(p) \/ StatusBroadcast(p) \/ HandleSchedule(p)
    \/ SchedulerDataDetection \/ HandleLiviness \/ HandleScheduleNothing

LEMMA TickKeeps ==
    ASSUME Tick
    PROVE  UNCHANGED <<committed, schedulerQueue, processorQueue, queue, stops>>
<1>1. ASSUME NEW p \in Peer, StatusAnswer(p) \/ StatusBroadcast(p)
      PROVE  UNCHANGED <<committed, schedulerQueue, processorQueue, queue, stops>>
    BY <1>1, Zenon DEF StatusAnswer, StatusBroadcast, HandleNodeStatus, queueVars
<1>2. ASSUME NEW p \in Peer, HandleSchedule(p)
      PROVE  UNCHANGED <<committed, schedulerQueue, processorQueue, queue, stops>>
    BY <1>2 DEF HandleSchedule, queueVars, boundVars
<1>3. CASE SchedulerDataDetection \/ HandleLiviness \/ HandleScheduleNothing
    BY <1>3, Zenon DEF SchedulerDataDetection, HandleLiviness, HandleScheduleNothing, queueVars, boundVars
<1> QED
    BY <1>1, <1>2, <1>3 DEF Tick

\* What a tick does to the records of a height, with one block in a request.
Keeps(h) ==
    blockStates'[h] = blockStates[h] /\ pendingBlocks'[h] = pendingBlocks[h]
        /\ (h \in receivedBlocks' <=> h \in receivedBlocks)

Clears(h) ==
    h < committed /\ blockStates'[h] = NoState /\ pendingBlocks'[h] = NoPeer /\ h \notin receivedBlocks'

Adds(h) ==
    /\ blockStates[h] = NoState /\ blockStates'[h] = "new" /\ h <= committed + MaxPendingBlocks
    /\ pendingBlocks'[h] = pendingBlocks[h] /\ (h \in receivedBlocks' <=> h \in receivedBlocks)

Asks(h) ==
    /\ h > committed /\ blockStates'[h] = "pending" /\ (h \in receivedBlocks' <=> h \in receivedBlocks)
    /\ blockStates[h] = "new" \/ (blockStates[h] = NoState /\ h = committed + 1)

Forgets(h) ==
    /\ h <= committed /\ blockStates[h] = "new" /\ blockStates'[h] = NoState
    /\ pendingBlocks'[h] = pendingBlocks[h] /\ (h \in receivedBlocks' <=> h \in receivedBlocks)

TimesOut(h) ==
    /\ pendingBlocks[h] # NoPeer /\ pendingBlocks'[h] = NoPeer /\ h <= committed + 1
    /\ blockStates'[h] = blockStates[h] \/ (h > committed /\ blockStates'[h] = "new")
    /\ h \in receivedBlocks' <=> h \in receivedBlocks

\* The records as isNeedSync leaves them.
LEMMA CleansEffect ==
    ASSUME SyncInv, NEW c, Cleans(c), NEW h \in Height,
           blockStates'[h] = c.bs[h], pendingBlocks'[h] = c.pending[h], receivedBlocks' = c.received
    PROVE  Keeps(h) \/ Clears(h) \/ Adds(h)
<1>1. RecordKept(c, h) \/ RecordCleared(c, h) \/ RecordAdded(c, h)
    BY DEF Cleans
<1>2. CASE RecordKept(c, h)
    BY <1>2 DEF RecordKept, Keeps
<1>3. CASE RecordCleared(c, h)
    BY <1>3 DEF RecordCleared, Clears
<1>4. CASE RecordAdded(c, h)
    <2>1. h <= committed + MaxPendingBlocks
        BY <1>4, ConfType DEF RecordAdded, SyncInv
    <2> QED
        BY <1>4, <2>1 DEF RecordAdded, Adds
<1> QED
    BY <1>1, <1>2, <1>3, <1>4

LEMMA TickEffect ==
    ASSUME SyncInv, Tick, conf.batchSize = 1, NEW h \in Height
    PROVE  Keeps(h) \/ Clears(h) \/ Adds(h) \/ Asks(h) \/ Forgets(h) \/ TimesOut(h)
<1>0. /\ blockStates \in [Height -> BlockState] /\ pendingBlocks \in [Height -> Peer \cup {NoPeer}]
      /\ pendingRecvHeight <= committed + 1 /\ committed \in Nat /\ Height \subseteq Nat
    BY ConfType DEF SyncInv, SyncTypeOK, MessagesInv, Height
<1>1. ASSUME NEW p \in Peer, StatusAnswer(p) \/ StatusBroadcast(p)
      PROVE  Keeps(h) \/ Adds(h)
    <2>1. PICK height \in 0..conf.heights[p], archived \in Nat : HandleNodeStatus(p, height, archived)
        BY <1>1, ConfType DEF StatusAnswer, StatusBroadcast, SyncInv
    <2>2. UNCHANGED <<pendingBlocks, receivedBlocks>>
        BY <2>1 DEF HandleNodeStatus
    <2> QED
        BY <2>1, <2>2, StatusEffect, Zenon DEF Keeps, Adds
<1>2. ASSUME NEW p \in Peer, HandleSchedule(p)
      PROVE  Keeps(h) \/ Clears(h) \/ Adds(h) \/ Asks(h)
    <2>1. PICK next \in Height :
              /\ next > committed /\ Records.bs[next] = "new"
              /\ blockStates' = [k \in Height |-> IF k \in {next} THEN "pending" ELSE Records.bs[k]]
              /\ pendingBlocks' = [k \in Height |-> IF k \in {next} THEN p ELSE Records.pending[k]]
        BY <1>2, ScheduleEffect
    <2>2. receivedBlocks' = Records.received
        BY <1>2 DEF HandleSchedule
    <2>3. CASE h # next
        <3>1. blockStates'[h] = Records.bs[h] /\ pendingBlocks'[h] = Records.pending[h]
            BY <2>1, <2>3
        <3> QED
            BY <2>2, <3>1, RecordsClean, CleansEffect
    <2>4. CASE h = next
        <3>1. blockStates'[h] = "pending" /\ h > committed /\ Records.bs[h] = "new"
            BY <2>1, <2>4
        <3>2. RecordKept(Records, h) \/ RecordCleared(Records, h) \/ RecordAdded(Records, h)
            BY RecordsClean DEF Cleans
        <3>3. ~RecordCleared(Records, h)
            BY <1>0, <3>1 DEF RecordCleared, NoState
        <3> QED
            BY <2>2, <3>1, <3>2, <3>3 DEF Asks, RecordKept, RecordAdded
    <2> QED
        BY <2>3, <2>4
<1>3. CASE SchedulerDataDetection
    <2>1. LET c == ClearLaggingRequest IN
             blockStates' = c.bs /\ pendingBlocks' = c.pending /\ receivedBlocks' = c.received
        BY <1>3 DEF SchedulerDataDetection
    <2> QED
        BY <2>1, ClearLaggingRequestCleans, CleansEffect
<1>4. CASE HandleLiviness
    <2>1. /\ pendingBlocks[pendingRecvHeight] # NoPeer /\ receivedBlocks' = receivedBlocks
          /\ pendingBlocks' = [pendingBlocks EXCEPT ![pendingRecvHeight] = NoPeer]
          /\ \/ blockStates' = blockStates
             \/ /\ committed < pendingRecvHeight
                /\ blockStates' = [blockStates EXCEPT ![pendingRecvHeight] = "new"]
        BY <1>4 DEF HandleLiviness
    <2>2. CASE h # pendingRecvHeight
        BY <1>0, <2>1, <2>2 DEF Keeps
    <2>3. CASE h = pendingRecvHeight
        BY <1>0, <2>1, <2>3, Zenon DEF TimesOut
    <2> QED
        BY <2>2, <2>3
<1>5. CASE HandleScheduleNothing
    <2>1. pendingBlocks' = Records.pending /\ receivedBlocks' = Records.received
        BY <1>5 DEF HandleScheduleNothing
    <2>2. CASE blockStates'[h] = Records.bs[h]
        BY <2>1, <2>2, RecordsClean, CleansEffect
    <2>3. CASE blockStates'[h] # Records.bs[h]
        <3>1. PICK next \in Height : /\ next <= committed /\ Records.bs[next] = "new"
                                     /\ blockStates' = [Records.bs EXCEPT ![next] = NoState]
            BY <1>5, <2>3, ScheduleNothingEffect
        <3>2. Records.bs \in [Height -> BlockState]
            BY RecordsClean DEF Cleans
        <3>3. h = next /\ blockStates'[h] = NoState /\ h <= committed /\ Records.bs[h] = "new"
            BY <2>3, <3>1, <3>2
        <3>4. RecordKept(Records, h) \/ RecordCleared(Records, h) \/ RecordAdded(Records, h)
            BY RecordsClean DEF Cleans
        <3>5. ~RecordCleared(Records, h) /\ ~RecordAdded(Records, h)
            BY <1>0, <3>3 DEF RecordCleared, RecordAdded, NoState
        <3> QED
            BY <2>1, <3>3, <3>4, <3>5 DEF Forgets, RecordKept
    <2> QED
        BY <2>2, <2>3
<1> QED
    BY <1>1, <1>2, <1>3, <1>4, <1>5, Zenon DEF Tick

\* No tick marks a height as received.
LEMMA TickReceivesNothing ==
    ASSUME SyncInv, Tick, NEW h \in Height, blockStates'[h] = "received"
    PROVE  blockStates[h] = "received"
<1>0. blockStates \in [Height -> BlockState]
    BY DEF SyncInv, SyncTypeOK
<1>1. ASSUME NEW c, Cleans(c), c.bs[h] = "received"
      PROVE  blockStates[h] = "received"
    BY <1>1 DEF Cleans, RecordKept, RecordCleared, RecordAdded, NoState
<1>2. ASSUME NEW p \in Peer, StatusAnswer(p) \/ StatusBroadcast(p)
      PROVE  blockStates[h] = "received"
    <2>1. PICK height \in 0..conf.heights[p], archived \in Nat : HandleNodeStatus(p, height, archived)
        BY <1>2, ConfType DEF StatusAnswer, StatusBroadcast, SyncInv
    <2> QED
        BY <2>1, StatusEffect
<1>3. ASSUME NEW p \in Peer, HandleSchedule(p)
      PROVE  blockStates[h] = "received"
    <2>1. PICK batch \in SUBSET Height :
              blockStates' = [k \in Height |-> IF k \in batch THEN "pending" ELSE Records.bs[k]]
        BY <1>3, ScheduleEffect
    <2>2. Records.bs[h] = "received"
        BY <2>1
    <2> QED
        BY <1>1, <2>2, RecordsClean
<1>4. CASE SchedulerDataDetection
    <2>1. blockStates' = ClearLaggingRequest.bs
        BY <1>4 DEF SchedulerDataDetection
    <2> QED
        BY <1>1, <2>1, ClearLaggingRequestCleans
<1>5. CASE HandleLiviness
    <2>1. blockStates' \in {blockStates, [blockStates EXCEPT ![pendingRecvHeight] = "new"]}
        BY <1>5 DEF HandleLiviness
    <2> QED
        BY <1>0, <2>1
<1>6. CASE HandleScheduleNothing
    <2>1. Records.bs \in [Height -> BlockState]
        BY RecordsClean DEF Cleans
    <2>2. Records.bs[h] = "received"
        BY <1>6, <2>1, ScheduleNothingEffect DEF NoState
    <2> QED
        BY <1>1, <2>2, RecordsClean
<1> QED
    BY <1>2, <1>3, <1>4, <1>5, <1>6 DEF Tick

\* What a step that is not a tick does to a height: to its records, to its messages and to
\* the processor's queue.
HeldKept(h) == Waiting(h)' = Waiting(h) /\ Reports(h)' = Reports(h) /\ queue'[h] = queue[h]

Accepts(h) ==
    /\ blockStates[h] \in {"new", "pending"} /\ blockStates'[h] = "received" /\ pendingBlocks'[h] = NoPeer
    /\ \E m : Waiting(h)' = Waiting(h) \cup {m}
    /\ Reports(h)' = Reports(h) /\ queue'[h] = queue[h]

Refuses(h) ==
    /\ blockStates'[h] = blockStates[h] /\ pendingBlocks'[h] = NoPeer
    /\ h \in receivedBlocks' <=> h \in receivedBlocks
    /\ HeldKept(h)

HearsReport(h) ==
    /\ \E m \in Reports(h) : Reports(h)' = Reports(h) \ {m}
    /\ blockStates'[h] \in {NoState, "new"} /\ h \notin receivedBlocks'
    /\ pendingBlocks'[h] = pendingBlocks[h] /\ Waiting(h)' = Waiting(h) /\ queue'[h] = queue[h]

Stops(h) ==
    /\ stops # 0 /\ blockStates'[h] = NoState /\ pendingBlocks'[h] = NoPeer
    /\ h \notin receivedBlocks' /\ HeldKept(h)

Enqueues(h) ==
    /\ Keeps(h)
    /\ \E m \in Waiting(h) :
           /\ Waiting(h)' = Waiting(h) \ {m} /\ m.from # NoPeer
           /\ queue'[h] = IF h <= committed \/ queue[h] # NoPeer THEN queue[h] ELSE m.from
    /\ Reports(h)' = Reports(h)

Dequeues(h) ==
    /\ Keeps(h) /\ queue'[h] = NoPeer /\ (h <= committed \/ stops # 0)
    /\ Waiting(h)' = Waiting(h) /\ Reports(h)' = Reports(h)

Processes(h) ==
    /\ Keeps(h) /\ queue[h] # NoPeer /\ queue'[h] = NoPeer
    /\ \E m : Reports(h)' = Reports(h) \cup {m}
    /\ Waiting(h)' = Waiting(h)

MovesOf(h) ==
    \/ Keeps(h) /\ HeldKept(h)
    \/ Accepts(h) \/ Refuses(h) \/ HearsReport(h) \/ Stops(h)
    \/ Enqueues(h) \/ Dequeues(h) \/ Processes(h)

LEMMA MessageHeights ==
    ASSUME SyncInv, NEW m \in schedulerQueue, m.type \in {"SyncedBlock", "ProcessedBlock"}
    PROVE  m.height \in Height
<1>1. m.height \in 1..TopHeight /\ TopHeight \in Nat
    BY ConfType DEF SyncInv, MessagesInv
<1> QED
    BY <1>1 DEF Height

LEMMA OtherSteps ==
    ASSUME SyncInv, NeverStopped, [SyncNext]_syncVars, ~Tick, NEW h \in Height
    PROVE  MovesOf(h)
<1>0. /\ blockStates \in [Height -> BlockState] /\ pendingBlocks \in [Height -> Peer \cup {NoPeer}]
      /\ queue \in [Height -> Peer \cup {NoPeer}] /\ processing \in Height \cup {NoHeight}
    BY DEF SyncInv, SyncTypeOK
<1>k. ASSUME UNCHANGED <<blockStates, pendingBlocks, receivedBlocks>> PROVE Keeps(h)
    BY <1>k DEF Keeps
<1>1. ASSUME NEW m \in schedulerQueue, HandleSyncedBlock(m)
      PROVE  MovesOf(h)
    <2>1. m.height \in Height
        <3>1. m.type = "SyncedBlock"
            BY <1>1 DEF HandleSyncedBlock
        <3> QED
            BY <3>1, MessageHeights
    <2>2. m.type = "SyncedBlock" /\ schedulerQueue' = schedulerQueue \ {m} /\ queue' = queue
        BY <1>1 DEF HandleSyncedBlock, SchedulerTakes
    <2>3. Reports(h)' = Reports(h)
        BY <2>2 DEF Reports
    <2>4. CASE UNCHANGED <<blockStates, pendingBlocks, receivedBlocks, processorQueue>>
        BY <2>2, <2>3, <2>4, Zenon DEF MovesOf, Keeps, HeldKept, Waiting
    <2>5. CASE /\ pendingBlocks' = [pendingBlocks EXCEPT ![m.height] = NoPeer]
               /\ UNCHANGED <<blockStates, receivedBlocks, processorQueue>>
        <3>1. Waiting(h)' = Waiting(h)
            BY <2>5 DEF Waiting
        <3>2. CASE h = m.height
            BY <1>0, <2>2, <2>3, <2>5, <3>1, <3>2 DEF MovesOf, Refuses, HeldKept
        <3>3. CASE h # m.height
            BY <1>0, <2>2, <2>3, <2>5, <3>1, <3>3 DEF MovesOf, Keeps, HeldKept
        <3> QED
            BY <3>2, <3>3
    <2>6. CASE /\ pendingBlocks' = [pendingBlocks EXCEPT ![m.height] = NoPeer]
               /\ blockStates[m.height] \in {"new", "pending"}
               /\ blockStates' = [blockStates EXCEPT ![m.height] = "received"]
               /\ receivedBlocks' = receivedBlocks \cup {m.height}
               /\ processorQueue' = processorQueue \cup {ReceivedBlock(m.from, m.height)}
        <3>1. /\ ReceivedBlock(m.from, m.height).type = "ReceivedBlock"
              /\ ReceivedBlock(m.from, m.height).height = m.height
            BY DEF ReceivedBlock
        <3>2. CASE h = m.height
            <4>1. Waiting(h)' = Waiting(h) \cup {ReceivedBlock(m.from, m.height)}
                BY <2>6, <3>1, <3>2 DEF Waiting
            <4>2. \E x : Waiting(h)' = Waiting(h) \cup {x}
                BY <4>1
            <4>3. Accepts(h)
                BY <1>0, <2>2, <2>3, <2>6, <3>2, <4>2 DEF Accepts
            <4> QED
                BY <4>3, Zenon DEF MovesOf
        <3>3. CASE h # m.height
            <4>1. Waiting(h)' = Waiting(h)
                BY <2>6, <3>1, <3>3 DEF Waiting
            <4> QED
                BY <1>0, <2>2, <2>3, <2>6, <3>3, <4>1, Zenon DEF MovesOf, Keeps, HeldKept
        <3> QED
            BY <3>2, <3>3
    <2> QED
        BY <1>1, <2>4, <2>5, <2>6 DEF HandleSyncedBlock
<1>2. ASSUME NEW m \in schedulerQueue, HandleProcessedBlockResp(m)
      PROVE  MovesOf(h)
    <2>1. m.height \in Height
        <3>1. m.type = "ProcessedBlock"
            BY <1>2 DEF HandleProcessedBlockResp
        <3> QED
            BY <3>1, MessageHeights
    <2>2. /\ m.type = "ProcessedBlock" /\ schedulerQueue' = schedulerQueue \ {m}
          /\ UNCHANGED <<queue, processorQueue, pendingBlocks>>
          /\ receivedBlocks' = receivedBlocks \ {m.height}
          /\ \E new \in {NoState, "new"} : blockStates' = [blockStates EXCEPT ![m.height] = new]
        BY <1>2, Zenon DEF HandleProcessedBlockResp, SchedulerTakes
    <2>3. Waiting(h)' = Waiting(h)
        BY <2>2 DEF Waiting
    <2>4. CASE h = m.height
        <3>1. m \in Reports(h) /\ Reports(h)' = Reports(h) \ {m}
            BY <2>2, <2>4 DEF Reports
        <3>2. blockStates'[h] \in {NoState, "new"}
            BY <1>0, <2>2, <2>4
        <3>3. HearsReport(h)
            BY <2>2, <2>3, <2>4, <3>1, <3>2 DEF HearsReport
        <3> QED
            BY <3>3 DEF MovesOf
    <2>5. CASE h # m.height
        <3>1. Reports(h)' = Reports(h)
            BY <2>2, <2>5 DEF Reports
        <3> QED
            BY <1>0, <2>2, <2>3, <2>5, <3>1 DEF MovesOf, Keeps, HeldKept
    <2> QED
        BY <2>4, <2>5
<1>3. ASSUME NEW m \in schedulerQueue, SchedulerStops(m)
      PROVE  MovesOf(h)
    <2>1. stops # 0
        BY <1>3 DEF SchedulerStops, NeverStopped
    <2>2. /\ m.type = "StopSync" /\ schedulerQueue' = schedulerQueue \ {m}
          /\ UNCHANGED <<queue, processorQueue>>
          /\ blockStates' = [k \in Height |-> NoState] /\ pendingBlocks' = [k \in Height |-> NoPeer]
          /\ receivedBlocks' = {}
        BY <1>3 DEF SchedulerStops, SchedulerTakes
    <2>3. HeldKept(h)
        BY <2>2 DEF HeldKept, Waiting, Reports
    <2> QED
        BY <2>1, <2>2, <2>3 DEF MovesOf, Stops
<1>4. ASSUME NEW m \in schedulerQueue, SchedulerStarts(m)
      PROVE  MovesOf(h)
    <2>1. /\ m.type = "StartSync" /\ schedulerQueue' = schedulerQueue \ {m}
          /\ UNCHANGED <<queue, processorQueue, blockStates, pendingBlocks, receivedBlocks>>
        BY <1>4 DEF SchedulerStarts, SchedulerTakes
    <2>2. HeldKept(h)
        BY <2>1, Zenon DEF HeldKept, Waiting, Reports
    <2> QED
        BY <1>k, <2>1, <2>2 DEF MovesOf
<1>5. ASSUME NEW m \in processorQueue, HandleReceivedBlockInfos(m)
      PROVE  MovesOf(h)
    <2>1. m.height \in Height /\ m.from # NoPeer
        BY <1>5, ConfType, SyncAssumption DEF SyncInv, MessagesInv, HandleReceivedBlockInfos, Height
    <2>2. /\ m.type = "ReceivedBlock" /\ processorQueue' = processorQueue \ {m}
          /\ UNCHANGED <<schedulerQueue, blockStates, pendingBlocks, receivedBlocks>>
          /\ queue' = IF m.height <= committed \/ queue[m.height] # NoPeer
                      THEN queue ELSE [queue EXCEPT ![m.height] = m.from]
        BY <1>5 DEF HandleReceivedBlockInfos, ProcessorTakes, schedulerVars
    <2>3. Reports(h)' = Reports(h)
        BY <2>2 DEF Reports
    <2>4. CASE h = m.height
        <3>1. m \in Waiting(h) /\ Waiting(h)' = Waiting(h) \ {m}
            BY <2>2, <2>4 DEF Waiting
        <3>2. queue'[h] = IF h <= committed \/ queue[h] # NoPeer THEN queue[h] ELSE m.from
            BY <1>0, <2>2, <2>4
        <3>3. Enqueues(h)
            BY <1>k, <2>1, <2>2, <2>3, <3>1, <3>2 DEF Enqueues
        <3> QED
            BY <3>3 DEF MovesOf
    <2>5. CASE h # m.height
        <3>1. Waiting(h)' = Waiting(h)
            BY <2>2, <2>5 DEF Waiting
        <3>2. queue'[h] = queue[h]
            BY <1>0, <2>2, <2>5
        <3> QED
            BY <1>k, <2>2, <2>3, <3>1, <3>2 DEF MovesOf, HeldKept
    <2> QED
        BY <2>4, <2>5
<1>6. ASSUME NEW m \in processorQueue, ProcessorStops(m)
      PROVE  MovesOf(h)
    <2>1. stops # 0
        BY <1>6 DEF ProcessorStops, NeverStopped
    <2>2. /\ m.type = "StopSync" /\ processorQueue' = processorQueue \ {m}
          /\ UNCHANGED <<schedulerQueue, blockStates, pendingBlocks, receivedBlocks>>
          /\ queue'[h] = NoPeer
        BY <1>6 DEF ProcessorStops, ProcessorTakes, schedulerVars
    <2>3. Waiting(h)' = Waiting(h) /\ Reports(h)' = Reports(h)
        BY <2>2 DEF Waiting, Reports
    <2> QED
        BY <1>k, <2>1, <2>2, <2>3 DEF MovesOf, Dequeues
<1>7. CASE HandleProcessBlock \/ ConsensusCommits
    BY <1>7 DEF HandleProcessBlock, ConsensusCommits, MovesOf, Keeps, HeldKept, Waiting, Reports,
                schedulerVars, queueVars
<1>8. CASE ProcessBlockEnds
    <2>1. /\ processing # NoHeight /\ processing \in Height /\ queue[processing] # NoPeer
          /\ UNCHANGED <<processorQueue, blockStates, pendingBlocks, receivedBlocks>>
          /\ queue' = [queue EXCEPT ![processing] = NoPeer]
        BY <1>0, <1>8 DEF ProcessBlockEnds, schedulerVars, SyncInv, MessagesInv
    <2>2. PICK status : schedulerQueue' = schedulerQueue
                                  \cup {ProcessedBlock(queue[processing], processing, status)}
        BY <1>8 DEF ProcessBlockEnds
    <2> DEFINE report == ProcessedBlock(queue[processing], processing, status)
    <2>3. report.type = "ProcessedBlock" /\ report.height = processing
        BY DEF ProcessedBlock
    <2>4. schedulerQueue' = schedulerQueue \cup {report}
        BY <2>2
    <2> HIDE DEF report
    <2>5. Waiting(h)' = Waiting(h)
        BY <2>1 DEF Waiting
    <2>6. CASE h = processing
        <3>1. Reports(h)' = Reports(h) \cup {report}
            BY <2>3, <2>4, <2>6 DEF Reports
        <3>2. Processes(h)
            BY <1>0, <1>k, <2>1, <2>5, <2>6, <3>1 DEF Processes
        <3> QED
            BY <3>2 DEF MovesOf
    <2>7. CASE h # processing
        <3>1. Reports(h)' = Reports(h)
            BY <2>3, <2>4, <2>7 DEF Reports
        <3> QED
            BY <1>0, <1>k, <2>1, <2>5, <2>7, <3>1 DEF MovesOf, HeldKept
    <2> QED
        BY <2>6, <2>7, Zenon
<1>9. CASE ProcessorDataDetection
    <2>1. /\ UNCHANGED <<schedulerQueue, processorQueue, blockStates, pendingBlocks, receivedBlocks>>
          /\ queue'[h] = IF h <= committed THEN NoPeer ELSE queue[h]
        BY <1>9 DEF ProcessorDataDetection, schedulerVars, queueVars
    <2>2. Waiting(h)' = Waiting(h) /\ Reports(h)' = Reports(h)
        BY <2>1 DEF Waiting, Reports
    <2>3. CASE h <= committed
        BY <1>k, <2>1, <2>2, <2>3, Zenon DEF MovesOf, Dequeues
    <2>4. CASE ~(h <= committed)
        BY <1>k, <2>1, <2>2, <2>4, Zenon DEF MovesOf, HeldKept
    <2> QED
        BY <2>3, <2>4
<1>10. ASSUME NEW p \in Peer, NEW k \in Height, HandleBlockReq(p, k)
       PROVE  MovesOf(h)
    <2>1. /\ UNCHANGED <<processorQueue, queue, blockStates, pendingBlocks, receivedBlocks>>
          /\ \E got : schedulerQueue' = schedulerQueue \cup {SyncedBlock(p, j) : j \in got}
        BY <1>10, Zenon DEF HandleBlockReq, schedulerVars
    <2>2. \A j : SyncedBlock(p, j).type # "ProcessedBlock"
        BY DEF SyncedBlock
    <2>3. Reports(h)' = Reports(h)
        BY <2>1, <2>2 DEF Reports
    <2> QED
        BY <1>k, <2>1, <2>3 DEF MovesOf, HeldKept, Waiting
<1>11. CASE StopBlockSync \/ StartBlockSync
    <2>1. /\ UNCHANGED <<queue, blockStates, pendingBlocks, receivedBlocks>>
          /\ schedulerQueue' \in {schedulerQueue \cup {Control(t)} : t \in {"StopSync", "StartSync"}}
          /\ processorQueue' \in {processorQueue, processorQueue \cup {Control("StopSync")}}
        BY <1>11, Zenon DEF StopBlockSync, StartBlockSync, schedulerVars
    <2>2. \A t : Control(t).type = t
        BY DEF Control
    <2>3. Reports(h)' = Reports(h)
        BY <2>1, <2>2 DEF Reports
    <2>4. Waiting(h)' = Waiting(h)
        BY <2>1, <2>2, Zenon DEF Waiting
    <2> QED
        BY <1>k, <2>1, <2>3, <2>4 DEF MovesOf, HeldKept
<1>12. CASE UNCHANGED syncVars
    BY <1>12 DEF syncVars, MovesOf, Keeps, HeldKept, Waiting, Reports, schedulerVars, queueVars
<1> QED
    BY <1>1, <1>2, <1>3, <1>4, <1>5, <1>6, <1>7, <1>8, <1>9, <1>10, <1>11, <1>12 DEF SyncNext, Tick

\* Only StopBlockSync sends a StopSync.
LEMMA NextNeverStopped ==
    ASSUME SyncInv, NeverStopped, [SyncNext]_syncVars
    PROVE  NeverStopped'
<1> SUFFICES ASSUME stops' = 0
             PROVE  \A m \in schedulerQueue' \cup processorQueue' : m.type # "StopSync"
    BY DEF NeverStopped
<1>0. stops = 0 /\ \A m \in schedulerQueue \cup processorQueue : m.type # "StopSync"
    BY CommonStep DEF NeverStopped
<1>1. CASE Tick
    BY <1>0, <1>1, TickKeeps
<1>2. ASSUME NEW m \in schedulerQueue, HandleSyncedBlock(m)
      PROVE  \A x \in schedulerQueue' \cup processorQueue' : x.type # "StopSync"
    <2>1. /\ schedulerQueue' \subseteq schedulerQueue
          /\ processorQueue' \in {processorQueue, processorQueue \cup {ReceivedBlock(m.from, m.height)}}
        BY <1>2 DEF HandleSyncedBlock, SchedulerTakes
    <2>2. ReceivedBlock(m.from, m.height).type # "StopSync"
        BY Zenon DEF ReceivedBlock
    <2> QED
        BY <1>0, <2>1, <2>2
<1>3. ASSUME NEW m \in schedulerQueue, HandleProcessedBlockResp(m) \/ SchedulerStops(m) \/ SchedulerStarts(m)
      PROVE  \A x \in schedulerQueue' \cup processorQueue' : x.type # "StopSync"
    BY <1>0, <1>3 DEF HandleProcessedBlockResp, SchedulerStops, SchedulerStarts, SchedulerTakes
<1>4. ASSUME NEW m \in processorQueue, HandleReceivedBlockInfos(m) \/ ProcessorStops(m)
      PROVE  \A x \in schedulerQueue' \cup processorQueue' : x.type # "StopSync"
    BY <1>0, <1>4 DEF HandleReceivedBlockInfos, ProcessorStops, ProcessorTakes
<1>5. CASE HandleProcessBlock \/ ProcessorDataDetection \/ ConsensusCommits
    BY <1>0, <1>5 DEF HandleProcessBlock, ProcessorDataDetection, ConsensusCommits, queueVars
<1>6. CASE ProcessBlockEnds
    <2>1. PICK status : schedulerQueue' = schedulerQueue
                                  \cup {ProcessedBlock(queue[processing], processing, status)}
        BY <1>6 DEF ProcessBlockEnds
    <2>2. ProcessedBlock(queue[processing], processing, status).type # "StopSync"
        BY DEF ProcessedBlock
    <2>3. processorQueue' = processorQueue
        BY <1>6 DEF ProcessBlockEnds
    <2> QED
        BY <1>0, <2>1, <2>2, <2>3
<1>7. ASSUME NEW p \in Peer, NEW k \in Height, HandleBlockReq(p, k)
      PROVE  \A x \in schedulerQueue' \cup processorQueue' : x.type # "StopSync"
    <2>1. /\ processorQueue' = processorQueue
          /\ \E got : schedulerQueue' = schedulerQueue \cup {SyncedBlock(p, j) : j \in got}
        BY <1>7 DEF HandleBlockReq
    <2>2. \A j : SyncedBlock(p, j).type # "StopSync"
        BY DEF SyncedBlock
    <2> QED
        BY <1>0, <2>1, <2>2, Zenon
<1>8. CASE StartBlockSync
    BY <1>0, <1>8 DEF StartBlockSync, Control
<1>9. CASE StopBlockSync
    <2>1. stops \in Nat /\ stops' = stops + 1
        BY <1>9, StopsAreNat DEF StopBlockSync
    <2> QED
        BY <2>1
<1>10. CASE UNCHANGED syncVars
    BY <1>0, <1>10 DEF syncVars, queueVars
<1> QED
    BY <1>1, <1>2, <1>3, <1>4, <1>5, <1>6, <1>7, <1>8, <1>9, <1>10 DEF SyncNext, Tick

\* A tick moves no block.
LEMMA TickHolds ==
    ASSUME Tick, NEW h
    PROVE  HeldKept(h) /\ committed' = committed /\ stops' = stops
BY TickKeeps DEF HeldKept, Waiting, Reports

LEMMA NextHeldInv ==
    ASSUME SyncInv, HeldInv, [SyncNext]_syncVars
    PROVE  HeldInv'
<1>1. NeverStopped'
    BY NextNeverStopped DEF HeldInv
<1>2. ReceivedIsHeld'
    <2> SUFFICES ASSUME stops' = 0, NEW h \in Height, blockStates'[h] = "received", h > committed'
                 PROVE  Held(h)'
        BY DEF ReceivedIsHeld
    <2>0. /\ stops = 0 /\ h \in Nat /\ committed \in Nat /\ h > committed
          /\ blockStates[h] = "received" => Held(h)
        <3>1. /\ stops = 0 /\ committed' >= committed /\ committed \in Nat /\ committed' \in Nat
              /\ Height \subseteq Nat
            BY HeightGrows, HeightsAreNat
        <3>2. h > committed
            BY <3>1
        <3> QED
            BY <3>1, <3>2 DEF HeldInv, ReceivedIsHeld
    <2>1. CASE Tick
        BY <2>0, <2>1, TickHolds, TickReceivesNothing, Zenon DEF HeldKept, Held
    <2>2. CASE ~Tick
        <3>1. MovesOf(h)
            BY <2>2, OtherSteps DEF HeldInv
        <3>2. CASE Keeps(h) /\ HeldKept(h)
            BY <2>0, <3>2, Zenon DEF Keeps, HeldKept, Held
        <3>3. CASE Accepts(h) \/ Processes(h)
            BY <3>3 DEF Accepts, Processes, Held
        <3>4. CASE Refuses(h)
            BY <2>0, <3>4 DEF Refuses, HeldKept, Held
        <3>5. CASE HearsReport(h) \/ Stops(h)
            BY <2>0, <3>5 DEF HearsReport, Stops, NoState
        <3>6. CASE Enqueues(h)
            <4>1. h \in Nat /\ committed \in Nat
                BY <2>0
            <4>2. queue'[h] # NoPeer
                BY <2>0, <3>6, <4>1 DEF Enqueues
            <4> QED
                BY <4>2 DEF Held
        <3>7. CASE Dequeues(h)
            <4>1. h \in Nat /\ committed \in Nat
                BY <2>0
            <4> QED
                BY <2>0, <3>7, <4>1 DEF Dequeues
        <3> QED
            BY <3>1, <3>2, <3>3, <3>4, <3>5, <3>6, <3>7 DEF MovesOf
    <2> QED
        BY <2>1, <2>2
<1> QED
    BY <1>1, <1>2 DEF HeldInv

-----------------------------------------------------------------------------
(* A pending request is tracked.                                           *)

TrackedAt(h) ==
    /\ pendingBlocks[h] # NoPeer => blockStates[h] \notin {NoState, "new"}
    /\ Held(h) => pendingBlocks[h] = NoPeer
    /\ h > committed =>
        /\ Held(h) => blockStates[h] = "received"
        /\ \A m \in Waiting(h) : Waiting(h) = {m} /\ queue[h] = NoPeer /\ Reports(h) = {}
        /\ queue[h] # NoPeer => Reports(h) = {}
        /\ \A m \in Reports(h) : Reports(h) = {m}

LEMMA NextTrackedInv ==
    ASSUME SyncInv, HeldInv, TrackedInv, [SyncNext]_syncVars
    PROVE  TrackedInv'
<1> SUFFICES ASSUME stops' = 0, conf'.batchSize = 1, NEW h \in Height
             PROVE  TrackedAt(h)'
    BY Zenon DEF TrackedInv, TrackedAt
<1>0. stops = 0 /\ conf.batchSize = 1 /\ (h > committed' => h > committed)
      /\ h \in Nat /\ committed \in Nat /\ committed' \in Nat
    <2>1. /\ stops = 0 /\ conf' = conf /\ committed' >= committed /\ committed \in Nat /\ committed' \in Nat
          /\ Height \subseteq Nat
        BY HeightGrows, HeightsAreNat
    <2> QED
        BY <2>1
<1>t. TrackedAt(h)
    BY <1>0 DEF TrackedInv, TrackedAt
<1>1. CASE Tick
    <2>1. HeldKept(h) /\ committed' = committed
        BY <1>1, TickHolds, Zenon
    <2>2. Held(h)' <=> Held(h)
        BY <2>1 DEF HeldKept, Held
    <2>3. CASE Keeps(h)
        BY <1>t, <2>1, <2>2, <2>3, Zenon DEF Keeps, TrackedAt, HeldKept
    <2>4. CASE Clears(h)
        <3>1. pendingBlocks'[h] = NoPeer
            BY <2>4 DEF Clears
        <3>2. ~(h > committed')
            BY <1>0, <2>1, <2>4 DEF Clears
        <3> QED
            BY <3>1, <3>2, Zenon DEF TrackedAt
    <2>5. CASE Adds(h)
        BY <1>t, <2>1, <2>2, <2>5, Zenon DEF Adds, TrackedAt, HeldKept, NoState
    <2>6. CASE Asks(h)
        <3>1. ~Held(h)
            BY <1>t, <2>6, Zenon DEF Asks, TrackedAt, NoState
        <3> QED
            BY <2>1, <2>2, <2>6, <3>1, Zenon DEF Asks, TrackedAt, HeldKept, Held, NoState
    <2>7. CASE Forgets(h)
        <3>1. pendingBlocks'[h] = NoPeer
            BY <1>t, <2>7, Zenon DEF Forgets, TrackedAt
        <3>2. ~(h > committed')
            BY <1>0, <2>1, <2>7 DEF Forgets
        <3> QED
            BY <3>1, <3>2, Zenon DEF TrackedAt
    <2>8. CASE TimesOut(h)
        <3>1. ~Held(h)
            BY <1>t, <2>8, Zenon DEF TimesOut, TrackedAt
        <3> QED
            BY <2>1, <2>2, <2>8, <3>1, Zenon DEF TimesOut, TrackedAt, HeldKept, Held
    <2> QED
        BY <1>0, <1>1, <2>3, <2>4, <2>5, <2>6, <2>7, <2>8, TickEffect
<1>2. CASE ~Tick
    <2>1. MovesOf(h)
        BY <1>2, OtherSteps DEF HeldInv
    <2>2. CASE Keeps(h) /\ HeldKept(h)
        <3>1. Held(h)' <=> Held(h)
            BY <2>2, Zenon DEF HeldKept, Held
        <3> QED
            BY <1>0, <1>t, <2>2, <3>1, Zenon DEF Keeps, HeldKept, TrackedAt
    <2>3. CASE Accepts(h)
        <3>1. pendingBlocks'[h] = NoPeer /\ blockStates'[h] = "received"
            BY <2>3 DEF Accepts
        <3>2. ASSUME h > committed
              PROVE  Waiting(h) = {} /\ queue[h] = NoPeer /\ Reports(h) = {}
            BY <1>t, <2>3, <3>2, Zenon DEF Accepts, TrackedAt, Held
        <3> QED
            BY <1>0, <2>3, <3>1, <3>2, Zenon DEF Accepts, TrackedAt
    <2>4. CASE Refuses(h)
        <3>1. Held(h)' <=> Held(h)
            BY <2>4, Zenon DEF Refuses, HeldKept, Held
        <3> QED
            BY <1>0, <1>t, <2>4, <3>1, Zenon DEF Refuses, HeldKept, TrackedAt
    <2>5. CASE HearsReport(h)
        <3>1. pendingBlocks'[h] = NoPeer
            BY <1>t, <2>5, Zenon DEF HearsReport, TrackedAt, Held
        <3>2. ASSUME h > committed
              PROVE  Waiting(h)' = {} /\ queue'[h] = NoPeer /\ Reports(h)' = {}
            BY <1>t, <2>5, <3>2, Zenon DEF HearsReport, TrackedAt
        <3> QED
            BY <1>0, <3>1, <3>2, Zenon DEF TrackedAt, Held
    <2>6. CASE Stops(h)
        BY <1>0, <2>6 DEF Stops
    <2>7. CASE Enqueues(h)
        <3>1. Keeps(h) /\ pendingBlocks'[h] = NoPeer
            BY <1>t, <2>7, Zenon DEF Enqueues, Keeps, TrackedAt, Held
        <3>2. ASSUME h > committed
              PROVE  blockStates'[h] = "received" /\ Waiting(h)' = {} /\ Reports(h)' = {}
            BY <1>t, <2>7, <3>2, Zenon DEF Enqueues, Keeps, TrackedAt, Held
        <3> QED
            BY <1>0, <3>1, <3>2, Zenon DEF TrackedAt
    <2>8. CASE Dequeues(h)
        <3>1. Held(h)' => Held(h)
            BY <2>8, Zenon DEF Dequeues, Held
        <3> QED
            BY <1>0, <1>t, <2>8, <3>1, Zenon DEF Dequeues, Keeps, TrackedAt
    <2>9. CASE Processes(h)
        <3>1. Keeps(h) /\ pendingBlocks'[h] = NoPeer
            BY <1>t, <2>9, Zenon DEF Processes, Keeps, TrackedAt, Held
        <3>2. ASSUME h > committed
              PROVE  blockStates'[h] = "received" /\ Waiting(h)' = {} /\ Reports(h) = {}
            BY <1>t, <2>9, <3>2 DEF Processes, Keeps, TrackedAt, Held
        <3> QED
            BY <1>0, <2>9, <3>1, <3>2, Zenon DEF TrackedAt, Processes
    <2> QED
        BY <2>1, <2>2, <2>3, <2>4, <2>5, <2>6, <2>7, <2>8, <2>9 DEF MovesOf
<1> QED
    BY <1>1, <1>2

-----------------------------------------------------------------------------
(* What is followed is within the pool.                                    *)

PoolAt(h) ==
    /\ h \in receivedBlocks => blockStates[h] = "received"
    /\ blockStates[h] = "received" => pendingBlocks[h] = NoPeer
    /\ blockStates[h] # NoState \/ Held(h) => h <= committed + MaxPendingBlocks

LEMMA NextPoolInv ==
    ASSUME SyncInv, NeverStopped, PoolInv, [SyncNext]_syncVars
    PROVE  PoolInv'
<1> SUFFICES ASSUME conf'.batchSize = 1, NEW h \in Height
             PROVE  PoolAt(h)'
    BY Zenon DEF PoolInv, PoolAt
<1>0. /\ conf.batchSize = 1
      /\ h <= committed + MaxPendingBlocks => h <= committed' + MaxPendingBlocks
      /\ h <= committed + 1 => h <= committed' + MaxPendingBlocks
      /\ h < committed => h <= committed' + MaxPendingBlocks
    <2>1. /\ conf' = conf /\ committed' >= committed /\ committed \in Nat /\ committed' \in Nat
          /\ Height \subseteq Nat /\ MaxPendingBlocks \in Nat \ {0}
        BY HeightGrows, HeightsAreNat, SyncAssumption
    <2>2. \A k, c, d \in Nat, n \in Nat \ {0} :
              d >= c => /\ k <= c + n => k <= d + n
                        /\ k <= c + 1 => k <= d + n
                        /\ k < c => k <= d + n
        OBVIOUS
    <2>3. h \in Nat
        BY <2>1
    <2> QED
        BY <2>1, <2>2, <2>3, Zenon
<1>p. PoolAt(h)
    BY <1>0 DEF PoolInv, PoolAt
<1>1. CASE Tick
    <2>1. Held(h)' <=> Held(h)
        BY <1>1, TickHolds DEF HeldKept, Held
    <2>3. CASE Keeps(h)
        BY <1>0, <1>p, <2>1, <2>3 DEF Keeps, PoolAt
    <2>4. CASE Clears(h)
        BY <1>0, <2>4 DEF Clears, PoolAt, NoState
    <2>5. CASE Adds(h)
        BY <1>0, <1>p, <2>5, Zenon DEF Adds, PoolAt, NoState
    <2>6. CASE Asks(h)
        <3>1. h \in Nat /\ committed \in Nat
            BY ConfType, HeightsAreNat DEF SyncInv
        <3>2. h <= committed' + MaxPendingBlocks
            BY <1>0, <1>p, <2>6, <3>1 DEF Asks, PoolAt, NoState
        <3> QED
            BY <1>p, <2>6, <3>2 DEF Asks, PoolAt, NoState
    <2>7. CASE Forgets(h)
        BY <1>0, <1>p, <2>1, <2>7, Zenon DEF Forgets, PoolAt, NoState
    <2>8. CASE TimesOut(h)
        BY <1>0, <1>p, <2>8 DEF TimesOut, PoolAt
    <2> QED
        BY <1>0, <1>1, <2>3, <2>4, <2>5, <2>6, <2>7, <2>8, TickEffect
<1>2. CASE ~Tick
    <2>1. MovesOf(h)
        BY <1>2, OtherSteps
    <2>2. CASE Keeps(h) /\ HeldKept(h)
        BY <1>0, <1>p, <2>2, Zenon DEF Keeps, HeldKept, PoolAt, Held
    <2>3. CASE Accepts(h)
        BY <1>0, <1>p, <2>3, Zenon DEF Accepts, PoolAt, NoState
    <2>4. CASE Refuses(h)
        BY <1>0, <1>p, <2>4, Zenon DEF Refuses, HeldKept, PoolAt, Held
    <2>5. CASE HearsReport(h)
        BY <1>0, <1>p, <2>5, Zenon DEF HearsReport, PoolAt, Held, NoState
    <2>6. CASE Stops(h)
        BY <1>0, <1>p, <2>6, Zenon DEF Stops, HeldKept, PoolAt, Held, NoState
    <2>7. CASE Enqueues(h)
        BY <1>0, <1>p, <2>7, Zenon DEF Enqueues, Keeps, PoolAt, Held
    <2>8. CASE Dequeues(h)
        BY <1>0, <1>p, <2>8, Zenon DEF Dequeues, Keeps, PoolAt, Held
    <2>9. CASE Processes(h)
        BY <1>0, <1>p, <2>9, Zenon DEF Processes, Keeps, PoolAt, Held
    <2> QED
        BY <2>1, <2>2, <2>3, <2>4, <2>5, <2>6, <2>7, <2>8, <2>9 DEF MovesOf
<1> QED
    BY <1>1, <1>2, Zenon

\* Of the heights from the ledger's on that the pool has room for, one is not received.
LEMMA PoolHasRoom ==
    ASSUME SyncInv, PoolInv
    PROVE  NextIsAccepted
<1> SUFFICES ASSUME conf.batchSize = 1, committed < ChainHeight, blockStates[committed + 1] # "received"
             PROVE  Cardinality({h \in receivedBlocks : h >= committed}) <= MaxPendingBlocks
    BY Zenon DEF NextIsAccepted
<1> DEFINE waiting == {h \in receivedBlocks : h >= committed}
           room == (committed..(committed + MaxPendingBlocks)) \ {committed + 1}
<1>0. /\ committed \in Nat /\ MaxPendingBlocks \in Nat \ {0}
      /\ receivedBlocks \subseteq Height /\ Height \subseteq Nat
    BY ConfType, HeightsAreNat, SyncAssumption DEF SyncInv, SyncTypeOK
<1>1. waiting \subseteq room
    <2> SUFFICES ASSUME NEW h \in receivedBlocks, h >= committed PROVE h \in room
        OBVIOUS
    <2>1. h \in Height /\ h \in Nat
        BY <1>0
    <2>2. blockStates[h] = "received" /\ h <= committed + MaxPendingBlocks
        BY <2>1 DEF PoolInv, NoState
    <2>3. h # committed + 1
        BY <2>2
    <2> QED
        BY <1>0, <2>1, <2>2, <2>3
<1>2. /\ IsFiniteSet(committed..(committed + MaxPendingBlocks))
      /\ Cardinality(committed..(committed + MaxPendingBlocks)) = MaxPendingBlocks + 1
    <2>1. committed \in Int /\ committed + MaxPendingBlocks \in Int
          /\ committed <= committed + MaxPendingBlocks
        BY <1>0
    <2>2. (committed + MaxPendingBlocks) - committed + 1 = MaxPendingBlocks + 1
        BY <1>0
    <2>3. \A a, b \in Int : IsFiniteSet(a..b) /\ Cardinality(a..b) = IF a > b THEN 0 ELSE b - a + 1
        BY FS_Interval
    <2>4. ~(committed > committed + MaxPendingBlocks)
        BY <1>0
    <2> HIDE DEF waiting, room
    <2> QED
        BY <2>1, <2>2, <2>3, <2>4
<1>3. committed + 1 \in committed..(committed + MaxPendingBlocks)
    BY <1>0
<1>4. IsFiniteSet(room) /\ Cardinality(room) = MaxPendingBlocks
    <2>1. IsFiniteSet(room) /\ Cardinality(room) = (MaxPendingBlocks + 1) - 1
        BY <1>2, <1>3, FS_RemoveElement, Zenon
    <2> QED
        BY <1>0, <2>1
<1>5. Cardinality(waiting) <= Cardinality(room)
    BY <1>1, <1>4, FS_Subset
<1> QED
    BY <1>4, <1>5

-----------------------------------------------------------------------------
(* The theorems.                                                           *)

LEMMA SyncStarts ==
    ASSUME SyncInit
    PROVE  SyncInv /\ ArchiveInv /\ HeldInv /\ TrackedInv /\ PoolInv
<1>0. /\ TopHeight \in Nat /\ 1 \in Height /\ TopHeight + 1 \in Height /\ 0 \in 0..TopHeight
      /\ -1 \in -1..TopHeight
    BY SyncAssumption DEF Height
<1>1. conf \in SyncConfigs /\ conf.heights \in [Peer -> -1..TopHeight]
      /\ conf.faults \in Nat /\ conf.stops \in Nat
    BY SyncAssumption DEF SyncInit
<1>2. 0 \in 0..conf.faults /\ 0 \in 0..conf.stops
    BY <1>1
<1>3. SyncTypeOK
    <2>1. peers \in [Peer -> -1..TopHeight]
        BY <1>0 DEF SyncInit
    <2>2. stopSyncBlock \in BOOLEAN /\ minLagReached \in BOOLEAN
        BY Zenon DEF SyncInit
    <2> QED
        BY <1>0, <1>1, <1>2, <2>1, <2>2 DEF SyncInit, SyncTypeOK, BlockState
<1>4. MessagesInv
    <2>1. \A p \in Peer : peers[p] <= conf.heights[p]
        BY <1>0, <1>1 DEF SyncInit
    <2> QED
        BY <1>0, <2>1 DEF SyncInit, MessagesInv
<1>5. ArchiveInv
    BY Zenon DEF SyncInit, ArchiveInv, RequestsServable
<1>6. \A h \in Height : ~Held(h) /\ blockStates[h] = NoState /\ pendingBlocks[h] = NoPeer
                        /\ Waiting(h) = {} /\ Reports(h) = {} /\ queue[h] = NoPeer
    BY Zenon DEF SyncInit, Held, Waiting, Reports
<1>7. HeldInv
    BY <1>6, Zenon DEF HeldInv, NeverStopped, ReceivedIsHeld, SyncInit, NoState
<1>8. TrackedInv
    BY <1>6 DEF TrackedInv
<1>9. PoolInv
    BY <1>6 DEF PoolInv, SyncInit, NoState
<1> QED
    BY <1>3, <1>4, <1>5, <1>7, <1>8, <1>9 DEF SyncInv

LEMMA SyncStays ==
    ASSUME SyncInv /\ ArchiveInv /\ HeldInv /\ TrackedInv /\ PoolInv, [SyncNext]_syncVars
    PROVE  (SyncInv /\ ArchiveInv /\ HeldInv /\ TrackedInv /\ PoolInv)'
BY NextSyncInv, NextArchiveInv, NextHeldInv, NextTrackedInv, NextPoolInv DEF HeldInv

\* The service's variables keep their types, the ledger's height never passes the bound of
\* the chain, and every message carries a height and a peer its handler can use.
THEOREM SyncTypeCorrect == SyncSpec => []SyncTypeOK
<1>1. SyncInv => SyncTypeOK
    BY DEF SyncInv
<1> QED
    BY <1>1, SyncStarts, SyncStays, PTL DEF SyncSpec

\* Whatever consensus commits meanwhile, and whatever the network loses or repeats, a height
\* marked as received in the scheduler's blockStates has its block with the processor, or
\* the result on its way back.
THEOREM ReceivedStaysHeld == SyncSpec => []ReceivedIsHeld
<1>1. HeldInv => ReceivedIsHeld
    BY DEF HeldInv
<1> QED
    BY <1>1, SyncStarts, SyncStays, PTL DEF SyncSpec

\* Every request handleScheduleMsg sends is for a height the peer has and has not archived.
THEOREM RequestsAreServable == SyncSpec => []RequestsServable
<1>1. ArchiveInv => RequestsServable
    BY DEF ArchiveInv
<1> QED
    BY <1>1, SyncStarts, SyncStays, PTL DEF SyncSpec

\* No height has a pending request that clearLaggingRequest would not find.
THEOREM PendingStaysTracked == SyncSpec => []PendingIsTracked
<1>1. TrackedInv => PendingIsTracked
    BY DEF TrackedInv, PendingIsTracked
<1> QED
    BY <1>1, SyncStarts, SyncStays, PTL DEF SyncSpec

\* handleSyncedBlockMsg has room for the next block of the chain, for every size of the pool.
THEOREM NextStaysAccepted == SyncSpec => []NextIsAccepted
<1>1. SyncInv /\ PoolInv => NextIsAccepted
    BY PoolHasRoom
<1> QED
    BY <1>1, SyncStarts, SyncStays, PTL DEF SyncSpec
=============================================================================
