----------------------------- MODULE BlockSync ------------------------------
(***************************************************************************)
(* Block synchronisation: the scheduler that requests the blocks of the    *)
(* heights a node lacks, the processor that verifies and commits what      *)
(* arrives, their priority queues, the loop between them, the peers that   *)
(* answer, and a network that loses, delays and duplicates.  Consensus     *)
(* commits blocks at the same time, and may stop and restart the service.  *)
(*                                                                         *)
(* A tick of the loop is handled at any time its priority allows, and a    *)
(* wait for a period may end at any time: clocks are left out.             *)
(***************************************************************************)
EXTENDS Integers, FiniteSets, FiniteSetsExt

CONSTANTS
    Peer, NoPeer,
    TopHeight,          \* bound: the greatest height of a chain
    ArchivedHeight,     \* [Peer -> Nat]: what each peer has archived
    MaxPendingBlocks,   \* blockPoolSize
    MinLagThreshold,    \* thresholdBlocks
    MaxInFlight,        \* bound: messages in the network, the others are lost
    SyncConfigs         \* the instances: the height each peer has, -1 if it cannot be reached;
                        \* BatchesizeInEachReq; whether the peers broadcast their height
                        \* (broadcastStatusPerBlocksCommitted > 0); and bounds: how often,
                        \* in one behaviour, the network, a timer or a verification may
                        \* go wrong, and StopBlockSync may be called

ASSUME SyncAssumption ==
    /\ NoPeer \notin Peer
    /\ TopHeight \in Nat /\ ArchivedHeight \in [Peer -> Nat]
    /\ MaxPendingBlocks \in Nat \ {0} /\ MinLagThreshold \in Nat
    /\ MaxInFlight \in Nat
    /\ SyncConfigs \subseteq [heights : [Peer -> -1..TopHeight], batchSize : Nat \ {0},
                           broadcasts : BOOLEAN, faults : Nat, stops : Nat]

Height == 1..(TopHeight + 1)
NoHeight == 0
NoState == "none"
BlockState == {NoState, "new", "pending", "received"}

VARIABLES
    conf, committed,    \* the instance; the ledger cache's last committed height
    peers,              \* [Peer -> Int]: the scheduler's view, -1 for a peer it does not know
    blockStates,        \* [Height -> BlockState]
    pendingBlocks,      \* [Height -> Peer or NoPeer]; pendingTime has the same keys
    receivedBlocks,     \* the heights of receivedBlocks
    pendingRecvHeight,
    stopSyncBlock,
    schedulerQueue,     \* the messages each routine has to handle; what a handler puts out
    processorQueue,     \* is passed on by loop before the routine goes on
    queue,              \* [Height -> Peer or NoPeer]: the processor's queue
    processing,         \* the height being verified and committed, or NoHeight
    requests,           \* the <<peer, height>> sent whose answer is on its way
    minLagReached,      \* consensus, waiting for minLagReachC, has been signalled
    faults, stops

schedulerVars == <<peers, blockStates, pendingBlocks, receivedBlocks, pendingRecvHeight, stopSyncBlock>>
queueVars == <<schedulerQueue, processorQueue>>
boundVars == <<conf, faults, stops>>
syncVars == <<committed, schedulerVars, queueVars, queue, processing, requests, minLagReached, boundVars>>

\* Messages, with the priority level of their type.
SyncedBlock(p, h) == [type |-> "SyncedBlock", level |-> 2, from |-> p, height |-> h, status |-> "none"]
ReceivedBlock(p, h) == [type |-> "ReceivedBlock", level |-> 3, from |-> p, height |-> h, status |-> "none"]
ProcessedBlock(p, h, s) == [type |-> "ProcessedBlock", level |-> 3, from |-> p, height |-> h, status |-> s]
Control(type) == [type |-> type, level |-> 1, from |-> NoPeer, height |-> NoHeight, status |-> "none"]

SyncMsg == [type : {"SyncedBlock", "ReceivedBlock", "ProcessedBlock", "StopSync", "StartSync"},
            level : 1..3, from : Peer \cup {NoPeer}, height : 0..(TopHeight + 1),
            status : {"none", "ok", "addErr", "hasProcessed", "validateFailed"}]

SyncTypeOK ==
    /\ committed \in 0..TopHeight
    /\ peers \in [Peer -> -1..TopHeight]
    /\ blockStates \in [Height -> BlockState]
    /\ pendingBlocks \in [Height -> Peer \cup {NoPeer}]
    /\ receivedBlocks \subseteq Height
    /\ pendingRecvHeight \in Height /\ stopSyncBlock \in BOOLEAN
    /\ schedulerQueue \subseteq SyncMsg /\ processorQueue \subseteq SyncMsg
    /\ queue \in [Height -> Peer \cup {NoPeer}]
    /\ processing \in Height \cup {NoHeight}
    /\ requests \subseteq Peer \X Height
    /\ minLagReached \in BOOLEAN
    /\ conf \in SyncConfigs /\ faults \in 0..conf.faults /\ stops \in 0..conf.stops

SyncInit ==
    /\ committed = 0
    /\ peers = [p \in Peer |-> -1]
    /\ blockStates = [h \in Height |-> NoState]
    /\ pendingBlocks = [h \in Height |-> NoPeer]
    /\ receivedBlocks = {} /\ pendingRecvHeight = 1 /\ stopSyncBlock = FALSE
    /\ schedulerQueue = {} /\ processorQueue = {}
    /\ queue = [h \in Height |-> NoPeer] /\ processing = NoHeight
    /\ requests = {}
    /\ minLagReached = FALSE
    /\ conf \in SyncConfigs /\ faults = 0 /\ stops = 0

-----------------------------------------------------------------------------
(* Routines and queues *)

ChainHeight == Max({0} \cup {conf.heights[p] : p \in Peer})

\* What goes wrong is paid from the conf.
Pays(wrong) ==
    IF wrong THEN faults < conf.faults /\ faults' = faults + 1 ELSE UNCHANGED faults

\* A message of this level is next: nothing of a higher level waits.
IsNext(msgs, level) == \A m \in msgs : m.level <= level

\* The handler of a tick, or of a status message: all of the lowest level.
SchedulerTick == IsNext(schedulerQueue, 1)

SchedulerTakes(m) ==
    /\ m \in schedulerQueue /\ IsNext(schedulerQueue, m.level)
    /\ schedulerQueue' = schedulerQueue \ {m}

ProcessorTakes(m) ==
    /\ processing = NoHeight /\ m \in processorQueue /\ IsNext(processorQueue, m.level)
    /\ processorQueue' = processorQueue \ {m}

-----------------------------------------------------------------------------
(* The scheduler *)

IsPeerArchivedTooHeight(localHeight, archived) == archived # 0 /\ localHeight <= archived

MaxHeight == Max({0} \cup {peers[p] : p \in Peer})

States(bs) == {h \in Height : bs[h] # NoState}

\* Mutant: < for <=.
LagIsSmaller == MaxHeight >= committed /\ MaxHeight - committed < MinLagThreshold

\* maxHeight - currBlockHeight is a difference of uint64: it wraps when the node is ahead.
LagIsSmall == MaxHeight >= committed /\ MaxHeight - committed <= MinLagThreshold

\* A send that nobody waits for is skipped; before thresholdTime nothing is sent.
ReceiveMajorityBlocks ==
    \/ ~ stopSyncBlock /\ LagIsSmall /\ minLagReached' = TRUE
    \/ UNCHANGED minLagReached

\* Mutant: no bound on the heights followed.
AddAllBlocks(peerHeight) ==
    [h \in Height |-> IF h >= pendingRecvHeight /\ h <= peerHeight /\ blockStates[h] = NoState
                      THEN "new" ELSE blockStates[h]]

\* The heights from pendingRecvHeight on, in order, while there is room for one more.
AddPendingBlocks(peerHeight) ==
    LET missing == {h \in Height : /\ h >= pendingRecvHeight /\ h <= peerHeight
                                   /\ h < pendingRecvHeight + MaxPendingBlocks
                                   /\ blockStates[h] = NoState}
        Room(h) == Cardinality(States(blockStates)) + Cardinality({k \in missing : k < h}) <= MaxPendingBlocks
    IN  IF Cardinality(States(blockStates)) >= MaxPendingBlocks \/ committed >= peerHeight
        THEN blockStates
        ELSE [h \in Height |-> IF h \in missing /\ Room(h) THEN "new" ELSE blockStates[h]]

\* A status of peer p.  The answer to a status request carries the archived height,
\* a broadcast carries none.
HandleNodeStatus(p, height, archived) ==
    LET tooHigh == IsPeerArchivedTooHeight(committed, archived)
    IN  /\ SchedulerTick
        /\ IF peers[p] # -1 /\ (peers[p] > height \/ tooHigh)
           THEN peers' = [peers EXCEPT ![p] = -1] /\ UNCHANGED <<blockStates, minLagReached>>
           ELSE /\ ReceiveMajorityBlocks
                /\ IF tooHigh
                   THEN UNCHANGED <<peers, blockStates>>
                   ELSE peers' = [peers EXCEPT ![p] = height] /\ blockStates' = AddPendingBlocks(height)
        /\ UNCHANGED <<committed, pendingBlocks, receivedBlocks, pendingRecvHeight, stopSyncBlock,
                       queueVars, queue, processing, requests, conf, stops>>

\* An old status, delayed by the network, gives a height that the peer had before.
StatusAnswer(p) == \E h \in 0..conf.heights[p] :
    HandleNodeStatus(p, h, ArchivedHeight[p]) /\ Pays(h < conf.heights[p])
StatusBroadcast(p) == conf.broadcasts /\ \E h \in 0..conf.heights[p] :
    HandleNodeStatus(p, h, 0) /\ Pays(h < conf.heights[p])

\* What the scheduler's maps are once the requests below the ledger's height are cleared.
ClearLaggingRequest ==
    LET lagging == {h \in States(blockStates) : h < committed}
    IN  [bs |-> [h \in Height |-> IF h \in lagging THEN NoState
                                  ELSE IF h = committed + 1 /\ blockStates[h] = NoState THEN "new"
                                  ELSE blockStates[h]],
         pending |-> [h \in Height |-> IF h \in lagging THEN NoPeer ELSE pendingBlocks[h]],
         received |-> receivedBlocks \ lagging,
         next |-> committed + 1]

SchedulerDataDetection ==
    /\ SchedulerTick
    /\ LET c == ClearLaggingRequest
       IN  blockStates' = c.bs /\ pendingBlocks' = c.pending /\ receivedBlocks' = c.received
           /\ pendingRecvHeight' = c.next
    /\ UNCHANGED <<committed, peers, stopSyncBlock, queueVars, queue, processing, requests,
                   minLagReached, boundVars>>

\* The request of the next block to be processed has timed out, too early if the answer
\* is still on its way.
HandleLiviness ==
    LET h == pendingRecvHeight
        p == pendingBlocks[h]
    IN  /\ SchedulerTick /\ p # NoPeer
        /\ Pays(\E r \in requests : r[1] = p /\ h \in r[2]..(r[2] + conf.batchSize - 1))
        /\ blockStates' = IF committed < h THEN [blockStates EXCEPT ![h] = "new"] ELSE blockStates
        /\ peers' = [peers EXCEPT ![p] = -1]
        /\ pendingBlocks' = [pendingBlocks EXCEPT ![h] = NoPeer]
        /\ UNCHANGED <<committed, receivedBlocks, pendingRecvHeight, stopSyncBlock, queueVars,
                       queue, processing, requests, minLagReached, conf, stops>>

\* Mutant: the records are left as they are.
OldRecords ==
    [bs |-> blockStates, pending |-> pendingBlocks, received |-> receivedBlocks, next |-> pendingRecvHeight]

\* isNeedSync first clears the records of heights that others have committed.
Records ==
    IF committed >= pendingRecvHeight
    THEN ClearLaggingRequest
    ELSE [bs |-> blockStates, pending |-> pendingBlocks, received |-> receivedBlocks, next |-> pendingRecvHeight]

\* One block behind, the node waits for reqTimeThreshold: then it may or may not be over.
IsNeedSync == ~ stopSyncBlock /\ committed + 1 <= MaxHeight

\* The peers that have the height, with the fewest requests pending; one is chosen at random.
SelectPeer(height, pending) ==
    LET having == {p \in Peer : peers[p] >= height}
        PendingReqInPeer(p) == Cardinality({h \in Height : pending[h] = p})
    IN  {p \in having : \A q \in having : PendingReqInPeer(p) <= PendingReqInPeer(q)}

\* nextHeightToReq, selectPeer and the request: to peer p when one has the height.
HandleSchedule(p) ==
    LET c == Records
        new == {h \in Height : c.bs[h] = "new"}
        next == Min(new)
        batch == {h \in Height : h >= next /\ h <= peers[p] /\ h < next + conf.batchSize}
    IN  /\ SchedulerTick /\ IsNeedSync
        /\ receivedBlocks' = c.received /\ pendingRecvHeight' = c.next
        /\ new # {} /\ next >= c.next /\ p \in SelectPeer(next, c.pending)
        /\ blockStates' = [h \in Height |-> IF h \in batch THEN "pending" ELSE c.bs[h]]
        /\ pendingBlocks' = [h \in Height |-> IF h \in batch THEN p ELSE c.pending[h]]
        /\ requests' = IF Cardinality(requests) < MaxInFlight THEN requests \cup {<<p, next>>} ELSE requests
        /\ UNCHANGED <<committed, peers, stopSyncBlock, queueVars, queue, processing,
                       minLagReached, boundVars>>

\* No request: no need, no height to ask for, or no peer that has it.
HandleScheduleNothing ==
    LET c == Records
        new == {h \in Height : c.bs[h] = "new"}
        next == Min(new)
    IN  /\ SchedulerTick /\ ~ stopSyncBlock
        /\ pendingBlocks' = c.pending /\ receivedBlocks' = c.received /\ pendingRecvHeight' = c.next
        /\ \/ committed + 1 >= MaxHeight /\ blockStates' = c.bs
           \/ IsNeedSync /\ new = {} /\ blockStates' = c.bs
           \/ IsNeedSync /\ new # {} /\ next < c.next /\ blockStates' = [c.bs EXCEPT ![next] = NoState]
           \/ /\ IsNeedSync /\ new # {} /\ next >= c.next /\ SelectPeer(next, c.pending) = {}
              /\ blockStates' = c.bs
        /\ UNCHANGED <<committed, peers, stopSyncBlock, queueVars, queue, processing, requests,
                       minLagReached, boundVars>>

\* Mutant: the request stays pending.
HandleSyncedBlockLeavesPending(m) ==
    /\ m.type = "SyncedBlock" /\ SchedulerTakes(m)
    /\ blockStates[m.height] \in {"new", "pending"}
    /\ blockStates' = [blockStates EXCEPT ![m.height] = "received"]
    /\ receivedBlocks' = receivedBlocks \cup {m.height}
    /\ processorQueue' = processorQueue \cup {ReceivedBlock(m.from, m.height)}
    /\ UNCHANGED <<committed, peers, pendingBlocks, pendingRecvHeight, stopSyncBlock, queue, processing,
                   requests, minLagReached, boundVars>>

\* A response: one block, whose height must be one the scheduler asks for and has not got.
HandleSyncedBlock(m) ==
    /\ m.type = "SyncedBlock" /\ SchedulerTakes(m)
    /\ IF Cardinality(receivedBlocks) > MaxPendingBlocks \/ stopSyncBlock
       THEN UNCHANGED <<blockStates, pendingBlocks, receivedBlocks, processorQueue>>
       ELSE /\ pendingBlocks' = [pendingBlocks EXCEPT ![m.height] = NoPeer]
            /\ IF blockStates[m.height] \in {"new", "pending"}
               THEN /\ blockStates' = [blockStates EXCEPT ![m.height] = "received"]
                    /\ receivedBlocks' = receivedBlocks \cup {m.height}
                    /\ processorQueue' = processorQueue \cup {ReceivedBlock(m.from, m.height)}
               ELSE UNCHANGED <<blockStates, receivedBlocks, processorQueue>>
    /\ UNCHANGED <<committed, peers, pendingRecvHeight, stopSyncBlock, queue, processing,
                   requests, minLagReached, boundVars>>

HandleProcessedBlockResp(m) ==
    LET done == m.status \in {"ok", "hasProcessed"}
    IN  /\ m.type = "ProcessedBlock" /\ SchedulerTakes(m)
        /\ receivedBlocks' = receivedBlocks \ {m.height}
        /\ blockStates' = [blockStates EXCEPT ![m.height] = IF done THEN NoState ELSE "new"]
        /\ pendingRecvHeight' = IF done THEN Max({pendingRecvHeight, m.height + 1}) ELSE pendingRecvHeight
        /\ peers' = IF done THEN peers ELSE [peers EXCEPT ![m.from] = -1]
        /\ UNCHANGED <<committed, pendingBlocks, stopSyncBlock, processorQueue,
                       queue, processing, requests, minLagReached, boundVars>>

SchedulerStops(m) ==
    /\ m.type = "StopSync" /\ SchedulerTakes(m)
    /\ stopSyncBlock' = TRUE
    /\ blockStates' = [h \in Height |-> NoState] /\ pendingBlocks' = [h \in Height |-> NoPeer]
    /\ receivedBlocks' = {}
    /\ UNCHANGED <<committed, peers, pendingRecvHeight, processorQueue,
                   queue, processing, requests, minLagReached, boundVars>>

\* The receive from minLagReachC finds no sender: only this goroutine sends to it.
SchedulerStarts(m) ==
    /\ m.type = "StartSync" /\ SchedulerTakes(m)
    /\ stopSyncBlock' = FALSE
    /\ UNCHANGED <<committed, peers, blockStates, pendingBlocks, receivedBlocks, pendingRecvHeight,
                   processorQueue, queue, processing, requests,
                   minLagReached, boundVars>>

-----------------------------------------------------------------------------
(* The processor *)

HandleReceivedBlockInfos(m) ==
    /\ m.type = "ReceivedBlock" /\ ProcessorTakes(m)
    /\ queue' = IF m.height <= committed \/ queue[m.height] # NoPeer
                THEN queue ELSE [queue EXCEPT ![m.height] = m.from]
    /\ UNCHANGED <<committed, schedulerVars, schedulerQueue, processing,
                   requests, minLagReached, boundVars>>

\* A tick of the highest level: the block after the last one committed, if it is there.
HandleProcessBlock ==
    /\ processing = NoHeight /\ queue[committed + 1] # NoPeer
    /\ processing' = committed + 1
    /\ UNCHANGED <<committed, schedulerVars, queueVars, queue, requests, minLagReached, boundVars>>

\* validateAndCommitBlock: consensus may have committed the height before, or meanwhile.
ValidateAndCommitBlock(status) ==
    \/ status = "hasProcessed" /\ committed >= processing /\ UNCHANGED committed
    \/ status = "ok" /\ committed < processing /\ committed' = processing
    \/ status \in {"validateFailed", "addErr"} /\ committed < processing /\ UNCHANGED committed

ProcessBlockEnds ==
    /\ processing # NoHeight
    /\ \E status \in {"ok", "hasProcessed", "validateFailed", "addErr"} :
           /\ ValidateAndCommitBlock(status) /\ Pays(status \in {"validateFailed", "addErr"})
           /\ schedulerQueue' = schedulerQueue \cup {ProcessedBlock(queue[processing], processing, status)}
    /\ queue' = [queue EXCEPT ![processing] = NoPeer]
    /\ processing' = NoHeight
    /\ UNCHANGED <<schedulerVars, processorQueue, requests, minLagReached, conf, stops>>

\* Mutant: off by one.
ProcessorDetectsOneMore ==
    /\ processing = NoHeight /\ IsNext(processorQueue, 1)
    /\ queue' = [h \in Height |-> IF h <= committed + 1 THEN NoPeer ELSE queue[h]]
    /\ UNCHANGED <<committed, schedulerVars, queueVars, processing, requests, minLagReached, boundVars>>

ProcessorDataDetection ==
    /\ processing = NoHeight /\ IsNext(processorQueue, 1)
    /\ queue' = [h \in Height |-> IF h <= committed THEN NoPeer ELSE queue[h]]
    /\ UNCHANGED <<committed, schedulerVars, queueVars, processing, requests, minLagReached, boundVars>>

ProcessorStops(m) ==
    /\ m.type = "StopSync" /\ ProcessorTakes(m)
    /\ queue' = [h \in Height |-> NoPeer]
    /\ UNCHANGED <<committed, schedulerVars, schedulerQueue, processing,
                   requests, minLagReached, boundVars>>

-----------------------------------------------------------------------------
(* The peers, the network and consensus *)

\* handleBlockReq and sendInfos of peer p, and what blockSyncMsgHandler gets of them.  The
\* blocks are sent one by one, those the peer has not got are skipped, and an archived one
\* is an error.  The network loses some, delivers some later, and some twice.  A request
\* that requestCache remembers is ignored: to the node that sent it, it is lost.
HandleBlockReq(p, h) ==
    LET sent == IF h <= ArchivedHeight[p] THEN {} ELSE {k \in h..(h + conf.batchSize - 1) : k <= conf.heights[p]}
    IN  /\ <<p, h>> \in requests
        /\ \E got \in SUBSET sent, done \in BOOLEAN :
               /\ schedulerQueue' = schedulerQueue \cup {SyncedBlock(p, k) : k \in got}
               /\ requests' = IF done THEN requests \ {<<p, h>>} ELSE requests
               /\ Pays(got # sent \/ ~ done)
        /\ UNCHANGED <<committed, schedulerVars, processorQueue, queue, processing, minLagReached, conf, stops>>

ConsensusCommits ==
    /\ committed < ChainHeight /\ committed' = committed + 1
    /\ UNCHANGED <<schedulerVars, queueVars, queue, processing, requests, minLagReached, boundVars>>

\* StopBlockSync and, later, StartBlockSync.
StopBlockSync ==
    /\ stops < conf.stops /\ stops' = stops + 1
    /\ schedulerQueue' = schedulerQueue \cup {Control("StopSync")}
    /\ processorQueue' = processorQueue \cup {Control("StopSync")}
    /\ UNCHANGED <<committed, schedulerVars, queue, processing, requests,
                   minLagReached, conf, faults>>

StartBlockSync ==
    /\ stopSyncBlock /\ Control("StartSync") \notin schedulerQueue
    /\ schedulerQueue' = schedulerQueue \cup {Control("StartSync")}
    /\ UNCHANGED <<committed, schedulerVars, processorQueue, queue,
                   processing, requests, minLagReached, boundVars>>

SyncNext ==
    \/ \E p \in Peer : StatusAnswer(p) \/ StatusBroadcast(p) \/ HandleSchedule(p)
    \/ SchedulerDataDetection \/ HandleLiviness \/ HandleScheduleNothing
    \/ \E m \in schedulerQueue : \/ HandleSyncedBlock(m) \/ HandleProcessedBlockResp(m)
                                 \/ SchedulerStops(m) \/ SchedulerStarts(m)
    \/ \E m \in processorQueue : HandleReceivedBlockInfos(m) \/ ProcessorStops(m)
    \/ HandleProcessBlock \/ ProcessBlockEnds \/ ProcessorDataDetection
    \/ \E p \in Peer, h \in Height : HandleBlockReq(p, h)
    \/ ConsensusCommits \/ StopBlockSync \/ StartBlockSync

SyncSpec == SyncInit /\ [][SyncNext]_syncVars

\* The tickers of loop go on, so does each routine, a status request is answered, and so is
\* a request that is not lost.  Once consensus waits for it, minLagReachC is not missed.
SyncFairness ==
    /\ WF_syncVars(\E p \in Peer : StatusAnswer(p))
    /\ WF_syncVars(\E p \in Peer : StatusAnswer(p) /\ minLagReached')
    /\ WF_syncVars(\E p \in Peer : HandleSchedule(p)) /\ WF_syncVars(HandleScheduleNothing)
    /\ WF_syncVars(HandleLiviness) /\ WF_syncVars(SchedulerDataDetection)
    /\ WF_syncVars(\E m \in schedulerQueue : HandleSyncedBlock(m) \/ HandleProcessedBlockResp(m))
    /\ WF_syncVars(\E m \in processorQueue : HandleReceivedBlockInfos(m))
    /\ WF_syncVars(HandleProcessBlock) /\ WF_syncVars(ProcessBlockEnds)
    /\ WF_syncVars(\E p \in Peer, h \in Height : HandleBlockReq(p, h))

FairSyncSpec == SyncSpec /\ SyncFairness

-----------------------------------------------------------------------------
(* Properties *)

\* The block of a height is with the processor, or the result is on its way back.
Waiting(h) == {m \in processorQueue : m.type = "ReceivedBlock" /\ m.height = h}
Reports(h) == {m \in schedulerQueue : m.type = "ProcessedBlock" /\ m.height = h}
Held(h) == queue[h] # NoPeer \/ Waiting(h) # {} \/ Reports(h) # {}

\* A height the scheduler has marked as received, and so never asks for again, is still on
\* its way to being committed: its block waits for the processor, is in the processor's
\* queue, or its result is on its way back.  Nothing else would take the mark away while
\* the height is missing.  Stated for a service that has never been stopped.
ReceivedIsHeld ==
    stops = 0 => \A h \in Height : blockStates[h] = "received" /\ h > committed => Held(h)

\* Every request the scheduler sends can be served: the peer has the height and has not
\* archived it, although the answer that told so is old and the ledger has grown since.
\* Stated for peers that do not broadcast: a broadcast leaves the archived height out.
RequestsServable ==
    ~ conf.broadcasts =>
        \A r \in requests : r[2] > ArchivedHeight[r[1]] /\ r[2] <= conf.heights[r[1]]

\* Every height with a request pending has a state, so that clearLaggingRequest, which goes
\* through the states, forgets the request when the height is committed, and selectPeer does
\* not count it for ever.  Stated for the default of one block in a request: a larger batch
\* marks as pending again a height whose block is being processed.
PendingIsTracked ==
    stops = 0 /\ conf.batchSize = 1 =>
        \A h \in Height : pendingBlocks[h] # NoPeer => blockStates[h] # NoState

\* The response with the next block of the chain is not dropped for ever because too many
\* blocks have been received: those above it wait for it, so nothing would make room.  (The
\* records of lower heights go with the next tick.)  Stated for one block in a request: a
\* larger batch goes beyond the pool.
NextIsAccepted ==
    conf.batchSize = 1 /\ committed < ChainHeight /\ blockStates[committed + 1] # "received" =>
        Cardinality({h \in receivedBlocks : h >= committed}) <= MaxPendingBlocks

\* Every height of the chain can be asked of a peer by a node that has the height before it,
\* and no broadcast makes the scheduler ask a peer that has archived it.
EveryHeightOffered ==
    /\ ~ conf.broadcasts /\ ChainHeight > 0
    /\ \A h \in 1..ChainHeight : \E p \in Peer :
           conf.heights[p] >= h /\ ~ IsPeerArchivedTooHeight(h - 1, ArchivedHeight[p])

\* The node catches up with its peers, whatever is lost, delayed, rejected or committed by
\* consensus on the way, if it asks for one block at a time and is never stopped; and consensus
\* is told so: minLagReachC is signalled.
CatchesUp ==
    conf.batchSize = 1 /\ conf.stops = 0 /\ EveryHeightOffered =>
        <>(committed = ChainHeight) /\ <>minLagReached

\* What handleSyncedBlockMsg drops because too many blocks have been received is dropped for
\* the time being only (the comment above it): the node gets the height, with any number of
\* blocks in a request.
DropIsTemporary == conf.stops = 0 /\ EveryHeightOffered => <>(committed = ChainHeight)

-----------------------------------------------------------------------------
(* The inductive invariants *)

\* What the messages carry; the peers have what the scheduler thinks they have.
MessagesInv ==
    /\ \A m \in schedulerQueue : m.type \in {"SyncedBlock", "ProcessedBlock"} =>
            m.height \in 1..TopHeight /\ m.from \in Peer
    /\ \A m \in schedulerQueue : m.type = "ProcessedBlock" /\ m.status \in {"ok", "hasProcessed"} =>
            m.height <= committed
    /\ \A m \in processorQueue : m.type = "ReceivedBlock" => m.height \in 1..TopHeight /\ m.from \in Peer
    /\ queue[TopHeight + 1] = NoPeer
    /\ processing # NoHeight => queue[processing] # NoPeer
    /\ pendingRecvHeight <= committed + 1
    /\ \A p \in Peer : peers[p] <= conf.heights[p]

SyncInv == SyncTypeOK /\ MessagesInv

\* A peer the scheduler knows had not archived the next height when it said so.
ArchiveInv ==
    /\ ~ conf.broadcasts =>
            \A p \in Peer : peers[p] # -1 => ArchivedHeight[p] = 0 \/ ArchivedHeight[p] < committed
    /\ RequestsServable

NeverStopped ==
    stops = 0 => \A m \in schedulerQueue \cup processorQueue : m.type # "StopSync"

HeldInv == NeverStopped /\ ReceivedIsHeld

\* One block in a request: a height is asked for, or held once, or neither.
TrackedInv ==
    stops = 0 /\ conf.batchSize = 1 =>
        \A h \in Height :
            /\ pendingBlocks[h] # NoPeer => blockStates[h] \notin {NoState, "new"}
            /\ Held(h) => pendingBlocks[h] = NoPeer
            /\ h > committed =>
                /\ Held(h) => blockStates[h] = "received"
                /\ \A m \in Waiting(h) : Waiting(h) = {m} /\ queue[h] = NoPeer /\ Reports(h) = {}
                /\ queue[h] # NoPeer => Reports(h) = {}
                /\ \A m \in Reports(h) : Reports(h) = {m}

\* What is followed, or held, is within the pool.
PoolInv ==
    conf.batchSize = 1 =>
        \A h \in Height :
            /\ h \in receivedBlocks => blockStates[h] = "received"
            /\ blockStates[h] = "received" => pendingBlocks[h] = NoPeer
            /\ blockStates[h] # NoState \/ Held(h) => h <= committed + MaxPendingBlocks

=============================================================================
