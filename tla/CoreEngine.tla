----------------------------- MODULE CoreEngine -----------------------------
(***************************************************************************)
(* The core engine of one node in sync mode (core/syncmode), with the      *)
(* consensus and the block synchroniser that drive it as its environment.  *)
(*                                                                         *)
(*   proposer    one proposing goroutine builds blocks from the pool       *)
(*   verifier    several VerifyBlock calls run at once, one per block hash *)
(*   committer   AddBlock calls are serialised by a mutex                  *)
(*                                                                         *)
(* They share the proposal cache, the ledger cache, the transaction filter *)
(* and the transaction pool, each behind its own lock and none behind a    *)
(* common one: every access below that the code makes under a separate     *)
(* lock is a step of its own.  processType is the chain's scheduler        *)
(* configuration: "on" executes a block when it is proposed (optimistic    *)
(* proposer and verifier), "after" proposes the transactions only and      *)
(* executes them during verification (deterministic proposer and verifier).*)
(***************************************************************************)
EXTENDS BlockValidation, SequencesExt

CONSTANTS Txs,        \* transactions
          NonDet,     \* those whose results differ between executions
          Self, Peer, \* this node and the rest of the network
          Calls,      \* concurrent VerifyBlock calls
          Nested,     \* the VerifyBlock call AddBlock makes itself
          MaxObj,     \* bound: header objects alive at once
          MaxStamp,   \* bound: blocks this node builds
          Configs,    \* chain configurations: process type, block capacity and
                      \* the bound on heights explored with it
          Defects,    \* header fields a received block may have wrong
          Solo,       \* the chain runs the solo consensus
          Turbo       \* consensus messages carry transaction ids only

ASSUME NonDet \subseteq Txs /\ Nested \notin Calls /\ Self # Peer
ASSUME Configs \subseteq [type : {"on", "after"}, capacity : Nat, maxHeight : Nat]
ASSUME MaxObj \in Nat /\ MaxStamp \in Nat

VARIABLES
  conf,        \* the chain configuration
  stamp,       \* the timestamp of the last block this node built
  heap,        \* header objects
  store,       \* the block store: committed blocks with their read-write sets
  ledger,      \* the ledger cache's last committed block
  filter,      \* the transaction filter
  cache,       \* the proposal cache
  pool,        \* the transaction pool
  call,        \* verify calls
  com,         \* the AddBlock call that holds the committer's mutex
  prop,        \* the proposing goroutine
  isProposer,  \* the proposer's status, set by consensus
  proposed,    \* blocks published as ProposedBlock, not yet taken
  verified,    \* headers published with a successful VerifyResult
  decided,     \* the sequence of headers consensus decided
  late         \* history: a block entered the cache or the pending
               \* transactions after its height was stored, or other
               \* nodes' proposals were cleared with this node's own

vars == <<conf, stamp, heap, store, ledger, filter, cache, pool,
          call, com, prop, isProposer, proposed, verified, decided, late>>

config == <<conf, stamp>>

processType == conf.type
chain == <<store, ledger, filter>>
net == <<proposed, verified, decided>>

Genesis == [height |-> 0, pre |-> NoHash, prop |-> Peer, ts |-> 0, txs |-> <<>>,
            res |-> NoResult, bad |-> "none", bh |-> "ok"]

None == [obj |-> 0, txs |-> <<>>]

FreeCall == [pc |-> "free", fn |-> "none", mode |-> "none", blk |-> None,
             last |-> Genesis, rw |-> NoResult, hash |-> NoHash, ok |-> FALSE]

IdleCom == [pc |-> "idle", blk |-> None, ent |-> None, rw |-> NoResult]

IdleProp == [pc |-> "idle", height |-> 0, pre |-> NoHash, sel |-> None,
             batch |-> <<>>, blk |-> None, rw |-> NoResult]

OnChain == UNION { TxSet(store[i].txs) : i \in 1..Len(store) }

CurrentHeight == ledger.height

(* What executing txs on a node yields: two executions agree unless a      *)
(* transaction is nondeterministic.                                        *)
Exec(node, txs) == IF TxSet(txs) \cap NonDet = {} THEN "same" ELSE node

Hdr(b) == heap[b.obj]

CacheEntries(ca) == UNION { GetProposedBlocksAt(ca, h) : h \in DOMAIN ca }

(* The header objects something still refers to once a commit has ended    *)
(* and left the cache ca.                                                  *)
Referenced(ca) ==
  { b.obj : b \in {e.blk : e \in CacheEntries(ca)} \cup {call[d].blk : d \in DOMAIN call}
                  \cup {prop.blk, prop.sel} \cup proposed }

Unused == { o \in DOMAIN heap : heap[o] = Genesis }

NewObj == Min(Unused)

WithNew(hd) == [heap EXCEPT ![NewObj] = hd]

(* FinalizeBlock fills in what the header commits to.                      *)
FinalizeBlock(hd, txs, res) == [hd EXCEPT !.txs = txs, !.res = res, !.bad = "none"]

Init ==
  /\ conf \in Configs
  /\ heap = [o \in 1..MaxObj |-> Genesis]
  /\ stamp = 0
  /\ store = <<>>
  /\ ledger = Genesis
  /\ filter = {}
  /\ cache = EmptyMap
  /\ pool = [queue |-> Txs, pend |-> {}]
  /\ call = [c \in Calls \cup {Nested} |-> FreeCall]
  /\ com = IdleCom
  /\ prop = IdleProp
  /\ isProposer = FALSE
  /\ proposed = {}
  /\ verified = {}
  /\ decided = <<>>
  /\ late = FALSE

-----------------------------------------------------------------------------
(* The verifiers.  A call runs one of five functions, each a sequence of   *)
(* steps: fetch the parent, validate, execute (schedule and finalize),     *)
(* check the height before caching, store in the cache, publish.           *)

verifyBlock == <<"fetch", "validate", "check", "store", "publish", "free">>

verifyBlockWithoutDag ==
  <<"fetch", "validate", "execute", "check", "store", "publish", "free">>

verifyBlockWithoutExecuting ==
  <<"fetch", "validate", "check", "store", "publish", "free">>

OptimisticVerifyBlock == <<"fetch", "validate", "check", "store", "publish", "free">>

OptimisticVerifyBlockWithRwSets ==
  <<"fetch", "validate", "check", "store", "publish", "free">>

Steps(fn) == CASE fn = "verifyBlock"                 -> verifyBlock
               [] fn = "verifyBlockWithoutDag"       -> verifyBlockWithoutDag
               [] fn = "verifyBlockWithoutExecuting" -> verifyBlockWithoutExecuting
               [] fn = "optimistic"                  -> OptimisticVerifyBlock
               [] OTHER                              -> OptimisticVerifyBlockWithRwSets

After(c) == LET s == Steps(call[c].fn)
            IN  s[1 + CHOOSE i \in DOMAIN s : s[i] = call[c].pc]

(* VerifyBlock of the deterministic verifier: its condition asks for the   *)
(* process type this verifier is never created for, so every mode takes    *)
(* verifyBlock, which executes in sync mode only.                          *)
DeterministicVerifyBlock(mode) ==
  IF processType = "on" /\ mode # "sync" THEN "verifyBlockWithoutDag" ELSE "verifyBlock"

VerifyBlockSync == "verifyBlockWithoutDag"

(* The factory creates the optimistic verifier for "on".                   *)
createVerifier(mode) ==
  IF processType = "on" THEN "optimistic" ELSE DeterministicVerifyBlock(mode)

VerifyBlockWithRwSets(rws, mode) ==
  IF ~ rws THEN createVerifier(mode)
  ELSE IF processType = "on" THEN "optimisticWithRwSets" ELSE "verifyBlockWithoutExecuting"

Return(c, ok) == call' = [call EXCEPT ![c] = [FreeCall EXCEPT !.ok = ok]]

Advance(c) == call' = [call EXCEPT ![c].pc = After(c)]

(* reentrantLocks: one verification per block hash at a time.              *)
LockedHash(h) == \E d \in DOMAIN call : call[d].pc # "free" /\ call[d].hash = h

(* A block found in the cache needs no second verification, except the     *)
(* proposer's own block that was cached before it was executed.            *)
verifyRepeat(hd, mode) ==
  /\ HasProposedBlock(cache, hd)
  /\ ~ (mode = "proposer" /\ GetProposedBlock(cache, hd).rw = NoResult)
  /\ ~ Solo

OptimisticVerifyRepeat(hd) == HasProposedBlock(cache, hd) /\ ~ Solo

IsRepeat(hd, mode) ==
  IF processType = "on" THEN OptimisticVerifyRepeat(hd) ELSE verifyRepeat(hd, mode)

(* The other proposals' transactions return to the queue.                  *)
cutBlocks(cut, keep) ==
  RetryAndRemoveTxs(pool, UNION { TxSet(b.txs) : b \in cut } \ TxSet(keep.txs), {}, OnChain)

(* The repeated block's parent has won its height: the other proposals at  *)
(* that height are dropped and their transactions retried.                 *)
RepeatEffects(hd, mode) ==
  LET parents == GetProposedBlockByHashAndHeight(cache, heap, hd.pre, hd.height - 1)
      result  == IF processType = "after" THEN Hdr(GetProposedBlock(cache, hd).blk) ELSE hd
  IN  /\ verified' = IF mode = "consensus" THEN verified \cup {result} ELSE verified
      /\ IF parents = {} THEN UNCHANGED <<cache, pool>>
         ELSE \E p \in parents :
                LET k == KeepProposedBlock(cache, heap, hd.pre, hd.height - 1)
                IN  cache' = k.cache /\ pool' = cutBlocks(k.cut, p.blk)

(* The entry of every verification; newHeap holds the block's header.      *)
VerifyBlock(c, newHeap, b, mode, fn) ==
  LET hd == newHeap[b.obj]
      h  == BlockHash(hd)
  IN  /\ call[c].pc = "free"
      /\ heap' = newHeap
      /\ IF LockedHash(h)
           THEN Return(c, FALSE) /\ UNCHANGED <<cache, pool, verified>>
         ELSE IF IsRepeat(hd, mode)
           THEN Return(c, TRUE) /\ RepeatEffects(hd, mode)
         ELSE /\ call' = [call EXCEPT ![c] =
                    [FreeCall EXCEPT !.pc = "fetch", !.fn = fn, !.mode = mode, !.blk = b,
                                     !.hash = h]]
              /\ UNCHANGED <<cache, pool, verified>>

(* FetchLastBlock: the parent is the ledger's last block or, further ahead,*)
(* a proposal of the height before.  (The height and the block are read    *)
(* separately; a block that moves the ledger between the two makes the     *)
(* parent check fail, as if both had been read after it.)                  *)
FetchLastBlock(c) ==
  LET hd == Hdr(call[c].blk)
      ps == { Hdr(e.blk) : e \in GetProposedBlockByHashAndHeight(cache, heap, hd.pre, hd.height - 1) }
      lasts == CASE CurrentHeight >= hd.height    -> {}
                 [] CurrentHeight + 1 = hd.height -> {ledger}
                 [] OTHER                         -> ps
  IN  /\ call[c].pc = "fetch"
      /\ IF lasts = {} THEN Return(c, FALSE)
         ELSE \E last \in lasts :
                call' = [call EXCEPT ![c].pc = After(c), ![c].last = last]
      /\ UNCHANGED <<config, chain, net, heap, cache, pool, com, prop, isProposer>>

InPool == pool.queue \cup pool.pend

\* Mutant: only synchronised blocks are executed.
ExecutesInSync(c) == call[c].fn \in {"optimistic", "verifyBlock"} /\ call[c].mode = "sync"

(* Does the validation execute the block?  The deterministic verifier's    *)
(* only when it synchronises; verifyBlockWithoutDag executes afterwards.   *)
Executes(c) == \/ call[c].fn = "optimistic"
               \/ call[c].fn = "verifyBlock" /\ call[c].mode = "sync"

validateBlock(hd, txs, last, mode, timely) ==
  CASE ~ FitsDeterministic(hd, txs, last, conf.capacity) -> "reject"
    [] mode = "sync" -> ValidateBlock(hd, txs, mode, timely, Exec(Self, txs), NonDet,
                                      InPool, filter)
    [] OTHER -> ValidateBlockWithoutSimulate(hd, txs, mode, timely, InPool, filter)

validateBlockWithRWSets(hd, txs, last) ==
  IF FitsDeterministic(hd, txs, last, conf.capacity)
    THEN ValidateBlockWithoutExecuting(hd, txs, hd.res, TRUE) ELSE "reject"

OptimisticValidateBlock(hd, txs, last, mode, timely) ==
  IF FitsOptimistic(hd, txs, last, conf.capacity)
    THEN ValidateBlock(hd, txs, mode, timely, Exec(Self, txs), NonDet, InPool, filter)
    ELSE "reject"

OptimisticValidateBlockWithRWSets(hd, txs, last) ==
  IF CheckPreBlock(hd, last) THEN ValidateBlockWithRWSets(hd, txs, hd.res) ELSE "reject"

Verdict(c, timely) ==
  LET hd   == Hdr(call[c].blk)
      txs  == call[c].blk.txs
      last == call[c].last
      fn   == call[c].fn
  IN  CASE fn = "optimistic" -> OptimisticValidateBlock(hd, txs, last, call[c].mode, timely)
        [] fn = "optimisticWithRwSets" -> OptimisticValidateBlockWithRWSets(hd, txs, last)
        [] fn = "verifyBlockWithoutExecuting" -> validateBlockWithRWSets(hd, txs, last)
        [] OTHER -> validateBlock(hd, txs, last, call[c].mode, timely)

(* The read-write sets a passed validation leaves for the cache.           *)
ResultOf(c) ==
  CASE call[c].fn \in {"optimisticWithRwSets", "verifyBlockWithoutExecuting"} ->
         Hdr(call[c].blk).res
    [] Executes(c) -> Exec(Self, call[c].blk.txs)
    [] OTHER       -> NoResult

Validate(c, timely) ==
  /\ call[c].pc = "validate"
  /\ IF Verdict(c, timely) = "ok"
       THEN call' = [call EXCEPT ![c].rw = ResultOf(c), ![c].pc = After(c)]
       ELSE Return(c, FALSE)
  /\ UNCHANGED <<config, chain, net, heap, cache, pool, com, prop, isProposer>>

(* verifyBlockWithoutDag after validation: schedule a prefix of the block's*)
(* transactions, finalize and rehash.  The header object is the one of the *)
(* block being verified and of the cached pre-block.                       *)
ScheduleAndFinalize(c) ==
  LET b == call[c].blk
      o == b.obj
  IN  /\ call[c].pc = "execute"
      /\ \E n \in 0..Len(b.txs) :
           LET txs == SubSeq(b.txs, 1, n)
           IN  IF n = 0 /\ ~ CanProposeEmpty
                 THEN Return(c, FALSE) /\ UNCHANGED heap
                 ELSE /\ heap' = [heap EXCEPT ![o] =
                            [FinalizeBlock(@, txs, Exec(Self, txs)) EXCEPT !.bh = "ok"]]
                      /\ call' = [call EXCEPT ![c].pc = After(c), ![c].rw = Exec(Self, txs),
                                              ![c].blk = [obj |-> o, txs |-> txs]]
      /\ UNCHANGED <<config, chain, net, cache, pool, com, prop, isProposer>>

(* SetProposedBlock compares the ledger height before it takes the cache's *)
(* lock.                                                                   *)
CheckCacheHeight(c) ==
  /\ call[c].pc = "check"
  /\ IF SetProposedBlockRefuses(Hdr(call[c].blk).height, CurrentHeight)
       THEN Return(c, FALSE) ELSE Advance(c)
  /\ UNCHANGED <<config, chain, net, heap, cache, pool, com, prop, isProposer>>

CacheVerified(c) ==
  /\ call[c].pc = "store"
  /\ cache' = SetProposedBlock(cache, Hdr(call[c].blk), call[c].blk, call[c].rw,
                               call[c].mode = "proposer")
  /\ Advance(c)
  /\ UNCHANGED <<config, chain, net, heap, pool, com, prop, isProposer>>

(* The pool learns the block's transactions and consensus the result; a    *)
(* proposer's verification returns its result to the caller instead.       *)
PublishVerified(c) ==
  /\ call[c].pc = "publish"
  /\ pool' = IF call[c].mode = "proposer" THEN pool
             ELSE AddTxsToPendingCache(pool, TxSet(call[c].blk.txs))
  /\ verified' = CASE call[c].mode = "sync"      -> verified
                   [] call[c].mode = "consensus" -> verified \cup {Hdr(call[c].blk)}
                   [] OTHER -> { v \in verified : v.prop = Peer } \cup {Hdr(call[c].blk)}
  /\ Return(c, TRUE)
  /\ UNCHANGED <<config, chain, heap, cache, com, prop, isProposer, proposed, decided>>

-----------------------------------------------------------------------------
(* AddBlock: BlockCommitterImpl, under its mutex.                          *)

isBlockLegal(hd) ==
  /\ ledger.height < hd.height
  /\ hd.height = ledger.height + 1
  /\ hd.pre = BlockHash(ledger)
  /\ BlockHash(hd) = CalcBlockHash(hd)

(* A block the cache does not hold is verified in sync mode first.         *)
AddBlock(newHeap, b) ==
  LET hd == newHeap[b.obj]
  IN  /\ com.pc = "idle"
      /\ isBlockLegal(hd)
      /\ IF HasProposedBlock(cache, hd)
           THEN /\ com' = [pc |-> "put", blk |-> b, ent |-> GetProposedBlock(cache, hd).blk,
                           rw |-> GetProposedBlock(cache, hd).rw]
                /\ heap' = newHeap
                /\ UNCHANGED <<call, cache, pool, verified>>
           ELSE /\ com' = [IdleCom EXCEPT !.pc = "verify", !.blk = b]
                /\ VerifyBlock(Nested, newHeap, b, "sync", createVerifier("sync"))

(* checkLastProposedBlock after its VerifyBlock returned.                  *)
checkLastProposedBlock ==
  LET hd == Hdr(com.blk)
  IN  /\ com.pc = "verify" /\ call[Nested].pc = "free"
      /\ com' = IF call[Nested].ok /\ HasProposedBlock(cache, hd)
                  THEN [pc |-> "put", blk |-> com.blk, ent |-> GetProposedBlock(cache, hd).blk,
                        rw |-> GetProposedBlock(cache, hd).rw]
                  ELSE IdleCom
      /\ UNCHANGED <<config, chain, net, heap, cache, pool, call, prop, isProposer>>

(* The cached block, under the header consensus sent when its messages     *)
(* carry transaction ids only.                                             *)
getCommittedBlock(ent, blk) ==
  [hd |-> IF Turbo /\ ~ Solo THEN Hdr(blk) ELSE Hdr(ent), txs |-> ent.txs, rw |-> com.rw]

(* CommitBlock, first half: the block and its read-write sets are stored.  *)
PutBlock ==
  /\ com.pc = "put"
  /\ store' = Append(store, getCommittedBlock(com.ent, com.blk))
  /\ com' = [com EXCEPT !.pc = "ledger"]
  /\ UNCHANGED <<config, net, heap, ledger, filter, cache, pool, call, prop, isProposer>>

(* CommitBlock, second half: the ledger cache, then the filter.            *)
SetLastCommittedBlock ==
  /\ com.pc = "ledger"
  /\ ledger' = Last(store).hd
  /\ com' = [com EXCEPT !.pc = "filter"]
  /\ UNCHANGED <<config, net, heap, store, filter, cache, pool, call, prop, isProposer>>

AddsAndSetHeight ==
  /\ com.pc = "filter"
  /\ filter' = filter \cup TxSet(Last(store).txs)
  /\ com' = [com EXCEPT !.pc = "pool"]
  /\ UNCHANGED <<config, net, heap, store, ledger, cache, pool, call, prop, isProposer>>

\* Mutant: the losing proposals' transactions are forgotten.
syncWithTxPoolForgets(hd, txs) == {}

(* The transactions of the losing proposals at a height: those whose header*)
(* has another hash than the committed block.                              *)
syncWithTxPool(hd, txs) ==
  LET losers == { e \in GetProposedBlocksAt(cache, hd.height) :
                    BlockHash(Hdr(e.blk)) # BlockHash(hd) }
  IN  UNION { TxSet(e.blk.txs) : e \in losers } \ TxSet(txs)

\* Mutant: committed transactions are not removed.
CommitPoolKeeps ==
  /\ com.pc = "pool"
  /\ pool' = RetryAndRemoveTxs(pool, syncWithTxPool(Last(store).hd, Last(store).txs), {}, OnChain)
  /\ com' = [com EXCEPT !.pc = "clear"]
  /\ UNCHANGED <<config, chain, net, heap, cache, call, prop, isProposer>>

CommitPool ==
  /\ com.pc = "pool"
  /\ pool' = RetryAndRemoveTxs(pool, syncWithTxPool(Last(store).hd, Last(store).txs),
                               TxSet(Last(store).txs), OnChain)
  /\ com' = [com EXCEPT !.pc = "clear"]
  /\ UNCHANGED <<config, chain, net, heap, cache, call, prop, isProposer>>

(* The proposals of the height are dropped; consensus has no more use for  *)
(* the results of the height either.                                       *)
CommitClear ==
  LET h == Hdr(com.blk).height
      c == ClearProposedBlockAt(cache, h)
  IN  /\ com.pc = "clear"
      /\ cache' = c
      /\ com' = IdleCom
      /\ verified' = { v \in verified : v.height > h }
      /\ heap' = [o \in DOMAIN heap |->
                    IF o \in Referenced(c) THEN heap[o] ELSE Genesis]
      /\ UNCHANGED <<config, chain, pool, call, prop, isProposer, proposed, decided>>

-----------------------------------------------------------------------------
(* The proposing goroutine: proposeBlock and proposing.  The deterministic *)
(* and the optimistic proposer differ in what they build and in what they  *)
(* do when the cached entry is gone.                                       *)

PropUnchanged == UNCHANGED <<config, chain, call, com, decided>>

(* A block this node proposed for the height before may be reused.         *)
proposeFromProposalCache(h, pre) ==
  LET mine == GetSelfProposedBlockAt(cache, h)
      p    == [IdleProp EXCEPT !.height = h, !.pre = pre]
  IN  IF mine = {} THEN prop' = [p EXCEPT !.pc = "fetch"]
      ELSE \E e \in mine : prop' = [p EXCEPT !.pc = "deal", !.sel = e.blk]

proposeBlock ==
  /\ prop.pc = "idle" /\ isProposer
  /\ ledger.height < conf.maxHeight
  /\ proposeFromProposalCache(ledger.height + 1, BlockHash(ledger))
  /\ UNCHANGED <<heap, cache, pool, isProposer, proposed, verified>>
  /\ PropUnchanged

(* Another parent or an expired block: dropped with its transactions, or,  *)
(* when only the block's own timeout passed, its transactions are retried. *)
(* Otherwise the block is proposed again, at most once a second.  txTimeout*)
(* and blockTimeout are the clock's answers.                               *)
dealProposalRequestWithProposalCache(txTimeout, blockTimeout) ==
  LET hd  == Hdr(prop.sel)
      txs == TxSet(prop.sel.txs)
      reusable     == hd.pre = prop.pre /\ ~ txTimeout /\ ~ blockTimeout
  IN  /\ prop.pc = "deal" /\ (blockTimeout => TimestampVerify)
      /\ \/ /\ hd.pre # prop.pre \/ txTimeout
            /\ cache' = ClearTheBlock(cache, hd)
            /\ pool' = RetryAndRemoveTxs(pool, {}, txs, OnChain)
            /\ prop' = [prop EXCEPT !.pc = "fetch", !.sel = None]
         \/ /\ hd.pre = prop.pre /\ ~ txTimeout /\ blockTimeout
            /\ cache' = ClearTheBlock(cache, hd)
            /\ pool' = RetryAndRemoveTxs(pool, txs, {}, OnChain)
            /\ prop' = [prop EXCEPT !.pc = "fetch", !.sel = None]
         \/ /\ reusable
            /\ prop' = IdleProp
            /\ UNCHANGED <<cache, pool>>
         \/ /\ reusable
            /\ prop' = [prop EXCEPT !.pc = "republish"]
            /\ UNCHANGED <<cache, pool>>
      /\ UNCHANGED <<heap, isProposer, proposed, verified>>
      /\ PropUnchanged

(* The entry is looked up again and used without a test for nil.           *)
Republish ==
  /\ prop.pc = "republish"
  /\ IF HasProposedBlock(cache, Hdr(prop.sel))
       THEN proposed' = proposed \cup {prop.sel} /\ prop' = IdleProp
       ELSE prop' = [prop EXCEPT !.pc = "panic"] /\ UNCHANGED proposed
  /\ UNCHANGED <<heap, cache, pool, isProposer, verified>>
  /\ PropUnchanged

findLastBlockFromCache ==
  IF ledger.height + 1 = prop.height THEN {ledger}
  ELSE { Hdr(e.blk) : e \in GetProposedBlockByHashAndHeight(cache, heap, prop.pre,
                                                            prop.height - 1) }

initNewBlock(last) ==
  [height |-> last.height + 1, pre |-> BlockHash(last), prop |-> Self, ts |-> stamp + 1,
   txs |-> <<>>, res |-> NoResult, bad |-> "none", bh |-> "nil"]

GenerateFails(batch, po) ==
  /\ pool' = RetryAndRemoveTxs(po, TxSet(batch), {}, OnChain)
  /\ prop' = IdleProp

(* GenerateNewPreBlock: the fetched transactions, nothing executed.        *)
GenerateNewPreBlock(last, batch, po) ==
  /\ heap' = WithNew(FinalizeBlock(initNewBlock(last), batch, NoResult)) /\ stamp' = stamp + 1
  /\ prop' = [prop EXCEPT !.pc = "check", !.rw = NoResult, !.batch = batch,
                          !.blk = [obj |-> NewObj, txs |-> batch]]
  /\ pool' = po

(* GenerateNewBlock: executed; what the scheduler left out is retried.     *)
GenerateNewBlock(last, batch, po) ==
  \E n \in 0..Len(batch) :
    LET txs == SubSeq(batch, 1, n)
        hd  == FinalizeBlock(initNewBlock(last), txs, Exec(Self, txs))
    IN     IF n = 0 /\ ~ CanProposeEmpty THEN GenerateFails(batch, po) /\ UNCHANGED <<heap, stamp>>
           ELSE /\ heap' = WithNew(hd) /\ stamp' = stamp + 1
                /\ pool' = RetryAndRemoveTxs(po, TxSet(batch) \ TxSet(txs), {}, OnChain)
                /\ prop' = [prop EXCEPT !.pc = "check", !.rw = hd.res, !.batch = batch,
                                        !.blk = [obj |-> NewObj, txs |-> txs]]

\* Mutant: transactions the store holds are not pruned.
proposeFromTxPoolUnpruned ==
  LET batch == SetToSeq(pool.queue)
  IN  /\ prop.pc = "fetch" /\ Unused # {} /\ stamp < MaxStamp
      /\ findLastBlockFromCache # {} /\ batch # <<>>
      /\ \E last \in findLastBlockFromCache :
           IF processType = "on"
             THEN GenerateNewBlock(last, batch, AddTxsToPendingCache(pool, pool.queue))
             ELSE GenerateNewPreBlock(last, batch, AddTxsToPendingCache(pool, pool.queue))
      /\ UNCHANGED <<conf, chain, net, cache, call, com, isProposer>>

(* proposeFromTxPool: fetch, find the parent, build.  An empty fetch ends  *)
(* the attempt; what exceeds the block's capacity is retried.              *)
proposeFromTxPool ==
  LET use   == pool.queue \ OnChain
      all   == SetToSeq(use)
      batch == SubSeq(all, 1, IF Len(all) > conf.capacity THEN conf.capacity ELSE Len(all))
      po    == RetryAndRemoveTxs(FetchTxs(pool, pool.queue, OnChain), use \ TxSet(batch), {},
                                 OnChain)
  IN  /\ prop.pc = "fetch" /\ Unused # {} /\ stamp < MaxStamp
      /\ CASE use = {} -> prop' = IdleProp /\ pool' = po /\ UNCHANGED <<heap, stamp>>
           [] use # {} /\ findLastBlockFromCache = {} ->
                GenerateFails(batch, po) /\ UNCHANGED <<heap, stamp>>
           [] OTHER -> \E last \in findLastBlockFromCache :
                IF processType = "on" THEN GenerateNewBlock(last, batch, po)
                ELSE GenerateNewPreBlock(last, batch, po)
      /\ UNCHANGED <<conf, chain, net, cache, call, com, isProposer>>

ProposerCheckHeight ==
  /\ prop.pc = "check"
  /\ IF SetProposedBlockRefuses(Hdr(prop.blk).height, CurrentHeight)
       THEN GenerateFails(prop.batch, pool)
       ELSE prop' = [prop EXCEPT !.pc = "store"] /\ UNCHANGED pool
  /\ UNCHANGED <<heap, cache, isProposer, proposed, verified>>
  /\ PropUnchanged

\* Mutant: the block is not stored.
ProposerStoreNothing ==
  /\ prop.pc = "store"
  /\ prop' = [prop EXCEPT !.pc = "publish"]
  /\ UNCHANGED <<heap, cache, pool, isProposer, proposed, verified>>
  /\ PropUnchanged

ProposerStore ==
  LET hd == Hdr(prop.blk)
  IN  /\ prop.pc = "store"
      /\ cache' = SetProposedBlock(cache, hd, prop.blk, prop.rw, TRUE)
      /\ prop' = [prop EXCEPT !.pc = "publish"]
      /\ UNCHANGED <<heap, pool, isProposer, proposed, verified>>
      /\ PropUnchanged

(* The deterministic proposer gives up when the entry is gone, the         *)
(* optimistic one dereferences it.                                         *)
PublishProposed ==
  /\ prop.pc = "publish"
  /\ IF HasProposedBlock(cache, Hdr(prop.blk))
       THEN proposed' = proposed \cup {prop.blk} /\ prop' = IdleProp
     ELSE /\ prop' = IF processType = "on" THEN [prop EXCEPT !.pc = "panic"] ELSE IdleProp
          /\ UNCHANGED proposed
  /\ UNCHANGED <<heap, cache, pool, isProposer, verified>>
  /\ PropUnchanged

OnReceiveProposeStatusChange(v) ==
  /\ v # isProposer
  /\ isProposer' = v
  /\ UNCHANGED <<heap, cache, pool, prop, proposed, verified>>
  /\ PropUnchanged

(* Consensus reports transactions whose results the other nodes could not  *)
(* reproduce: they leave the pool, the rest of this node's block is retried*)
(* and every proposal at the height is dropped.                            *)
OnReceiveRwSetVerifyFailTxs(h, fail) ==
  LET mine == GetSelfProposedBlockAt(cache, h)
  IN  /\ IF mine = {}
           THEN /\ pool' = RetryAndRemoveTxs(pool, {}, fail \cap InPool, OnChain)
                /\ UNCHANGED cache
           ELSE \E e \in mine :
                  /\ pool' = RetryAndRemoveTxs(pool, TxSet(e.blk.txs) \ fail,
                                               TxSet(e.blk.txs) \cap fail, OnChain)
                  /\ cache' = ClearProposedBlockAt(cache, h)
      /\ UNCHANGED <<heap, prop, isProposer, proposed, verified>>
      /\ PropUnchanged

-----------------------------------------------------------------------------
(* The environment: consensus and the block synchroniser.                  *)

EnvUnchanged == UNCHANGED <<config, chain>>

LastDecided == IF decided = <<>> THEN Genesis ELSE Last(decided)

DecidedTxs == UNION { TxSet(decided[i].txs) : i \in DOMAIN decided }

(* The headers the rest of the network builds on a parent.  During         *)
(* consensus a deterministic chain circulates unexecuted blocks.           *)
PeerHeaders(parent, txs, res) ==
  { [height |-> parent.height + 1, pre |-> BlockHash(parent), prop |-> Peer, ts |-> 1,
     txs |-> SetToSeq(s), res |-> IF res THEN Exec(Peer, SetToSeq(s)) ELSE NoResult,
     bad |-> d, bh |-> "ok"] : s \in (SUBSET txs) \ {{}}, d \in Defects }

RecvProposal(c) ==
  /\ Unused # {} /\ ledger.height < conf.maxHeight
  /\ \E hd \in PeerHeaders(ledger, Txs \ OnChain, processType = "on") :
       VerifyBlock(c, WithNew(hd), [obj |-> NewObj, txs |-> hd.txs],
                   "consensus", createVerifier("consensus"))
  /\ UNCHANGED <<com, prop, isProposer, proposed, decided>>
  /\ EnvUnchanged

(* Consensus signs its own node's proposal and, on a deterministic chain,  *)
(* has it executed; it then withdraws the proposer status.                 *)
TakeProposed(c) ==
  \E b \in proposed :
    LET signed == [heap EXCEPT ![b.obj].bh = "ok"]
    IN  /\ isProposer /\ Hdr(b).height = CurrentHeight + 1
        /\ Len(decided) = CurrentHeight
        /\ proposed' = proposed \ {b}
        /\ isProposer' = FALSE
        /\ IF processType = "after"
             THEN VerifyBlock(c, signed, b, "proposer", VerifyBlockSync)
             ELSE /\ heap' = signed
                  /\ verified' = verified \cup {signed[b.obj]}
                  /\ UNCHANGED <<call, cache, pool>>
        /\ UNCHANGED <<com, prop, decided>>
        /\ EnvUnchanged

DropProposed ==
  \E b \in proposed :
    /\ ~ isProposer \/ Hdr(b).height # CurrentHeight + 1
    /\ proposed' = proposed \ {b}
    /\ UNCHANGED <<heap, cache, pool, call, com, prop, isProposer, verified, decided>>
    /\ EnvUnchanged

(* The network decides one header per height, extending the last decision. *)
(* This node's own block is no candidate while it is being executed.       *)
Decide ==
  /\ Len(decided) < conf.maxHeight
  /\ \E hd \in { v \in verified : /\ v.height = Len(decided) + 1
                                  /\ v.prop = Self => \A c \in Calls : call[c].mode # "proposer"
                                  /\ v.pre = BlockHash(LastDecided) /\ v.bad = "none" }
              \cup { p \in PeerHeaders(LastDecided, Txs \ DecidedTxs, TRUE) : p.bad = "none" } :
       decided' = Append(decided, hd)
  /\ UNCHANGED <<heap, cache, pool, call, com, prop, isProposer, proposed, verified>>
  /\ EnvUnchanged

(* A decided block reaches AddBlock as the object consensus verified, or   *)
(* as a new one.                                                           *)
CommitDecided ==
  /\ Len(decided) > ledger.height
  /\ LET hd == decided[ledger.height + 1]
         known == { o \in DOMAIN heap : heap[o] = hd }
     IN  IF known # {}
           THEN \E o \in known : AddBlock(heap, [obj |-> o, txs |-> hd.txs])
           ELSE /\ Unused # {}
                /\ AddBlock(WithNew(hd), [obj |-> NewObj, txs |-> hd.txs])
  /\ UNCHANGED <<prop, isProposer, proposed, decided>>
  /\ EnvUnchanged

(* The synchroniser verifies a decided block, with or without read-write   *)
(* sets, before it adds it.                                                *)
SyncBlock(c) ==
  /\ Len(decided) > ledger.height /\ Unused # {}
  /\ \E rws \in BOOLEAN :
       LET hd == decided[ledger.height + 1]
       IN  VerifyBlock(c, WithNew(hd), [obj |-> NewObj, txs |-> hd.txs],
                       "sync", VerifyBlockWithRwSets(rws, "sync"))
  /\ UNCHANGED <<com, prop, isProposer, proposed, decided>>
  /\ EnvUnchanged

RwSetsDiffer ==
  /\ processType = "on"
  /\ \E v \in verified :
       /\ v.prop = Self /\ v.height = CurrentHeight + 1
       /\ TxSet(v.txs) \cap NonDet # {}
       /\ OnReceiveRwSetVerifyFailTxs(v.height, TxSet(v.txs) \cap NonDet)

(* A crash and restart: the ledger cache and the filter are rebuilt from   *)
(* the store, everything else in memory is lost; clients send their        *)
(* transactions again.                                                     *)
Restart ==
  /\ ledger' = IF store = <<>> THEN Genesis ELSE Last(store).hd
  /\ filter' = OnChain
  /\ heap' = [o \in DOMAIN heap |-> Genesis]
  /\ cache' = EmptyMap
  /\ pool' = [queue |-> Txs \ OnChain, pend |-> {}]
  /\ call' = [c \in DOMAIN call |-> FreeCall]
  /\ com' = IdleCom
  /\ prop' = IdleProp
  /\ isProposer' = FALSE
  /\ proposed' = {}
  /\ verified' = {}
  /\ UNCHANGED <<config, store, decided>>

VerifyStep(c) == \/ FetchLastBlock(c) \/ \E timely \in BOOLEAN : Validate(c, timely)
                 \/ ScheduleAndFinalize(c) \/ CheckCacheHeight(c) \/ CacheVerified(c)
                 \/ PublishVerified(c)

CommitStep == \/ checkLastProposedBlock \/ PutBlock \/ SetLastCommittedBlock
              \/ AddsAndSetHeight \/ CommitPool \/ CommitClear

ProposeStep == \/ \E tt, bt \in BOOLEAN : dealProposalRequestWithProposalCache(tt, bt)
               \/ Republish \/ proposeFromTxPool \/ ProposerCheckHeight
               \/ ProposerStore \/ PublishProposed

EngineStep ==
        \/ \E c \in Calls \cup {Nested} : VerifyStep(c)
        \/ CommitStep
        \/ proposeBlock \/ ProposeStep
        \/ \E v \in BOOLEAN : OnReceiveProposeStatusChange(v)
        \/ \E c \in Calls : RecvProposal(c) \/ TakeProposed(c) \/ SyncBlock(c)
        \/ DropProposed \/ Decide \/ CommitDecided \/ RwSetsDiffer \/ Restart

(* A verification or a proposal passed SetProposedBlock's height check and *)
(* goes on after a block of its height was stored.                         *)
Overtaken ==
  \/ \E c \in DOMAIN call :
       /\ call[c].pc \in {"store", "publish"} /\ call'[c].pc # call[c].pc /\ heap' = heap
       /\ Hdr(call[c].blk).height <= Len(store)
  \/ /\ prop.pc \in {"store", "publish"} /\ prop'.pc # prop.pc /\ heap' = heap
     /\ Hdr(prop.blk).height <= Len(store)

(* OnReceiveRwSetVerifyFailTxs cleared other nodes' proposals together with*)
(* this node's and retried only the transactions of its own.               *)
OthersDropped ==
  /\ com' = com /\ heap' = heap
  /\ \E h \in DOMAIN cache \ DOMAIN cache' : \E e \in GetProposedBlocksAt(cache, h) : ~ e.self

Next == EngineStep /\ late' = (late \/ Overtaken \/ OthersDropped)

Spec == Init /\ [][Next]_vars

-----------------------------------------------------------------------------

BlockRefs == [obj : 0..MaxObj, txs : Seq(Txs)]

(* Every part of the state is of its kind; in particular every object a    *)
(* block, a cache entry or a call refers to has been allocated.            *)
TypeOK ==
  /\ conf \in Configs /\ stamp \in 0..MaxStamp
  /\ Len(store) \in {ledger.height, ledger.height + 1} /\ filter \subseteq Txs
  /\ DOMAIN cache \subseteq 1..conf.maxHeight
  /\ \A e \in CacheEntries(cache) : e.blk \in BlockRefs /\ Hdr(e.blk) # Genesis
  /\ pool.queue \subseteq Txs /\ pool.pend \subseteq Txs
  /\ \A c \in DOMAIN call : call[c].pc # "free" => Hdr(call[c].blk) # Genesis
  /\ com.pc \in {"idle", "verify", "put", "ledger", "filter", "pool", "clear"}
  /\ prop.pc \in {"idle", "deal", "republish", "fetch", "check", "store", "publish", "panic"}
  /\ isProposer \in BOOLEAN /\ late \in BOOLEAN

(* AddBlock stores the version of a block found in the proposal cache, not *)
(* the one it was given, and headers are shared by pointer: still every    *)
(* block of the store, header and transactions, is the one consensus       *)
(* decided for its height.                                                 *)
StoreFollowsConsensus ==
  \A i \in DOMAIN store : store[i].hd = decided[i] /\ store[i].txs = decided[i].txs

(* No transaction is committed twice, although the pool, the filter and the*)
(* store learn of a commit at different moments.                           *)
CommittedOnce ==
  \A i, j \in DOMAIN store : i # j => TxSet(store[i].txs) \cap TxSet(store[j].txs) = {}

(* A block is committed with the read-write sets of its execution          *)
(* (verifyBlock's comment: consensus mode schedules and finalizes).        *)
CommittedWithResults == \A i \in DOMAIN store : store[i].rw # NoResult

(* The same for the optimistic verifier, which executes in every mode.     *)
OptimisticHasResults == processType = "on" => CommittedWithResults

(* No thread of the engine is between two steps of an operation.           *)
Quiet == com = IdleCom /\ prop = IdleProp /\ \A c \in DOMAIN call : call[c].pc = "free"

(* At rest every pending transaction is in some proposal the cache holds   *)
(* or was committed: none is stuck in the pool's pending set, where FetchTxs*)
(* never looks (optimistic proposer; the deterministic one does not retry  *)
(* what its execution left out).                                           *)
NothingStranded ==
  (processType = "on" /\ Quiet /\ ~ late /\ proposed = {}) =>
    pool.pend \subseteq OnChain \cup UNION { TxSet(e.blk.txs) : e \in CacheEntries(cache) }

(* The proposer dereferences the cache entry it looks up before publishing:*)
(* only a commit of the height, or a report that a transaction of the block*)
(* is not reproducible, can have removed it in between.                    *)
EntryVanishesOnlyIfCleared ==
  (processType = "on" /\ prop.pc = "panic") =>
    \/ prop.height <= Len(store)
    \/ (TxSet(prop.sel.txs) \cup TxSet(prop.blk.txs)) \cap NonDet # {}

(* At rest the cache holds nothing at or below the committed height, and   *)
(* no committed transaction is pending in the pool.                        *)
CommittedIsForgotten ==
  (Quiet /\ ~ late) =>
    (\A h \in DOMAIN cache : h > ledger.height) /\ pool.pend \cap OnChain = {}
=============================================================================
