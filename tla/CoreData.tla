------------------------------ MODULE CoreData ------------------------------
(***************************************************************************)
(* The data the core engine's parts share, and the operations on it that   *)
(* the code performs under one lock, each as an operator that takes the    *)
(* old value and returns the new one: block headers and their fingerprints,*)
(* the proposal cache (core/cache/proposal_cache.go), the snapshot manager *)
(* (snapshot/snapshot_manager.go) and, external to the repository's own    *)
(* code, the transaction pool.                                             *)
(*                                                                         *)
(* A header is a record                                                    *)
(*   height, pre   BlockHeight and PreBlockHash                            *)
(*   prop, ts      Proposer and BlockTimestamp                             *)
(*   txs           what TxRoot commits to: the sequence of transactions    *)
(*   res           what RwSetRoot, DagHash and the transaction results     *)
(*                 commit to: NoResult for a block nobody executed yet     *)
(*   bad           the header field that does not match the body           *)
(*   bh            BlockHash: "nil", "ok" (the hash of the header) or "bad"*)
(* Headers are shared by pointer in the code, so a block holds the         *)
(* identity of its header object and the headers live in a heap.           *)
(***************************************************************************)
EXTENDS Naturals, Sequences, FiniteSets, Functions, TLC

CONSTANTS NoResult,  \* the results of a block that has not been executed
          NoHash,    \* a BlockHash that is nil
          BadHash    \* a BlockHash that is not the hash of its header

(* What CalcBlockHash and CalcBlockFingerPrint digest: the whole header    *)
(* except BlockHash itself.                                                *)
Content(hd) == [hd EXCEPT !.bh = "nil"]

CalcBlockHash(hd) == Content(hd)

\* Mutant: the transactions are not part of the fingerprint.
CalcBlockFingerPrintNoTx(hd) == [Content(hd) EXCEPT !.txs = <<>>, !.res = NoResult]

CalcBlockFingerPrint(hd) == Content(hd)

CalcBlockFingerPrintWithoutTx(hd) ==
  [height |-> hd.height, pre |-> hd.pre, prop |-> hd.prop, ts |-> hd.ts]

BlockHash(hd) == CASE hd.bh = "ok"  -> CalcBlockHash(hd)
                   [] hd.bh = "nil" -> NoHash
                   [] OTHER         -> BadHash

TxSet(txs) == Range(txs)

-----------------------------------------------------------------------------
(* Proposal cache: height -> (fingerprint -> entry), both maps partial.    *)
(* entry = [blk |-> [obj, txs], rw, self].  hasProposedThisRound is left   *)
(* out: only IsProposedAt reads it, which nothing calls.                   *)

EmptyMap == [x \in {} |-> x]

At(cache, h) == IF h \in DOMAIN cache THEN cache[h] ELSE EmptyMap

ClearProposedBlockAt(cache, h) == Restrict(cache, DOMAIN cache \ {h})

(* The entries GetProposedBlock may find for a header: by fingerprint.     *)
HasProposedBlock(cache, hd) ==
  CalcBlockFingerPrint(hd) \in DOMAIN At(cache, hd.height)

GetProposedBlock(cache, hd) == cache[hd.height][CalcBlockFingerPrint(hd)]

GetProposedBlocksAt(cache, h) == { At(cache, h)[k] : k \in DOMAIN At(cache, h) }

(* Looked up through the header each entry points to NOW, not its key.     *)
GetProposedBlockByHashAndHeight(cache, heap, hash, h) ==
  { e \in GetProposedBlocksAt(cache, h) : BlockHash(heap[e.blk.obj]) = hash }

(* Whether SetProposedBlock refuses a height, given the ledger height it   *)
(* read before taking its own lock.                                        *)
SetProposedBlockRefuses(h, currentHeight) == currentHeight >= h /\ h # 0

SetProposedBlock(cache, hd, blk, rw, self) ==
  LET e == [blk |-> blk, rw |-> rw, self |-> self]
  IN  (hd.height :> ((CalcBlockFingerPrint(hd) :> e) @@ At(cache, hd.height))) @@ cache

ClearTheBlock(cache, hd) ==
  IF hd.height \notin DOMAIN cache THEN cache
  ELSE [cache EXCEPT ![hd.height] =
          Restrict(@, DOMAIN @ \ {CalcBlockFingerPrint(hd)})]

(* Map iteration is unordered: any self-proposed entry may be returned.    *)
GetSelfProposedBlockAt(cache, h) ==
  { e \in GetProposedBlocksAt(cache, h) : e.self }

HasProposedBlockAt(cache, h) == h \in DOMAIN cache

(* The entries whose header has another hash are handed back and their     *)
(* keys deleted; the keys are recomputed from the headers.                 *)
KeepProposedBlock(cache, heap, hash, h) ==
  LET drop == { e \in GetProposedBlocksAt(cache, h) : BlockHash(heap[e.blk.obj]) # hash }
      keys == { CalcBlockFingerPrint(heap[e.blk.obj]) : e \in drop }
  IN  [cache |-> IF h \in DOMAIN cache
                   THEN [cache EXCEPT ![h] = Restrict(@, DOMAIN @ \ keys)] ELSE cache,
       cut   |-> { e.blk : e \in drop }]

(* Everything above a height is dropped and handed back to the caller.     *)
DiscardBlocks(cache, h) ==
  LET above == { g \in DOMAIN cache : g > h }
  IN  [cache |-> Restrict(cache, DOMAIN cache \ above),
       cut   |-> UNION { { e.blk : e \in GetProposedBlocksAt(cache, g) } : g \in above }]

-----------------------------------------------------------------------------
(* Snapshot manager: fingerprint -> [height, pre], where pre is the        *)
(* fingerprint of the snapshot it reads through, or NoHash when it reads   *)
(* the ledger.                                                             *)

NewSnapshot(snaps, prev, hd) ==
  LET fp  == CalcBlockFingerPrintWithoutTx(hd)
      pfp == CalcBlockFingerPrintWithoutTx(prev)
  IN  (fp :> [height |-> hd.height, pre |-> IF pfp \in DOMAIN snaps THEN pfp ELSE NoHash])
        @@ snaps

GetSnapshot(snaps, prev, hd) ==
  IF CalcBlockFingerPrintWithoutTx(hd) \in DOMAIN snaps THEN snaps
  ELSE NewSnapshot(snaps, prev, hd)

NotifyBlockCommitted(snaps, hd, window) ==
  LET fp == CalcBlockFingerPrintWithoutTx(hd)
      cutLinks == [ k \in DOMAIN snaps |->
                      IF snaps[k].pre = fp THEN [snaps[k] EXCEPT !.pre = NoHash]
                      ELSE snaps[k] ]
      old == { k \in DOMAIN snaps : hd.height > snaps[k].height
                                    /\ hd.height - snaps[k].height > window }
  IN  Restrict(cutLinks, DOMAIN snaps \ (old \cup {fp}))

(* The children of a cleared snapshot keep their link to it.               *)
ClearSnapshot(snaps, hd) ==
  Restrict(snaps, DOMAIN snaps \ {CalcBlockFingerPrintWithoutTx(hd)})

-----------------------------------------------------------------------------
(* Transaction pool (external): a transaction is queued, or pending because*)
(* it was fetched or seen in a proposal.                                   *)

(* Fetched transactions that are already on the chain are pruned.          *)
FetchTxs(pool, s, onChain) ==
  [queue |-> pool.queue \ s, pend |-> pool.pend \cup (s \ onChain)]

AddTxsToPendingCache(pool, s) ==
  [queue |-> pool.queue \ s, pend |-> pool.pend \cup s]

(* A retried transaction goes back to the queue unless it is on the chain; *)
(* a removed one leaves the pool.                                          *)
RetryAndRemoveTxs(pool, retry, remove, onChain) ==
  [queue |-> (pool.queue \cup (retry \ onChain)) \ remove,
   pend  |-> (pool.pend \ retry) \ remove]
=============================================================================
