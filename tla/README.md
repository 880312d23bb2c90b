# TLA+ models of the PDCC transaction schedulers

This directory specifies, model-checks and proves properties of the part of the
repository that decides which transactions go into a block, in which order and
with which results: the PDCC (WRIA) scheduler, its deterministic alternatives
Aria and Serial, ChainMaker's optimistic scheduler, the block graph built by the
optimistic scheduler, its execution on another node, and the snapshot they share.

`PROJECT.json` lists components, runs, mutants, hazards, findings and theorems,
and maps every definition to the source lines it stands for.

## 1. Inventory of the system

A node takes transactions from its pool. The proposer runs them on a snapshot of
the last block and packs them. The block is agreed on by consensus. Every other
node runs the block again in its verifier, and all of them commit it.

| Part | Source | Here |
|---|---|---|
| PDCC (WRIA) scheduler | `module/core/common/scheduler/deterministic/pdcc` | `PDCC`, `PDCCProofs`, `MCPDCC` |
| Aria scheduler | `.../deterministic/Aria` | `Aria`, `AriaProofs`, `MCAria` |
| Serial scheduler | `.../deterministic/serial` | `SerialScheduler`, `MCSerialScheduler` |
| Running one transaction | `.../deterministic/common_vm.go`, `scheduler/run_vm.go`, `gas.go` | operators of `Transactions` (partly) |
| Optimistic scheduler | `module/core/common/scheduler/scheduler.go` | `TxScheduler`, `MCTxScheduler` (partly) |
| Execution by graph | same file, `SimulateWithDag` | `DagSimulation`, `MCDagSimulation` (partly) |
| Snapshot of a block | `module/snapshot/snapshot_impl.go` | `Snapshot` (partly), `BlockDAG`, `MCBlockDAG` |
| Sender collection, gas charging | `scheduler/sender_collection.go`, `gas.go` | planned |
| Conflict window | `scheduler/conflicts_window.go` | planned |
| Quick schedule, `dealSZTx` | `scheduler.go`, `snapshot_impl.go` | planned |
| Snapshot manager | `module/snapshot/snapshot_manager.go` | planned |
| Evidence snapshot | `module/snapshot/snapshot_evidence.go` | delegates; no state of its own |
| Deterministic proposer, verifier | `module/core/syncmode/{proposer,verifier}/*_deterministic_impl.go` | planned |
| Optimistic proposer, verifier | `module/core/syncmode/{proposer,verifier}` | planned, as a second instance |
| MaxBFT proposer, verifier | `module/core/maxbftmode` | planned after those |
| Core engine | `module/core/syncmode/core_syncmode_impl.go` | planned, as the composition |
| Block helper, committer | `module/core/common/block_helper.go` | planned |
| Proposal and ledger cache | `module/core/cache` | planned |
| Block synchronisation | `module/sync` | planned, last |
| Transaction filters | `module/txfilter` | planned, small |
| Access control, RPC, subscriber | `module/{accesscontrol,rpcserver,subscriber}` | not modelled: predicates and I/O |
| Network, pool, consensus, VM, store | `module/{net,txpool,consensus,vm}` | factories; the implementations are vendored |
| Node assembly, tools | `module/blockchain`, `main`, `tools` | not modelled |

## 2. Modules

```
 Transactions ── what a transaction is: locations, read/write sets, ExecuteTx
   ├─ SerialLedger        abstract: transactions run one after the other
   ├─ PDCC ── PDCCProofs          refines SerialLedger (checked and proved)
   ├─ Aria ── AriaProofs          serializable round by round
   ├─ BlockDAG                    BuildDAG as operators
   ├─ Snapshot                    tables of SnapshotImpl, steps of an apply
   │    ├─ SerialScheduler        refines SerialLedger (checked)
   │    ├─ TxScheduler            with BlockDAG; refines SerialLedger (checked)
   │    └─ DagSimulation          with BlockDAG
   └─ SampleContracts             small contracts for TLC
```

**Transactions.** A location is a pair of a contract and a key name. The code
uses the pair in some places and the bare name in others, and several properties
turn on the difference. `RunVM(tx, view, store)` is a parameter: any function
whose result depends on the view only through what it read. That is what the
simulation context enforces by putting every value it returns into the read set.
The third argument is the committed store, which iterators read directly.
`GetTxRWSet` drops the writes of a failed run except those to the gas accounts.

**SerialLedger.** The abstract specification: a block is filled by running
pending transactions one at a time, each on the state its predecessors left.

**PDCC.** One call of `Schedule` per block; `pc` is the phase.

| Action | Code |
|---|---|
| `Schedule` | the call: lock, empty block, new map |
| `Select` | phase 1, a prefix of the remaining batch |
| `Execute(i)` | phase 2, the goroutine of transaction `i`, in any order |
| `DetectConflicts` | `wg.Wait`, phases 3 to 5: version lists and read-after-write conflicts |
| `Recheck`, `RecheckDone` | phase 6, rescue of those whose conflicting predecessors are all aborted |
| `Commit`, `Abort`, `EndRound` | phases 7 and 8: merge of writes by key name, apply, order of the block, aborted ones back to the front |
| `Finish`, `Timeout` | end of the loop, with the batch-size adjustment |

**Aria.** Goroutines reserve key by key. `LoadOrStore` of an entry and the locked
update of it are two steps, so the races between them are explored. The conflict
check of one transaction applies its writes while others still check.

**Snapshot.** The tables of `SnapshotImpl`. Readers take no lock, so an apply is
three steps: the writes become visible, the read/write set is listed, the
transaction is listed. Sealing is separate from the lock, as in the code. The
read table is left out: it caches values that `GetKey` would find below.

**SerialScheduler.** The caller, the goroutine it does not wait for, the deadline,
`Halt`, a panic of the goroutine and the two channels.

**TxScheduler.** The caller, the handler with its channel, the pool of workers,
sender groups, the time limit, `Halt`, and `scheduleFinishC`, which belongs to
the scheduler and not to the call. A run reads while others apply. The model
therefore keeps for every worker the values each location has had since its run
began, and lets each read return any of them. Transactions with iterators are
set aside and run one by one at the end.

**BlockDAG, DagSimulation.** `BuildDAG` as operators over the list of read/write
sets, and `SimulateWithDag` as the loop, the goroutine of each transaction and
the caller. The blocks it is given are those `Schedule` can leave.

## 3. What is checked

All passing runs start from every initial state of the small store, and take
every list (or set) of the sample transactions up to the stated length.

| Run | States | Shows |
|---|---|---|
| `pdcc` | 124,536 | block serializable in its own order; aborts exactly those that read a committed predecessor's write; result independent of the interleaving; every round commits something; the call returns without its timeout |
| `aria` | 310,432 | aborts follow Rule 2 of the paper whatever the interleaving; committed ones have a serial order (not the one of `block.Txs`); the block is a function of its input; the call returns |
| `serial` | 76,404 | serializable; the block is a prefix of the batch, all of it if no deadline was met; every packed transaction has a read/write set; the call returns even if a contract never does |
| `block_dag` | 44,136 | every conflict is ordered by a path of the graph; no transaction waits for one it does not conflict with |
| `occ` | 286,066 | serializable although runs overlap applies; graph, transactions and read/write sets of a block belong together, however the call ended |
| `occ_groups` | 169,272 | a sender's transactions keep their order; none is lost; the call ends without its time limit |
| `dag_simulation` | 26,702 | no apply fails; results and final state are those of the proposer; the call returns without its time limit |

Five runs end in a counterexample. Each shows a disagreement between the code and
a comment in the repository, quoted in `PROJECT.json` under `findings`.

| Run | Shows |
|---|---|
| `pdcc_two_contracts` | writes are merged by key name: of two writes to one name in two contracts only one reaches the snapshot |
| `pdcc_iterators` | iterators see the list of read/write sets, which PDCC does not fill: a scan in a later round misses earlier rounds |
| `serial_seal` | a transaction being applied when the deadline seals the snapshot is still added to it |
| `occ_stale_signal` | after a call ended by `Halt`, its handler's signal ends the next call early |
| `dag_simulation_clash` | a dependency lost by `BuildDAG` (one key name written in two contracts) makes an apply fail; the loop then sends twice on a channel only it receives from, and the call never returns |

**Bounds.**
- `MaxTx` is the longest batch. Three transactions are the least for a rescue in
  PDCC (one aborts, one conflicts only with that one) and for a chain of
  conflicts. `pdcc` has four, so that a second round is not the last.
- Three keys (two where a run has more processes) and two values are enough for a
  chain and for a branch on a value.
- The sample contracts contain blind writes, chains, a read that decides what is
  read next, a failing run and, where they are supported, iterators.
- `occ` has two calls, so that signals of the first can reach the second, and one
  `Halt`. Its batches are sets: without sender groups the order does not matter.
  Workers are symmetric there, and no liveness is checked under symmetry.
- `occ_groups` checks liveness with the SQL setting, in which the graph is a chain.
- `block_dag` has blocks of up to three transactions with up to two accesses each.
- PDCC's sizes (`HighBatchSize` 3, `LowBatchSize` 2) are small enough for a block
  to need several rounds. `MaxHeight` bounds the number of calls.

**Fairness.** Goroutines that can run do run, so steps of handlers, workers and
callers are weakly fair. No caller is ever obliged to call. `serial` assumes the
clock reaches the deadline and nothing of the contracts. `pdcc`, `aria`,
`occ_groups` and `dag_simulation` assume that contracts end and nothing of the
clock: their calls return without it. `dag_simulation_clash` assumes both, with
strong fairness for the timeout because Go's `select` is fair; the call still
does not return. Deadlock checking is off in all runs, because a state in which
all calls have returned and the bound on calls is reached is a normal end;
whether calls return is asked by the liveness properties.

**Mutants.** Each property of a passing run has a mutant, a small wrong version
of one definition kept just before it in the module, that violates it.

## 4. What is proved

TLAPS checks `PDCCProofs` and `AriaProofs`, for every set of transactions,
contracts, keys, values, every contract behaviour `RunVM`, every batch and batch
size. Assumed are only the named `ASSUME`s: `RunVM` is typed and depends on what
it reads, batches have no repetition, sizes are positive, contracts are numbered.

**PDCC.**
- `TypeCorrect`; `AbortsAreExplained` (`AbortsExplained`); `RoundsMakeProgress`
  (`RoundsShrinkTheBatch`).
- `Serializability`: `Spec => Serializable`, that is, `Schedule` implements
  `SerialLedger`, under the side conditions `NoKeyClash` (no key name is written
  in two contracts) and `NoIterators`. The two counterexample runs show that
  neither condition can be dropped.

The inductive invariant `IInv` adds to the types: what finished goroutines have
recorded (`RunsRecorded`), which arrays are in use in which phase (`RoundShape`),
what rechecking has settled and what it has yet to look at (`FlagsSettled`, the
heart of it, because rechecking changes flags that later iterations read), that
each merged write was made by a committed transaction (`MergedByCommitted`) and
that no transaction is in two lists (`NoTxTwice`). Serializability then follows
from one fact: a committing transaction has read nothing that is in
`mergedWrites` (`NoStaleRead`), so by locality of `RunVM` its run is the serial
one. `Commit` maps to `RunTx`, `Schedule` to `NewBlock`, the rest to stuttering.

**Aria.**
- `TypeCorrect`, `AbortsFollowTheRule` (`AbortRule`), `CommittedHaveAnOrder`
  (`ReadersFirst`), `RoundsReplay`, `RoundsMakeProgress`.

The invariant describes a reservation under way (`Reserving`: an entry a goroutine
has passed holds an index no larger than its own, unless it is about to lock it)
and a finished one (`Reserved`: the entry of a key holds its smallest owner), for
each of the two tables and each phase.

**Only model-checked.** Liveness; everything about `SerialScheduler`,
`TxScheduler`, `DagSimulation` and `BuildDAG`; `OutcomeDetermined` and Aria's
`RoundSerializable`, which compare with recursive reference definitions
(induction over data is out of the prover's reach). `RoundsReplay` is the
non-recursive core of `RoundSerializable`.

## 5. Left out of the modelled components, and why

- Digests, signatures, time stamps, metrics, logging and event lists: no property
  distinguishes them.
- The version-dependent guards of transactions, gas limits and refunds: folded
  into `RunVM`, planned as a module.
- `TxScheduler`: gas charging and coinbase transactions at the end of a block, the
  quick path, and the adaptive pool size (the number of workers is a constant;
  more workers only add interleavings).
- `Snapshot`: `GetKeys` and blacklists, and the previous snapshot, which is the
  `store` below this one.

## 6. Plan

Built so far: everything in sections 2 to 4. Next, in this order:

1. **ConflictWindow** and the adaptive pool: the window against a direct count,
   and the rate between the two thresholds.
2. **SnapshotManager**: snapshots of uncommitted blocks as a tree; a read through
   the chain equals the state of the chain's blocks, also across commit and clear.
3. **Proposer**: the loop, the idle flag and `finishProposeC`. One proposing at a
   time; a yield never blocks for ever (`yieldProposing` sends while it holds
   `idleMu`, which the receiver needs next).
4. **Verifier**, **proposal cache** and **AddBlock**: what a failed schedule or a
   failed commit leaves behind; heights read before the lock.
5. **Replicas**: composition of PDCC, proposer, verifier and commit on several
   nodes, whose time limits differ; agreement on the block.
6. **Gas and sender collection** on top of `TxScheduler`; quick schedule.
7. **Core engine** composing 3 and 4; the optimistic pair as a second instance.
8. **Synchronisation** and **transaction filters**.

Theorems to add: serializability of `SerialScheduler` and of `TxScheduler`
(invariant: an entry of the write table carries the index of its writer, and a run
that passes `Applicable` has read values still current), type correctness of
both, at-most-one proposing for the proposer, and the chain invariant of the
snapshot manager. Runs to add: one per module above, a PDCC run of several blocks
for the batch-size adjustment, and one on replicas.

## 7. Running

```
tlc -workers 2 -config MCPDCC.cfg MCPDCC      # likewise for the other .cfg files
tlapm PDCCProofs.tla
tlapm AriaProofs.tla
```
