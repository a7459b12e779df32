# Formal models of the KmushiCoin node

KmushiCoin is a proof-of-stake node of the Bitcoin family (by way of PIVX): a
block chain with transparent and shielded (Sapling) coins, masternodes and a
budget. This directory holds TLA+ models of the parts of the node that decide
which chain is active, that keep its state correct across caches, flushes, crashes
and restarts, and that follow the chain (masternode lists, memory pool, callbacks),
with TLC configurations and TLAPS proofs.
`PROJECT.json` maps every definition to the lines it models.

Paths below are relative to the repository's `src/` directory.

## 1. The system

| part | state | operations | interacts with |
|---|---|---|---|
| coin caches (`coins.cpp`, `txdb.cpp`) | per layer: outpoint -> coin with DIRTY/FRESH, usage counter, best block | fetch, add, spend, uncache, flush into the parent, prune banned outputs | chain state, mempool |
| shielded caches (`coins.cpp`, `sapling/sapling_txdb.cpp`) | anchors, nullifiers, best anchor, per layer | push and pop an anchor, set and clear nullifiers, flush | chain state |
| EvoDB (`evo/evodb.*`, `dbwrapper.h`) | database, root transaction, current transaction, batch | write, erase, read, scoped commit or rollback, root commit | special transactions, flush |
| chain state (`validation.cpp`, `txdb.cpp`, `init.cpp`) | coin database with its best block or two heads, EvoDB best block, block index on disk; the same in memory | connect, disconnect, flush in batches, shutdown, replay, verify, reindex | all of the above |
| chain selection (`validation.cpp`) | block index flags, candidate set, unlinked blocks, active tip, the loop's target | accept a block, activate the best chain, invalidate, reconsider, reload | chain state, RPC threads |
| callbacks (`scheduler.cpp`, `validationinterface.cpp`) | task queue, callback list, running flag | schedule, process, drain | wallet, ZMQ, masternodes |
| script checks (`checkqueue.h`) | queue, todo and idle counters, combined result | add, work, wait | ConnectBlock |
| HTTP work queue (`httpserver.cpp`) | bounded queue, running flag | enqueue, run, interrupt | RPC |
| deterministic masternodes (`evo/`) | lists and diffs in EvoDB, two caches | process block, undo block, look up, clean up | EvoDB |
| masternode sync (`masternode-sync.cpp`, `tiertwo_networksync.cpp`) | asset, attempts, times, per-peer requests | tick, reply, reset | peers, sporks |
| legacy masternodes, payments, budget, sporks | signed messages, votes, orphans | receive, count, clean up, relay | peers, blocks |
| mempool (`txmempool.cpp`) | entries, links, totals | add, remove, trim, reorganise | coin caches, blocks |
| block download, connections, addresses (`net*.cpp`, `addrman.cpp`) | blocks in flight, peers, tables | request, receive, time out, evict | chain selection |
| wallets (`wallet/`, `sapling/`) | transactions, keys, witnesses | block and transaction notifications, spend | callbacks |

What makes these parts hard to test: a flush is several database batches, and the
process can die between any two of them and again during the recovery; two
databases are committed one after the other; the flags of one cache entry depend
on the whole history of two layers; the loop that activates a chain gives its lock
back between iterations and keeps a pointer it read before; operators change
validity flags by hand; two thread pools sleep and wake on condition variables; the
masternode lists and the memory pool are never recomputed, only updated, block by
block and back again. The hazards are listed with their lines in `PROJECT.json`.

## 2. The modules

### CoinsCache, UtxoLayers, CoinsCacheProofs

`CoinsCache` is `CCoinsViewCache` twice, `tip` (pcoinsTip) and `view` (the view
that applies a block), over `db` (`CCoinsViewDB`). A cache is a record of
`cacheCoins`, `cachedCoinsUsage` and `hashBlock`; an entry is a coin with its DIRTY
and FRESH flags. Every public operation on coins is an action at every layer:
reads that fill the caches, `AddCoin` with and without overwrite, `SpendCoin`,
`SetBestBlock`, `Uncache`, opening, flushing and dropping a view, flushing
pcoinsTip, `PruneInvalidEntries`. The callers' discipline is in the guards: a coin
is added without overwrite only where none is unspent. `thrown` records a logic
error of `AddCoin` or `BatchWrite`.

`UtxoLayers` is the promise: three plain maps, copied whole by a flush.

* `FlagsMeanWhatTheySay`: a clean entry agrees with the layer below, a FRESH one
  has no unspent coin below it.
* `NeverThrows`: the two logic errors are unreachable.
* `UsageIsSum`: the counter that triggers flushes equals the memory of the coins. The
  code adds the memory of the Sapling anchor trees to the same counter
  (`coins.cpp:204`, `442`, `487`); that part is left out.
* `Refinement`: the caches implement `UtxoLayers`.

### SaplingCache, ConnectProofs

The other maps of the same class: anchors (a tree per root), nullifiers and the
best anchor, in a view, in pcoinsTip and in the database, driven by
`ConnectBlock` (begin, one spend at a time, finish or abandon) and
`DisconnectBlock`. A tree is the sequence of its leaves and its own root. A block
spends at most one note per step; a flush is one step here.

* `TipShowsChain`, `DbShowsFlushedChain`: what pcoinsTip and the database answer
  for every root and nullifier is a function of the chain they stand for.
* `AssertionsHold`: the assertions of `PopAnchor` and `ConnectBlock`.
* `NoDoubleSpend`: no nullifier appears twice in the chain.

### EvoDB, TransactionLayers, EvoProofs

`EvoDB` is `CEvoDB`: the database, `root`, `cur` (both `CDBTransaction`) and
`rootBatch`. Writes, erasures, the scoped committer, the root commit, a `WriteBatch`
that throws and a crash are actions. `CommitRootTransaction` takes no lock and empties
the root transaction before the batch is written, so it is two steps, and what a `Read`
returns (`Shown`) goes through the two transactions to the database and never through
the batch. `TransactionLayers` is the promise, four plain maps: `durable`; `pending`,
what the disk will hold after the flush that is running or has to be repeated;
`committed`; and `working`, what readers see.

* `WritesAndDeletesDisjoint`: no transaction has a key as written and deleted.
* `MemoryUsageIsSum`: the signed counter equals what it counts.
* `Refinement`: the transactions implement `TransactionLayers`. During a flush, and
  after one that failed, readers see the durable state; the batch that could not be
  written stays for the next flush and only the end of the process loses it.

### Chainstate, ChainstateProofs

`ConnectTip` and `DisconnectTip` work on the modified entries of pcoinsTip;
`FlushStateToDisk` is a sequence of steps (block index, any number of partial
batches over arbitrary subsets, the last batch, the EvoDB commit); `Crash` may come
between any two. After a crash come `Start` or `ReplayBlocks` and its flush,
`VerifyDB`, and `Reindex` when the node refuses to start. `VerifyDB` checks any number
of blocks, none included.

Every write of a flush may fail: the block index (`WriteBlockIndexFails`), the coins
(`WriteBatchFails`), the EvoDB (`CommitRootTransactionFails`), and `CheckDiskSpace` may
refuse before the first two. All end in `AbortNode`, which only requests a shutdown:
until the main thread acts on it (`Shutdown`, `flushesLeft` from `Requested` to 2)
blocks are still accepted, connected and flushed. A failed write takes something with
it. The entries of a failed batch have left pcoinsTip (`lostCoins`), and the dirty
marks of the block index are gone (`lostIndex`, until a block becomes dirty again).
`spoiled` records which database was written to after such a loss. A block whose
inputs the damaged cache does not show is marked invalid (`InvalidBlockFound`).
`BatchWriteAsserts` is the failed assertion on the heads, `ReplayFails` a write that
throws during start-up; both end the process.

* `CoinsMatchBestBlock`: when the coin database names a best block it holds exactly the
  unspent outputs of that block, unless it was written to after a batch was lost;
  `TipMatchesUtxo` says the same of what pcoinsTip shows while the node runs, as long
  as this process has lost no batch.
* `ReplayCanFinish`: in an unfinished transition the EvoDB on disk stands at the old
  head, and every block the coin database names is in the index on disk, unless the
  index was written to after dirty entries were lost. In that case the coin database
  can name a block that the index does not have.
* `ReplayTargetAgrees`: the assertion on the heads in `BatchWrite` holds in every
  replay; in a flush it can fail only when a batch of the same process has failed. That
  it can fail then is real: after a failed second batch the process connects another
  block, and its next flush finds a transition to the earlier tip.
* `StaleEvoStopsChain`: the node never extends or shortens the chain while its EvoDB
  shows another block than the tip.
* `InterruptedFlushCompletes`: a transition begun on disk is eventually finished,
  unless the index was spoiled.
* `BestBlockMeansConsistent` (`CoinsMatchBestBlock` without its exception) and
  `ReplayRestoresAll` (a coin database that names a best block has its shielded
  records) are violated: see section 6.

A coin is the height that created it. Of the shielded state the model keeps the
blocks whose records are on disk, of the EvoDB its best block. Blocks do not spend
their own outputs. Block and undo files are readable whenever the index on disk
names them. `Base` is not the genesis block, for which `VerifyDB` returns at once. An
index on disk that misses the parent of one of its blocks is taken as unusable; the
code makes an empty entry for the parent. When a flush inside `ConnectTip` fails,
pcoinsTip is a block ahead of `chainActive` and the next block fails an assertion; this
counts as a crash.

### ChainSelection, ChainSelectionProofs

The block index with its flags, `candidates`, `unlinked`, the tip, and the loop of
`ActivateBestChain`: `Activate` is one turn of its inner loop. `phase` says who
holds cs_main: `released` is the gap between two iterations, in which everything
else can happen; `held` is an inner turn that left the tip worse than it was.
`mostWork` is the `pindexMostWork` kept across the gap. `AcceptBlock` includes
`ReceivedBlockTransactions` with its queue; `AcceptHeaderOnly` and
`AcceptBadContext` are the paths that leave a header without data.
`InvalidateBlock` and `ReconsiderBlock` are the RPC calls; each ends in a call of
`ActivateBestChain` (`owed`; several pending calls count as one, because the loop
looks for the best candidate anew). `Restart` is a clean stop and reload:
sequence numbers are 0, ties of work go to memory addresses, and a
`BLOCK_FAILED_CHILD` flag that made no entry dirty may be lost.

* `CandidatesMatchTree`, `LinksMatchTree`, `FailureHasCause`: what `CheckBlockIndex`
  asserts, whenever cs_main is free.
* `ActiveChainValid`: no block of the active chain is marked failed.
* `PruneLeavesCandidate`: the assertion of `PruneBlockIndexCandidates`.
* `TipIsBest`: at rest, no usable chain has more work than the active one.
* `ForwardProgress` (action property): cs_main is never given back on a tip worse
  than the one the iteration started from.
* `ActivationEnds` (liveness): activation ends, whatever invalid blocks it meets.

A block's validity is fixed by constants (`BadContext`, `BadConnect`). No block
file is deleted, so a candidate's path has its data. How far back `ForkAcceptable`
reads a side branch is left open: it asks only that the parent's data is there. Out of
the model: system
errors (in `Chainstate`), and the reconsideration of checkpointed blocks in
`GetPrevIndex`.

### CallbackQueue, SerialExecutor, EvoProofs

`CallbackQueue` is `SingleThreadedSchedulerClient` on `CScheduler`, with
`SyncWithValidationInterfaceQueue` and the shutdown that interrupts the threads and
drains the queue on the main thread. A step is one critical section of
`newTaskMutex` or `m_cs_callbacks_pending`, or the code between two of them; wake-ups
may be spurious and notifications reach one sleeping thread. A callback may add
another. `SerialExecutor` is the promise: first come, first served, one at a time.

* `CallbacksSerial`: the queue implements `SerialExecutor` on any number of threads.
* `CallbackNotForgotten`: no callback and no wake-up is lost in the window between
  the two locks, or at shutdown.
* `SyncLeavesNothingPending`: what `SyncWithValidationInterfaceQueue` guarantees.
* `CallbacksExecuted` (liveness): every callback is executed.

Periodic tasks, due times and `stop(drain)` are left out.

### CheckQueue, ConnectProofs

`CCheckQueue`: the thread that connects a block adds checks, workers take batches,
and the master works along in `Wait`. `LoopStart` is the part of `Loop` under the
mutex, shared by the three ways into it.

* `VerdictRight`: `Wait` returns the conjunction of the checks of this block.
* `IdleBetweenBlocks`: the assertion of `CCheckQueueControl`.
* `WaitReturns` (liveness): the master does not wait for ever.

### MNParams, MNList, MNChain, MNManager, MNListProofs, MNChainProofs, EvoProofs

`MNList` has the operations of `CDeterministicMNList` (add, update, remove, diff,
apply, unique properties with their counts, the payment order) and
`BuildNewListFromBlock` with the checks of the provider transactions; a list carries
how the call that made it ended. The loops of the code are recursive functions over a
sequence: a diff's ids ascend as in its `std::map` and `std::set`, its additions are
sorted by id, and where the code follows a hash map any order will do. `MNChain` runs them along a chain; the list a block
starts from is the one a later look-up finds. `MNManager` is where lists
come from: snapshots and diffs in the database, two caches, the clean-up,
`UpdatedBlockTip` through the callback queue, failed blocks, undone blocks, restarts.
There a list is named by its block, and a diff on the wrong list gives `Wrong`. Below
it is the EvoDB with its root transaction, batch and disk. The flush writes the coin
tip first, then the root commit runs in two steps; while it runs each read of a lookup
(`Views`) finds an entry that is on its way to the disk or misses it. `ProcessBlock`
releases its lock before it cleans the caches; the clean-up only drops entries, and is
one step with the rest here.

* `StoredListReproduces`: the stored diff or snapshot gives the block's list back.
* `UniquePropertiesExact`: the map of unique properties is what is in use.
* `ListFailsOnlyOnRevoked`: the list's exceptions are unreachable, its assertions
  fail only for a revoked masternode. `ListAssertionsHold`, without that exception,
  is violated: see section 6.
* `PaymentQueueFair` (action property): nobody overtakes a masternode that is valid
  before and after a block and that the block neither pays nor revives.
* `ListsAvailable`: for every block of the active chain and of the chain of the
  manager's own tip `GetListForBlock` never gives a wrong list, also to a reader that
  overlaps a root commit. It throws only while the root commit runs, while the EvoDB
  is behind the chain, or, for a disconnected block, while a batch that could not be
  written waits for the next flush.

Left out: `PoSePunish` (nothing calls it), voting keys, payout scripts, quorum
scores, projected payees, collaterals created by the registration itself, and the
switch that ends legacy masternodes. After `InvalidateBlock` the manager's tip stays
at the old block, as in the code, until the next tip is announced.

### Mempool, MCMempool

`Mempool` is `CTxMemPool` with the callers that change it. `pool` is one record:
entries, links both ways, totals over ancestors and descendants, fee deltas,
`mapNextTx`, nullifiers and the two memory counters. `AcceptToMemoryPool` includes
the checks of the worker, expiry and trimming; `Activate` is a whole reorganisation:
blocks disconnected into a bounded `disconnectpool`, blocks connected
(`removeForBlock`), then `UpdateMempoolForReorg`. It may end early at an invalid
block or, without `fAddToMempool`, at a system error. `LoadMempool` is the prioritise
and accept steps that follow `EmptyRestart`. Every block's coins, nullifiers and
anchors are functions of the block. Ties between entries of one fee rate, which the
code breaks by entry time, are free.

* `LinksMatchInputs`: links, marks and memory counters are what the transactions
  in the pool say, and the size limit holds.
* `TotalsMatchPackages`: the totals are the sums over the real packages, also when
  part of a package comes back from a block; no assertion on totals fails.
* `PoolIsMinable`: every input is in the pool or an unspent, mature coin, anchors and
  nullifiers fit the tip, everything is final.

Left out: provider-transaction maps, zerocoin, signature operation counts, the
rolling minimum fee, the fee estimator, the absurd-fee check and a flush that fails
inside `ConnectTip`. The scripts are valid.

## 3. The runs

Modules that share no state are checked in one run, each behaviour exercising one of
them: a variable of the MC module (`part`, `focus`) says which.

| run | instance | checks |
|---|---|---|
| `coins_cache` | coins: 2 outpoints (one banned), 3 coins (one unspendable), 2 hashes; shielded: 2 leaves, trees of 2, 1 nullifier, 3 blocks; pool: 11 transactions, 6 blocks on 3 branches | flags, no throw, usage, refinement; both shielded layers show the chain, assertions, double spends; links, totals, minability |
| `chainstate_recovery` | two branches of 2 blocks, 5 outputs, 2 crashes, 1 failing write of any database | coins, replay, the heads assertion, EvoDB, completion |
| `chain_selection` | branches of 2 and 3 blocks, the last one invalid, 2 calls, 1 restart | all safety of ChainSelection |
| `activation_ends` | two branches and a refused block, 1 call | liveness |
| `node_threads` | 2 service threads, 2 clients, the main thread, 2 callbacks, 1 spurious wake-up; 2 workers, 4 checks in batches of 2 | both pools, safety, refinement and liveness |
| `masternodes` | 4 registrations, up to 5 transactions, 4 heights; 3 blocks on 2 branches; 2 keys and 2 values of different sizes | lists, manager, EvoDB transactions and their refinement |
| `replay`, `failed_flush`, `stale_most_work`, `reconsider_best_chain`, `revoked_masternode`, `evicted_parent` | as above | one violated property each, section 6 |

**Bounds.** The coin model has no counters and its run is exhaustive for the given
sets; the EvoDB instance holds at most four keys in its transactions and batch together
(`MaxChanges`), enough for each of two keys to be in two of them. Since every operation touches one key at a time (a flush
treats keys independently), two keys already show every interplay; the proofs cover
any number of keys. In `Chainstate` the branches share an output created at different heights
and both spend one output of the base, the case in which a half-applied flush of a
reorganisation is ambiguous; two crashes allow a crash during the replay that
follows a crash. In `ChainSelection` the longer branch is the invalid one, so a
reorganisation starts, fails and must return; `MaxReorg` 2 lets the fork limit
refuse blocks; the memory layouts include one that orders ties either way. In
`CallbackQueue` two callbacks and two service threads suffice for a callback that is
added while another one is finishing; in `CheckQueue` four checks in batches of two
keep a worker busy while others sleep. In `MNChain` two registrations compete for a
collateral, keys and addresses collide, and `DISK_SNAPSHOT_PERIOD` 3 gives heights
with and without a snapshot. In `MNManager` all three blocks can be in memory, and a
restart finds at most two of them on disk (`MaxFlushed`, a bound of the instance);
restarts from longer chains, and the eviction of an entry from the caches while it is
still needed, do not occur at this size and are covered by the theorem.
In `Mempool` a transaction, its child and a grandchild that spends both form a
diamond of which a block confirms a part, another branch spends the same coin, and
the limits (2 ancestors, 3 descendants, `MaxMempool` 20, two transactions in the
`disconnectpool`) are all reached. One `PrioritiseTransaction`, one expiring entry.

**Restricted environments.** `chain_selection` and `activation_ends` let the two
RPC calls come only while no activation runs (`RpcDuringActivation` FALSE) and
reconsider only children of the genesis block. Without these restrictions the
properties fail: `stale_most_work` lifts the first restriction, `reconsider_best_chain`
the second.

In the pool of `coins_cache` the transaction that blocks confirm pays well, so a
reorganisation does not evict it; `evicted_parent` lets it pay little.

**Deadlock** is checked in `coins_cache` and `chainstate_recovery`. In the others
blocks, calls, callbacks or transactions are finite and the system may come to rest;
that no thread sleeps for ever is the subject of `CallbackNotForgotten`,
`CallbacksExecuted` and `WaitReturns`.

**Fairness.** `Chainstate!FairSpec`: the steps of a flush, of a shutdown and of
the start-up sequence are taken when possible, since they are straight-line code of one
thread under cs_main; the main thread, which polls for the request, begins the
shutdown; a failed assertion ends the process; and a node that is down is started again. Crashes and
failing writes are not fair and bounded. `ChainSelection!FairSpec`: a thread that called
`ActivateBestChain` gets its two locks and goes on. The code that is modelled waits for
nothing while it holds cs_main. One path outside the model does: `GetPrevIndex`
(`validation.cpp:2985`) calls `ActivateBestChain`, and so waits for m_cs_chainstate,
with cs_main held. It can block against a thread that holds m_cs_chainstate, and
`ActivationEnds` says nothing about a node that takes it; it is listed as a hazard.
`MCNodeThreads!ThreadsFairness`: the operating system runs every thread that can go
on, a notified one included, and a `CCheckQueueControl` calls `Wait` before it goes
out of scope (its destructor does). Nothing wakes a thread nobody notified, and
nobody has to add callbacks or blocks or to stop the node.

## 4. The proofs

For every value of the constants, from the named assumptions of the modules only.
Where the code has a fixed-width field (a transaction hash with an output number, a
database key, a block hash) the set of its values is assumed finite, which sums and the choice
of a best block need. Blocks form a tree: `pprev` leads from each one down to the first,
stated as well-foundedness of `Parent`, so that chains may have any length. Other
assumptions: special values are distinct from ordinary ones, sizes are numbers, thread
sets are disjoint, worker and check sets are finite. `Chainstate!UniqueOutputs` says that
a block creates no output that is unspent before it: transaction ids do not repeat,
since a coinbase names its height (`bad-cb-height`) and any other transaction spends
outputs that are gone afterwards. `ConnectBlock` itself does not check it.

* `CoinsCacheProofs!TypeCorrect`, `FlagsCorrect`, `NoThrow`, `CachesRefineMaps`.
  The inductive invariant joins types, flags and the absence of exceptions with two
  facts: a closed view is empty, and pcoinsTip knows its best block. The flags
  alone are not inductive: an open view with left-over entries would resurrect
  coins, and a flush without a best block would trip the database's assertion.
  One group of lemmas says what each operation does to one cache entry by entry;
  a second one shows that an entry keeps agreeing with the layer below; the step lemmas
  combine them, one per action, for the invariant and the refinement together.
* `CoinsCacheProofs!UsageExact`. Each operation changes the counter by the usage of the
  one entry it changes; `BatchWrite` by the sum of its changes. The lemmas on sums say
  that a sum over a finite set moves by exactly that.
* `ConnectProofs!ShieldedTipCorrect`, `ShieldedDbCorrect`, `AnchorAssertions`,
  `NullifiersSpentOnce`. The invariant: in every cache a tree is filed under its own
  root and an entry that is not DIRTY says what the database says; the roots
  of a chain never shrink, and no nullifier is spent twice; each layer shows its chain.
  That roots only grow is what makes popping an anchor safe: the root a block leaves
  differs from all earlier ones unless the block has no outputs.
* `EvoProofs!EvoTypeCorrect`, `Disjoint`, `TransactionsRefineMaps`. The inductive
  invariant is types, disjointness, and empty transactions while a flush runs. `Read` asks the deletes first and `Commit`
  applies the writes last; only disjointness makes the two agree, so the refinement
  depends on it.
* `EvoProofs!MemoryUsageExact`: the signed counter is the sum over what the transaction
  holds, so it is never negative. This too needs disjointness, since a key that is both
  written and deleted would be counted twice.
* `ChainstateProofs!DatabaseMatchesBestBlock`, `TipIsExact`, `RecoveryCanFinish`,
  `StaleEvoStops`, `BatchWriteAssertion`, `ReindexOnlyForEvo`: for every block tree, any
  split into batches and any number of crashes and failing writes. The invariant has two
  halves. `ControlInv` says for every mode where tip, best block, heads, both indexes and
  the EvoDB's markers on disk, in the batch and in the root transaction stand, each as
  long as what it relates has not been lost or spoiled. `CoinInv` says what the coins are; its key is
  `CoinsBetweenHeads`: during a transition each coin on disk is the old or the new one.
  That is enough for a replay: undoing a block makes every output the block touches what
  it was before the block and leaves the others alone, whether or not the block had been
  applied to them, and doing a block likewise. So the roll-back along the old
  branch ends in the coins of the fork, the roll-forward in those of the new head, by
  induction over the two paths. `ReindexOnlyForEvo` is an action property that only the
  proof states: unless the index was spoiled start-up ends in a reindex only out of
  `VerifyDB`, and unless the coins were spoiled only because the EvoDB stayed behind.
* `ChainSelectionProofs!LinksExact`: in all behaviours. The invariant `TreeInv` adds to
  `LinksMatchTree` that the index holds the parents of its blocks and that tip, candidates
  and target have their data. The queue of `ReceivedBlockTransactions` links exactly the
  descendants whose paths are complete.
* `ChainSelectionProofs!FailuresHaveCauses` assumes `ReconsiderLowest`: the operator
  reconsiders a block only if none of its ancestors is marked as found invalid itself.
  `ReconsiderBlock` clears such an ancestor but not the other branches below it, which
  stay marked without a cause.
* `ChainSelectionProofs!ActiveChainIsValid` assumes `~RpcDuringActivation`, the
  restriction of section 3 that the run `stale_most_work` shows to be needed. The
  invariant `ValidInv` also covers what the loop remembers: the path
  to its target holds no failed block, and the chain it started from is valid.
* `ChainSelectionProofs!CandidatesExact`, `NeverAborts`, `BestChainActive`,
  `NeverBackwards` assume both (`reconsider_best_chain` shows the need for the second).
  `SelectInv`: no candidate is worse than the tip, every usable block no worse than the
  floor is a candidate, and so is the target; unless another call is due, no good chain
  has more work than the target, or than the tip when the loop has ended. The floor is
  the tip, or while cs_main is held below it the tip the iteration started from; without
  that case a turn that disconnects and then meets an invalid block breaks the invariant.
* `EvoProofs!NotForgotten`, `SyncCovers`, `CallbacksRefineSerial`. The
  inductive invariant adds to types and `CallbackNotForgotten`: at most one thread
  executes, exactly while `m_are_callbacks_running` is set; pending callbacks are
  numbered without gaps up to the last one added; promises lie in that
  range. Without the numbering a `Sync` could not know what came before it.
* `ConnectProofs!VerdictCorrect`, `IdleAssertion`. The invariant: every check is
  in the queue, in one batch or done; `nTodo` counts the first two; `nIdle` and
  `nTotal` count threads by place; a failure is in `fAllOk` or in a thread's `fOk`.
  Since `LoopStart` is entered from three places, one lemma states what its arguments
  must satisfy and one lemma per caller shows that they do.
* `EvoProofs!ListsAlwaysAvailable`: for every block tree, snapshot period and
  cache size. The invariant: caches and databases hold nothing but the block's own
  list or diff. What a read sees, what is on disk and what the disk will hold are each
  closed: they have the diff of their best block and, with a block's diff, those of its
  ancestors. What is not on disk yet belongs to the tip, and when the EvoDB is at the tip
  the chains of the manager's tip and of the announced tips are on disk or on their way.
  A lookup that overlaps a root commit meets a mixture of two such states: whatever it
  finds is right, so it gives the right list or throws.
* `MNChainProofs!UniquePropertiesAreExact`, `StoredListsComeBack`, `OnlyRevokedFails`,
  `PaymentQueueIsFair`: for any transactions, collaterals, snapshot period and chain.
  `MNChain!ChainAssumption`: collaterals are finitely many and are neither null nor an
  address nor a key, and a registration is known by its hash. The inductive invariant
  `ChainInv`: the block's list is well formed (the index exact, internal ids distinct and
  below the counter), its collaterals are unspent, the list a look-up finds has the same
  masternodes and heights up to the tip's, and where either failed it holds a revoked
  masternode. The argument goes field by field: `AddField` and `DeleteField` say what one
  entry of the index becomes when one field of one masternode changes, the lemmas on
  `AddMN`, `UpdateMN` and `RemoveMN` chain them. `Built` is the invariant of the loops of
  `BuildNewListFromBlock`: every masternode is one of the previous list, changed only in
  what a block may change, or a registration of this block with a larger id; and none
  holds a property that the previous list gives to another masternode that is still
  there. That last fact, which `CheckSpecialTx` against the previous list ensures, is not
  needed to build the list. Without it the diff could not be applied: its updates run
  one by one in the order of ids, and an address that changes hands within a block would
  meet its old owner. `DiffReproduces` follows the removals, additions and updates of
  `ApplyDiff` with one invariant each. For the queue, who is paid, revived or registered
  takes the new height, which no earlier place reaches.

`RecursionTheorems` holds what these proofs need of recursive definitions. The provers
cannot instantiate an induction rule that is stated for a predicate, so its rules take sets and
functions: a set that holds the root of a tree, and a node whenever it holds the parent,
holds every node; a function given by its value at the root and a step at each node exists
and is unique. Chains, ancestors, chain work, unspent outputs and the blocks of a replay
are recursions along a tree. Sums over finite sets are recursions along a tree of subsets,
one element less at a time. The loops over the masternodes and the transactions of a block
are recursions over an interval; `MNListProofs` proves the one rule they need
(`RangeInduction`) itself.

Left to TLC:

* everything under fairness (`InterruptedFlushCompletes`, `ActivationEnds`,
  `CallbacksExecuted`, `WaitReturns`): the provers have no rules for `ENABLED`;
* the memory pool (`LinksMatchInputs`, `TotalsMatchPackages`, `PoolIsMinable`), whose
  closures over links are recursive operators, out of the reach of the prover's SMT
  backend; `PoolIsMinable` moreover holds only while no reorganisation evicts a parent
  (`evicted_parent`), which depends on the fees of the instance.

## 5. What is not modelled

`PROJECT.json` lists every part with its reason. Pure computation (scripts,
difficulty, kernel hashes, cryptography, legacy zerocoin) enters as constants.
Front ends (RPC, REST, ZMQ, Qt) parse and format. Start-up option handling,
raw file and socket I/O have no properties of this kind. Masternode sync, sporks,
budget, legacy payments, block download, the address manager, the HTTP work queue and
the wallets have state worth modelling and are not modelled yet (section 7). The map
therefore covers a small share of the source tree, much of which is interface code,
cryptography and embedded libraries.

## 6. Disagreements between code and its own statements

1. **`replay`**: after an interrupted flush `RollforwardBlock` redoes coins and special
   transactions, not anchors and nullifiers; the database is then marked consistent
   with the new tip. The counterexample is a crash after the first batch of a flush and
   the replay that follows it.
2. **`failed_flush`**: `BatchWrite` erases entries from the cache before the batch is
   written. If the write throws, the next flush of the process, by a thread that is
   still at work or by shutdown, continues without them and marks the database consistent. That a later write can succeed follows from
   `leveldb/db/db_impl.cc`: a failed append of a write that is not synchronous
   is returned to the caller and blocks no later write.
3. **`stale_most_work`**: `invalidateblock` takes cs_main but not m_cs_chainstate, so
   it can run in the gap of `ActivateBestChain`, which goes on to connect the block
   just invalidated.
4. **`reconsider_best_chain`**: `ReconsiderBlock` clears the flags of the ancestors of the
   named block too but makes only the named block and its descendants candidates. When
   the named block is known by its header alone, none of those has data, so nothing
   becomes a candidate and the valid ancestors that were cleared stay inactive although
   they have more work than the tip.
5. **`revoked_masternode`**: revocation nulls the operator key and leaves the
   masternode in the list; removing it, or reading it back from a snapshot, treats
   the null key as a unique property and fails an assertion.
6. **`evicted_parent`**: `AcceptToMemoryPoolWorker` trims the pool also with
   `fOverrideMempoolLimit`. While a reorganisation puts transactions back, a later
   one can push out an earlier one whose children are not linked to it yet; they stay
   with an input that exists neither in the pool nor in the chain.

Met while modelling, without a run of their own:

* The EvoDB writes of `ReplayBlocks` sit in the current transaction; `VerifyDB` begins a
  transaction only to roll it back, and they go with it. The node then stops at the next
  block (`StaleEvoStopsChain`).
* The write of the block index empties `setDirtyBlockIndex` before it can fail
  (`validation.cpp:1790`); a later flush of the process then names a tip that the index
  on disk does not have. The properties exclude the case with `"index" \notin spoiled`.
* `PrioritiseTransaction` changes the entry and the totals of its ancestors, not the
  `nModFeesWithAncestors` of its descendants, which `check` asserts
  (`txmempool.cpp:969`). `TotalsMatchPackages` claims those fees only while nothing was
  prioritised.
* `validationinterface.h:49` describes `SyncWithValidationInterfaceQueue` as a synonym
  for queueing a callback and waiting for it; the code returns at once when nothing is
  pending, though a callback may be running. `SyncLeavesNothingPending` says what holds.
* `validation.cpp` notes in `ConnectBlock` that nothing before that point should store
  to disk or memory; with `fJustCheck`, `BuildNewListFromBlock` has by then removed a
  legacy masternode with the same collateral (`evo/deterministicmns.cpp:660`).
* `CTxMemPool::_clear` empties neither `mapSaplingNullifiers` nor `mapProTxCollaterals`;
  the model's restart is a new process, where they are empty.

## 7. Further work

1. `MasternodeSync` and `Sporks`: lost and late replies, resets, eventual completion;
   newest spork wins across memory and database.
2. `WorkQueue`: bounded depth, clean interruption.
3. `MasternodePayments`, `Budget`: votes, orphan votes, clean-up.
4. `BlockDownload`, `AddrMan`, `WalletSync`.
5. Compositions: `ChainSelection` driving `Chainstate` and `Mempool`, and the two locks
   of the checkpoint path (deadlock).
6. Proofs: the links of `Mempool`, with closures as recursive functions.
