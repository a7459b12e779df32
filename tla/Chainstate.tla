----------------------------- MODULE Chainstate -----------------------------
(***************************************************************************)
(* The chain state across flushes, crashes and restarts: ConnectTip and    *)
(* DisconnectTip on pcoinsTip, FlushStateToDisk with the batches of        *)
(* CCoinsViewDB::BatchWrite and the EvoDB commit that follows them, and    *)
(* the start-up sequence ReplayBlocks, LoadChainTip, VerifyDB.             *)
(*                                                                         *)
(* A coin is the height at which its output was created.  Of the EvoDB     *)
(* only the best block record is kept, of the shielded state the set of    *)
(* blocks whose anchor and nullifiers are recorded.  UPGRADE_V6_0 is       *)
(* enforced for every block above Base, and Base has a parent of its own.  *)
(***************************************************************************)
EXTENDS Integers, Sequences, Functions

CONSTANTS
  Block, Base,       \* the block tree and the block the model starts from
  Parent,            \* [Block \ {Base} -> Block]
  Outpoint,          \* transaction outputs
  Spends, Creates,   \* [Block \ {Base} -> SUBSET Outpoint]
  BaseCoins,         \* outputs unspent at Base
  NoCoin,            \* no unspent output
  Clean,             \* the cache holds no modified entry
  Null,              \* the null block hash
  MaxCrashes,        \* bound on the number of crashes
  MaxFailures        \* bound on the number of failing database writes

ASSUME ChainstateAssumption ==
  /\ Base \in Block /\ Null \notin Block
  /\ Parent \in [Block \ {Base} -> Block]
  \* pprev leads from every block down to Base.
  /\ \A S \in SUBSET Block : S # {} => \E b \in S : b = Base \/ Parent[b] \notin S
  /\ Spends \in [Block \ {Base} -> SUBSET Outpoint]
  /\ Creates \in [Block \ {Base} -> SUBSET Outpoint]
  /\ BaseCoins \subseteq Outpoint
  /\ NoCoin \notin Nat /\ Clean \notin Nat \cup {NoCoin}
  /\ MaxCrashes \in Nat /\ MaxFailures \in Nat

VARIABLES
  dbCoins, dbBest, dbHeads,   \* coin database: coins, DB_BEST_BLOCK, DB_HEAD_BLOCKS
  dbSapling,                  \* ... and the blocks whose shielded state it holds
  evoDisk,                    \* EvoDB's best block on disk
  diskIndex,                  \* block index on disk
  mode,                       \* where the process is
  flushesLeft,                \* flushes Shutdown still makes; Running, Requested before
  tip, cache, sapling,        \* pcoinsTip: best block, modified entries, shielded state
  evoRoot, evoBatch,          \* best block in EvoDB's transactions and its root batch
  index,                      \* mapBlockIndex
  lostCoins, lostIndex,       \* a failed batch took cache entries, dirty marks with it
  spoiled,                    \* databases written to after such a loss
  crashes, failures           \* crashes and failed writes so far

disk   == <<dbCoins, dbBest, dbHeads, dbSapling, evoDisk, diskIndex, spoiled>>
memory == <<tip, cache, sapling, evoRoot, evoBatch, index, lostCoins, lostIndex>>
vars   == <<disk, mode, flushesLeft, memory, crashes, failures>>

\* The threads that connect and accept blocks go on until Shutdown has stopped them.
Running   == 4
Requested == 3
Working   == flushesLeft \in {Running, Requested}

-----------------------------------------------------------------------------
(* The block tree. *)

\* The blocks above Base up to b, lowest first.
Chain[b \in Block] == IF b = Base THEN <<>> ELSE Append(Chain[Parent[b]], b)
Height(b) == Len(Chain[b])
Ancestors(b) == Range(Chain[b]) \cup {Base}

LastCommonAncestor(a, b) ==
  CHOOSE c \in Ancestors(a) \cap Ancestors(b) :
    \A d \in Ancestors(a) \cap Ancestors(b) : Height(d) <= Height(c)

\* The blocks above a up to b, where a is an ancestor of b.
Path(a, b) == SubSeq(Chain[b], Height(a) + 1, Height(b))

\* The unspent outputs after block b, by consensus.
Utxo[b \in Block] ==
  IF b = Base THEN [o \in Outpoint |-> IF o \in BaseCoins THEN 0 ELSE NoCoin]
  ELSE [o \in Outpoint |-> IF o \in Creates[b] THEN Height(b)
                           ELSE IF o \in Spends[b] THEN NoCoin ELSE Utxo[Parent[b]][o]]

\* Transaction ids do not repeat on a chain while an output is unspent: the height in the
\* coinbase and, for any other transaction, the inputs it spends make them different.
ASSUME UniqueOutputs ==
  \A b \in Block \ {Base} : \A o \in Creates[b] : Utxo[Parent[b]][o] = NoCoin

-----------------------------------------------------------------------------
(* A cache over the coin database; c[o] is Clean, NoCoin (spent) or a coin.  *)

Shown(c) == [o \in Outpoint |-> IF c[o] = Clean THEN dbCoins[o] ELSE c[o]]

\* Variant: every spent entry is dropped as if it were FRESH.
SpendCoinsDropsEntry(c, S) == [o \in Outpoint |-> IF o \in S THEN Clean ELSE c[o]]

\* A FRESH entry is dropped when it is spent; spending nothing changes nothing.
SpendCoins(c, S) == [o \in Outpoint |->
  IF o \notin S \/ Shown(c)[o] = NoCoin THEN c[o]
  ELSE IF dbCoins[o] = NoCoin THEN Clean ELSE NoCoin]

AddCoins(c, S, h) == [o \in Outpoint |-> IF o \in S THEN h[o] ELSE c[o]]

ApplyBlock(c, b) == AddCoins(SpendCoins(c, Spends[b]), Creates[b], [o \in Outpoint |-> Height(b)])

\* The undo data of b holds the coins b spent.
DisconnectBlock(c, b) == AddCoins(SpendCoins(c, Creates[b]), Spends[b], Utxo[Parent[b]])

\* DISCONNECT_OK: every output is there to remove and no input is there already.
DisconnectsCleanly(c, b) ==
  /\ \A o \in Creates[b] : Shown(c)[o] # NoCoin
  /\ \A o \in Spends[b] : Shown(SpendCoins(c, Creates[b]))[o] = NoCoin

\* The blocks of a path disconnected one by one, last first, and applied one by one.
RollBack(c, path) ==
  LET undone[i \in 0..Len(path)] ==
        IF i = 0 THEN c ELSE DisconnectBlock(undone[i - 1], path[Len(path) - i + 1])
  IN undone[Len(path)]

RollForward(c, path) ==
  LET done[i \in 0..Len(path)] == IF i = 0 THEN c ELSE ApplyBlock(done[i - 1], path[i])
  IN done[Len(path)]

\* CCoinsViewCache::HaveInputs, for the transactions of block b.
HaveInputs(c, b) == \A o \in Spends[b] : Shown(c)[o] # NoCoin

NoChanges == [o \in Outpoint |-> Clean]
Dirty == {o \in Outpoint : cache[o] # Clean}

\* EvoDB's best block: a read goes through the transactions to the disk.
EvoBest == IF evoRoot # Null THEN evoRoot ELSE evoDisk

-----------------------------------------------------------------------------
Init ==
  /\ dbCoins = Utxo[Base] /\ dbBest = Base /\ dbHeads = <<>>
  /\ dbSapling = {} /\ evoDisk = Base /\ diskIndex = {Base} /\ spoiled = {}
  /\ mode = "up" /\ flushesLeft = Running
  /\ tip = Base /\ cache = NoChanges /\ sapling = {} /\ index = {Base}
  /\ evoRoot = Null /\ evoBatch = Null /\ lostCoins = FALSE /\ lostIndex = {}
  /\ crashes = 0 /\ failures = 0

AcceptBlock(b) ==
  /\ mode = "up" /\ Working
  /\ b \notin index /\ Parent[b] \in index
  /\ index' = index \cup {b}
  /\ UNCHANGED <<disk, mode, flushesLeft, tip, cache, sapling, evoRoot, evoBatch,
                 lostCoins, lostIndex, crashes, failures>>

\* AbortNode requests a shutdown and returns; nobody stops working yet.
AfterAbort(n) == IF n = Running THEN Requested ELSE n

AbortNode == /\ flushesLeft' = AfterAbort(flushesLeft)
             /\ UNCHANGED <<disk, mode, memory, crashes, failures>>

\* The block does not fit the coins the cache shows: it is marked invalid, which puts it
\* among the dirty index entries again.
InvalidBlockFound(b) ==
  /\ lostIndex' = lostIndex \ {b}
  /\ UNCHANGED <<disk, mode, flushesLeft, tip, cache, sapling, evoRoot, evoBatch, index,
                 lostCoins, crashes, failures>>

\* Variant: ConnectBlock does not record the new best block in the EvoDB.
ConnectTipKeepsEvo(b) ==
  /\ mode = "up" /\ Working
  /\ b \in index \ {Base} /\ Parent[b] = tip
  /\ IF EvoBest # tip THEN AbortNode
     ELSE /\ cache' = ApplyBlock(cache, b) /\ sapling' = sapling \cup {b}
          /\ tip' = b
          /\ UNCHANGED <<disk, mode, flushesLeft, evoRoot, evoBatch, index, lostCoins,
                         lostIndex, crashes, failures>>

\* Connecting a block for the first time makes its index entry dirty again.
ConnectTip(b) ==
  /\ mode = "up" /\ Working
  /\ b \in index \ {Base} /\ Parent[b] = tip
  /\ IF EvoBest # tip THEN AbortNode
     ELSE IF ~HaveInputs(cache, b) THEN InvalidBlockFound(b)
     ELSE /\ cache' = ApplyBlock(cache, b) /\ sapling' = sapling \cup {b}
          /\ tip' = b /\ evoRoot' = b
          /\ lostIndex' \in {lostIndex, lostIndex \ {b}}
          /\ UNCHANGED <<disk, mode, flushesLeft, evoBatch, index, lostCoins,
                         crashes, failures>>

DisconnectTip ==
  /\ mode = "up" /\ Working /\ tip # Base
  /\ IF EvoBest # tip \/ ~DisconnectsCleanly(cache, tip) THEN AbortNode
     ELSE /\ cache' = DisconnectBlock(cache, tip) /\ sapling' = sapling \ {tip}
          /\ tip' = Parent[tip] /\ evoRoot' = Parent[tip]
          /\ UNCHANGED <<disk, mode, flushesLeft, evoBatch, index, lostCoins, lostIndex,
                         crashes, failures>>

-----------------------------------------------------------------------------
(* FlushStateToDisk.  After a flush ConnectTip made fails, chainActive is      *)
(* behind pcoinsTip and the next block fails an assertion: a Crash here.       *)

\* FlushStateToDisk is over: back to work, or on with Shutdown.
AfterFlush == IF Working THEN flushesLeft ELSE flushesLeft - 1
EndFlush   == mode' = "up" /\ flushesLeft' = AfterFlush

\* It returns through AbortNode: a database write failed.
AbortFlush ==
  /\ failures < MaxFailures /\ failures' = failures + 1
  /\ mode' = "up" /\ flushesLeft' = AfterAbort(AfterFlush)

\* Variant: the coins are flushed before the block index.
WriteBlockIndexLater ==
  /\ mode = "up" /\ flushesLeft # 0
  /\ \/ Working /\ diskIndex' = index /\ mode' = "up"
     \/ diskIndex' = diskIndex /\ mode' = "flush"
  /\ UNCHANGED <<dbCoins, dbBest, dbHeads, dbSapling, evoDisk, spoiled, flushesLeft, memory,
                 crashes, failures>>

\* The dirty entries of the block index.  Where an earlier write lost some, the index
\* on disk may now miss the parent of a block it holds.
WriteDirtyBlockIndex ==
  /\ diskIndex' = diskIndex \cup (index \ lostIndex)
  /\ spoiled' = IF lostIndex = {} THEN spoiled ELSE spoiled \cup {"index"}

\* The block index goes first; a periodic write stops there.
WriteBlockIndex ==
  /\ mode = "up" /\ flushesLeft # 0
  /\ WriteDirtyBlockIndex
  /\ mode' \in (IF Working THEN {"up", "flush"} ELSE {"flush"})
  /\ UNCHANGED <<dbCoins, dbBest, dbHeads, dbSapling, evoDisk, flushesLeft, memory,
                 crashes, failures>>

\* setDirtyBlockIndex was emptied before the write that fails.
WriteBlockIndexFails ==
  /\ mode = "up" /\ flushesLeft # 0
  /\ lostIndex' = index \ diskIndex
  /\ AbortFlush
  /\ UNCHANGED <<disk, tip, cache, sapling, evoRoot, evoBatch, index, lostCoins, crashes>>

\* CheckDiskSpace fails, before the block index or before the coins.
DiskSpaceIsLow ==
  /\ mode = "up" /\ flushesLeft # 0
  /\ UNCHANGED <<diskIndex, spoiled>> \/ WriteDirtyBlockIndex
  /\ AbortFlush
  /\ UNCHANGED <<dbCoins, dbBest, dbHeads, dbSapling, evoDisk, memory, crashes>>

\* The tip the transition starts from: the best block, or when the database is in
\* the middle of a transition already, the one that transition started from.
OldTip == IF dbBest # Null THEN dbBest ELSE dbHeads[2]

Written(S) == [o \in Outpoint |-> IF o \in S THEN cache[o] ELSE dbCoins[o]]
Without(S) == [o \in Outpoint |-> IF o \in S THEN Clean ELSE cache[o]]

InBatchWrite == mode \in {"flush", "replay"}

\* assert(old_heads[0] == hashBlock)
ReachesOldHead == dbBest = Null => dbHeads[1] = tip

WriteCoins(S) ==
  /\ InBatchWrite /\ ReachesOldHead
  /\ dbCoins' = Written(S) /\ cache' = Without(S)
  /\ spoiled' = IF lostCoins THEN spoiled \cup {"coins"} ELSE spoiled

\* Variant: the database keeps its best block during the transition.
WritePartialBatchUnmarked(S) ==
  /\ S # {} /\ WriteCoins(S)
  /\ UNCHANGED <<dbBest, dbHeads, dbSapling, evoDisk, diskIndex, mode, flushesLeft, tip, sapling,
                 evoRoot, evoBatch, index, lostCoins, lostIndex, crashes, failures>>

\* A full batch is written; the first one marks the transition.
WritePartialBatch(S) ==
  /\ S # {} /\ WriteCoins(S)
  /\ dbBest' = Null /\ dbHeads' = <<tip, OldTip>>
  /\ UNCHANGED <<dbSapling, evoDisk, diskIndex, mode, flushesLeft, tip, sapling,
                 evoRoot, evoBatch, index, lostCoins, lostIndex, crashes, failures>>

\* Variant: the last batch leaves the heads of the transition in place.
WriteLastBatchKeepsHeads ==
  /\ WriteCoins(Dirty) /\ dbSapling' = sapling /\ dbBest' = tip /\ dbHeads' = dbHeads
  /\ mode' = IF mode = "flush" THEN "evo" ELSE "verify"
  /\ UNCHANGED <<evoDisk, diskIndex, flushesLeft, tip, sapling, evoRoot, evoBatch, index,
                 lostCoins, lostIndex, crashes, failures>>

\* The rest of the coins, the shielded state and the best block, in one batch.
WriteLastBatch ==
  /\ WriteCoins(Dirty)
  /\ dbSapling' = sapling
  /\ dbBest' = tip /\ dbHeads' = <<>>
  /\ mode' = IF mode = "flush" THEN "evo" ELSE "verify"
  /\ UNCHANGED <<evoDisk, diskIndex, flushesLeft, tip, sapling, evoRoot, evoBatch, index,
                 lostCoins, lostIndex, crashes, failures>>

\* WriteBatch throws in a flush, which ends in AbortNode.  The entries of the batch are
\* gone from the cache already.
WriteBatchFails(S, last) ==
  /\ mode = "flush" /\ ReachesOldHead
  /\ IF last THEN S = Dirty ELSE S # {}
  /\ cache' = Without(S) /\ lostCoins' = TRUE
  /\ sapling' = IF last THEN dbSapling ELSE sapling
  /\ AbortFlush
  /\ UNCHANGED <<disk, tip, evoRoot, evoBatch, index, lostIndex, crashes>>

\* What CommitRootTransaction has to write: the root transaction, over what an earlier
\* commit put in the batch and could not write.
EvoPending == IF evoRoot # Null THEN evoRoot ELSE evoBatch

CommitRootTransaction ==
  /\ mode = "evo"
  /\ evoDisk' = IF EvoPending # Null THEN EvoPending ELSE evoDisk
  /\ evoRoot' = Null /\ evoBatch' = Null
  /\ EndFlush
  /\ UNCHANGED <<dbCoins, dbBest, dbHeads, dbSapling, diskIndex, spoiled, tip, cache, sapling,
                 index, lostCoins, lostIndex, crashes, failures>>

\* The root transaction is empty when the write fails; the batch keeps its content.
CommitRootTransactionFails ==
  /\ mode = "evo"
  /\ evoBatch' = EvoPending /\ evoRoot' = Null
  /\ AbortFlush
  /\ UNCHANGED <<disk, tip, cache, sapling, index, lostCoins, lostIndex, crashes>>

-----------------------------------------------------------------------------
(* Stopping and starting *)

RequestShutdown ==
  /\ mode = "up" /\ flushesLeft = Running /\ AbortNode

\* The main thread sees the request and stops the others; Shutdown will flush twice.
Shutdown ==
  /\ mode = "up" /\ flushesLeft = Requested
  /\ flushesLeft' = 2
  /\ UNCHANGED <<disk, mode, memory, crashes, failures>>

\* The process is gone and nothing of its memory survives.
Exit == /\ mode' = "down" /\ flushesLeft' = Running
        /\ tip' = Base /\ cache' = NoChanges /\ sapling' = {} /\ index' = {}
        /\ evoRoot' = Null /\ evoBatch' = Null /\ lostCoins' = FALSE /\ lostIndex' = {}
        /\ UNCHANGED disk

ShutdownEnds ==
  /\ mode = "up" /\ flushesLeft = 0
  /\ Exit /\ UNCHANGED <<crashes, failures>>

Crash ==
  /\ mode \notin {"down", "reindex"}
  /\ crashes < MaxCrashes /\ crashes' = crashes + 1
  /\ Exit /\ UNCHANGED failures

\* BatchWrite's assertion ends the process.
BatchWriteAsserts ==
  /\ InBatchWrite /\ ~ReachesOldHead
  /\ Exit /\ UNCHANGED <<crashes, failures>>

\* A write that fails during a replay ends the start.
ReplayFails ==
  /\ mode = "replay" /\ ReachesOldHead
  /\ failures < MaxFailures /\ failures' = failures + 1
  /\ Exit /\ UNCHANGED crashes

\* LoadBlockIndex.  A block without its parent is taken as an unusable index.
IndexUsable == \A b \in diskIndex \ {Base} : Parent[b] \in diskIndex

\* LoadChainTip, when the database is consistent.
Start ==
  /\ mode = "down" /\ dbHeads = <<>>
  /\ index' = diskIndex
  /\ IF IndexUsable /\ dbBest \in diskIndex
     THEN mode' = "verify" /\ tip' = dbBest /\ sapling' = dbSapling
     ELSE mode' = "reindex" /\ UNCHANGED <<tip, sapling>>
  /\ UNCHANGED <<disk, cache, flushesLeft, evoRoot, evoBatch, lostCoins, lostIndex,
                 crashes, failures>>

\* Variant: the cache is left at the block the interrupted flush started from.
ReplayBlocksToOldHead ==
  /\ mode = "down" /\ dbHeads # <<>>
  /\ index' = diskIndex
  /\ cache' = RollForward(NoChanges, Path(LastCommonAncestor(dbHeads[2], dbHeads[1]), dbHeads[1]))
  /\ sapling' = dbSapling /\ tip' = dbHeads[2] /\ evoRoot' = dbHeads[1] /\ mode' = "replay"
  /\ UNCHANGED <<disk, flushesLeft, evoBatch, lostCoins, lostIndex, crashes, failures>>

\* ReplayBlocks: back along the old branch, forward along the new one, ignoring
\* what was applied already.  RollforwardBlock leaves the shielded state alone.
ReplayBlocks ==
  /\ mode = "down" /\ dbHeads # <<>>
  /\ index' = diskIndex
  /\ LET new == dbHeads[1]
         old == dbHeads[2]
         fork == LastCommonAncestor(old, new)
         back == Path(fork, old)
     IN IF IndexUsable /\ {new, old} \subseteq diskIndex /\ (old = fork \/ evoDisk = old)
        THEN /\ cache' = RollForward(RollBack(NoChanges, back), Path(fork, new))
             /\ sapling' = dbSapling \ Range(back)
             /\ tip' = new /\ evoRoot' = new /\ mode' = "replay"
        ELSE mode' = "reindex" /\ UNCHANGED <<tip, cache, sapling, evoRoot>>
  /\ UNCHANGED <<disk, flushesLeft, evoBatch, lostCoins, lostIndex, crashes, failures>>

\* The n blocks below and at b disconnect from the coin database one by one, b first.
ChainDisconnectsCleanly(b, n) ==
  \A i \in (Height(b) - n + 1)..Height(b) :
    DisconnectsCleanly(RollBack(NoChanges, SubSeq(Chain[b], i + 1, Height(b))), Chain[b][i])

\* VerifyDB disconnects some blocks of the chain in memory (-checkblocks, -checklevel
\* and the size of the cache say how many, if any) and rolls its EvoDB transaction
\* back.  That drops the writes ReplayBlocks made outside a transaction as well.
VerifyDB ==
  /\ mode = "verify"
  /\ \E n \in 0..Height(tip) :
       IF n = 0 \/ (EvoBest = tip /\ ChainDisconnectsCleanly(tip, n))
       THEN mode' = "up" /\ evoRoot' = Null
       ELSE mode' = "reindex" /\ UNCHANGED evoRoot
  /\ UNCHANGED <<disk, flushesLeft, tip, cache, sapling, evoBatch, index, lostCoins, lostIndex,
                 crashes, failures>>

\* The databases are wiped and rebuilt.
Reindex ==
  /\ mode = "reindex" /\ mode' = "up"
  /\ dbCoins' = Utxo[Base] /\ dbBest' = Base /\ dbHeads' = <<>>
  /\ dbSapling' = {} /\ evoDisk' = Base /\ diskIndex' = {Base} /\ spoiled' = {}
  /\ tip' = Base /\ cache' = NoChanges /\ sapling' = {} /\ index' = {Base}
  /\ evoRoot' = Null /\ evoBatch' = Null /\ lostCoins' = FALSE /\ lostIndex' = {}
  /\ flushesLeft' = Running /\ UNCHANGED <<crashes, failures>>

Next ==
  \/ \E b \in Block \ {Base} : AcceptBlock(b) \/ ConnectTip(b)
  \/ DisconnectTip
  \/ WriteBlockIndex \/ WriteBlockIndexFails \/ DiskSpaceIsLow
  \/ \E S \in SUBSET Dirty : WritePartialBatch(S) \/ WriteBatchFails(S, FALSE)
  \/ WriteLastBatch \/ WriteBatchFails(Dirty, TRUE) \/ BatchWriteAsserts
  \/ CommitRootTransaction \/ CommitRootTransactionFails
  \/ RequestShutdown \/ Shutdown \/ ShutdownEnds \/ Crash
  \/ Start \/ ReplayBlocks \/ ReplayFails \/ VerifyDB \/ Reindex

Spec == Init /\ [][Next]_vars

\* What the process and its operator do without being asked twice: run a start, a
\* shutdown or a flush to its end, and start a stopped node again.
Proceed ==
  \/ Start \/ ReplayBlocks \/ VerifyDB \/ Shutdown \/ ShutdownEnds
  \/ WriteLastBatch \/ BatchWriteAsserts \/ CommitRootTransaction
  \/ ~Working /\ WriteBlockIndex

FairSpec == Spec /\ WF_vars(Proceed)
-----------------------------------------------------------------------------
\* The coin database marked consistent with a block (DB_BEST_BLOCK) holds exactly the
\* unspent outputs after that block, whatever batches, crashes, replays and
\* reorganisations came before, as long as nothing was written to it after a failed
\* write had taken entries of the cache with it.
CoinsMatchBestBlock == "coins" \notin spoiled /\ dbBest # Null => dbCoins = Utxo[dbBest]

\* What pcoinsTip shows is the unspent outputs after its best block: at work, between
\* the batches of a flush, and after every recovery, as long as no failed write of this
\* process has lost entries of the cache.
TipMatchesUtxo ==
  "coins" \notin spoiled /\ ~lostCoins /\ mode \in {"up", "flush", "evo"}
    => Shown(cache) = Utxo[tip]

\* A start finds what it needs on disk: every block the coin database names is in the
\* block index, and the EvoDB stands at the block an interrupted flush started from,
\* so that DisconnectBlock's EvoDB check passes during the replay.  The block index is
\* complete as long as a flush did not go on after losing dirty entries of it.
ReplayCanFinish ==
  /\ "index" \notin spoiled =>
       /\ dbBest # Null => dbBest \in diskIndex
       /\ dbHeads # <<>> => {dbHeads[1], dbHeads[2]} \subseteq diskIndex
  /\ dbHeads # <<>> => evoDisk = dbHeads[2]

\* While the EvoDB does not show the tip no block is connected or disconnected: the tip
\* stays the one the coin database was loaded with, or flushed to when the EvoDB commit
\* failed.
StaleEvoStopsChain == mode = "up" /\ EvoBest # tip => tip = dbBest /\ Dirty = {}

\* BatchWrite's assertion old_heads[0] == hashBlock: a replay always continues the
\* transition it finds, and so does a flush of a process that has lost no entries of its
\* cache to a failed write.
ReplayTargetAgrees ==
  InBatchWrite /\ dbBest = Null /\ dbHeads[1] # tip => mode = "flush" /\ lostCoins

\* A flush that was interrupted, by a crash, a failing write or the assertion, is
\* completed, unless the block index was spoiled.
InterruptedFlushCompletes == dbHeads # <<>> ~> dbHeads = <<>> \/ "index" \in spoiled

\* "In the last batch, mark the database as consistent with hashBlock again": a database
\* that names a best block holds the unspent outputs after it, also after failed writes.
BestBlockMeansConsistent == dbBest # Null => dbCoins = Utxo[dbBest]

\* "Replay blocks that aren't fully applied to the database": a coin database that names
\* a best block holds the shielded records of exactly the blocks up to it, in particular
\* after a replay.
ReplayRestoresAll == dbBest # Null => dbSapling = Range(Chain[dbBest])
=============================================================================
