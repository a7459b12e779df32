------------------------------ MODULE MNManager ------------------------------
(***************************************************************************)
(* CDeterministicMNManager (evo/deterministicmns.h, .cpp): where the       *)
(* masternode list of a block comes from.  ProcessBlock stores the diff of *)
(* every block and a snapshot now and then in EvoDB and in two caches;     *)
(* GetListForBlock walks back to the nearest list it can find and applies  *)
(* the diffs on the way.  The manager's lock cs is held for each call, so  *)
(* a call is one step for the manager.  ProcessBlock gives it up before it *)
(* cleans the caches, which only drops entries.  CEvoDB's root commit      *)
(* takes neither lock: it is two steps here, and a lookup of a thread      *)
(* without cs_main may run in between, or overlap it.                      *)
(*                                                                         *)
(* A list and a diff are named by the block they belong to; MNChain models *)
(* what is in them.  Applying the diff of a block to the list of its       *)
(* parent gives the list of the block, applying it to another list gives   *)
(* Wrong.  Root, the block before the activation, has the empty list.      *)
(***************************************************************************)
EXTENDS MNParams, Sequences

CONSTANTS
  Block, Root,
  Path,             \* the blocks from the activation to a block, the block included
  Changed,          \* the blocks whose diff HasChanges
  None, Wrong,
  DISK_SNAPSHOTS,
  MaxQueue          \* bound: tips the callback queue holds for the manager

ASSUME ManagerAssumption ==
  /\ Root \notin Block /\ None \notin Block \cup {Root} /\ Wrong \notin Block \cup {Root, None}
  /\ Changed \subseteq Block /\ DISK_SNAPSHOTS \in Nat \ {0} /\ MaxQueue \in Nat

ASSUME PathAssumption ==
  \A b \in Block :
    /\ Path[b] \in Seq(Block) /\ Len(Path[b]) > 0 /\ Path[b][Len(Path[b])] = b
    /\ \A i \in 1..Len(Path[b]) : Path[Path[b][i]] = SubSeq(Path[b], 1, i)

LIST_DIFFS_CACHE_SIZE == DISK_SNAPSHOT_PERIOD * DISK_SNAPSHOTS

VARIABLES
  tip,                \* the tip of the active chain
  mnListsCache, mnListDiffsCache,
  tipIndex,           \* the manager's tip, set by UpdatedBlockTip
  tipQueue,           \* the UpdatedBlockTip callbacks not yet run
  loading,            \* InitializeCurrentBlockTip has not run yet
  evoRoot,            \* CEvoDB's root transaction: what the blocks connected wrote
  evoBatch,           \* CEvoDB's rootBatch, when writing it has failed
  committing,         \* CommitRootTransaction is running
  disk                \* on disk: evoDb and the tip of the coin database

managerVars ==
  <<tip, mnListsCache, mnListDiffsCache, tipIndex, tipQueue, loading,
    evoRoot, evoBatch, committing, disk>>
caches == <<mnListsCache, mnListDiffsCache>>
evoVars == <<evoRoot, evoBatch, committing, disk>>

Node == Block \cup {Root}
NoLists == [b \in Node |-> None]
NoDiffs == [b \in Block |-> None]


\* A database or a transaction on it: snapshots, diffs and EVODB_BEST_BLOCK.
Nothing == [snapshot |-> NoLists, diff |-> NoDiffs, best |-> None]
Fresh == [Nothing EXCEPT !.best = Root]

ManagerInit ==
  /\ tip = Root /\ tipIndex = None /\ tipQueue = <<>> /\ loading = TRUE
  /\ mnListsCache = NoLists /\ mnListDiffsCache = NoDiffs
  /\ evoRoot = Nothing /\ evoBatch = Nothing /\ committing = FALSE
  /\ disk = [evoDb |-> Fresh, tip |-> Root]

-----------------------------------------------------------------------------
(* The block index *)

Depth(b) == IF b = Root THEN 0 ELSE Len(Path[b])
At(b, i) == IF i = 0 THEN Root ELSE Path[b][i]
Parent(b) == At(b, Depth(b) - 1)
Height(b) == Activation - 1 + Depth(b)
ListHeight(b) == IF b = Root THEN -1 ELSE Height(b)
Chain(b) == {At(b, i) : i \in 1..Depth(b)}

-----------------------------------------------------------------------------
(* CEvoDB as the manager sees it *)

First(x, y) == IF x # None THEN x ELSE y

\* What transaction t shows over d.
Over(t, d) ==
  [snapshot |-> [b \in Node |-> First(t.snapshot[b], d.snapshot[b])],
   diff |-> [b \in Block |-> First(t.diff[b], d.diff[b])],
   best |-> First(t.best, d.best)]

\* What a Read returns, the batch not consulted, and what the disk will hold.
EvoDb == Over(evoRoot, disk.evoDb)
Whole == Over(evoRoot, Over(evoBatch, disk.evoDb))

\* The database a lookup works on.  While CommitRootTransaction runs, each of its
\* reads finds an entry that is on the way to the disk, or misses it.
Mix(lists, diffs) ==
  [snapshot |-> [b \in Node |-> IF b \in lists THEN Whole.snapshot[b] ELSE disk.evoDb.snapshot[b]],
   diff |-> [b \in Block |-> IF b \in diffs THEN Whole.diff[b] ELSE disk.evoDb.diff[b]],
   best |-> disk.evoDb.best]

Views ==
  IF ~committing THEN {EvoDb}
  ELSE {Mix(lists, diffs) :
          lists \in SUBSET {b \in Node : Whole.snapshot[b] # disk.evoDb.snapshot[b]},
          diffs \in SUBSET {b \in Block : Whole.diff[b] # disk.evoDb.diff[b]}}

VerifyBestBlock(b) == EvoDb.best = b

-----------------------------------------------------------------------------
(* GetListForBlock, on a given database d and given caches *)

Emplace(f, k, v) == IF f[k] = None THEN [f EXCEPT ![k] = v] ELSE f

Snapshot(d, lists, b) ==
  IF lists[b] # None THEN lists[b]
  ELSE IF d.snapshot[b] # None THEN d.snapshot[b]
  ELSE IF b = Root THEN Root ELSE None

Diff(d, diffs, b) == First(diffs[b], d.diff[b])

StopsAt(d, lists, diffs, b) ==
  Snapshot(d, lists, b) # None \/ Diff(d, diffs, b) = None

\* How far the loop walks back from b: to the last block at which it stops.
Base(d, lists, diffs, b) ==
  LET stops == {i \in 0..Depth(b) : StopsAt(d, lists, diffs, At(b, i))}
  IN  CHOOSE i \in stops : \A j \in stops : j <= i

\* What the call returns when it stops at the i-th block; None stands for the
\* exception "No masternode list data found".
ListFrom(d, lists, diffs, b, i) ==
  LET s == Snapshot(d, lists, At(b, i))
  IN  IF i = Depth(b) \/ s = None THEN s
      ELSE IF s = At(b, i) /\ \A j \in (i + 1)..Depth(b) : Diff(d, diffs, At(b, j)) = At(b, j)
        THEN b ELSE Wrong

\* The call: what it returns and the caches it leaves, with the snapshot it read,
\* the list of the manager's tip and the diffs it walked through.
Get(d, lists, diffs, b) ==
  LET i == Base(d, lists, diffs, b)
      found == ListFrom(d, lists, diffs, b, i)
      read == Emplace(lists, At(b, i), Snapshot(d, lists, At(b, i)))
  IN  IF b = Root THEN [list |-> Root, lists |-> lists, diffs |-> diffs]
      ELSE [list |-> found,
            lists |-> IF tipIndex = b /\ found # None THEN Emplace(read, b, found) ELSE read,
            diffs |-> [x \in Block |-> IF \E j \in (i + 1)..Depth(b) : At(b, j) = x
                                         THEN Diff(d, diffs, x) ELSE diffs[x]]]

GetListForBlock(d, b) == Get(d, mnListsCache, mnListDiffsCache, b)

-----------------------------------------------------------------------------
(* The calls *)

\* The blocks the manager is asked about: those of the active chain and, by
\* GetListAtChainTip and the UpdatedBlockTip callbacks, those of its own tip's chain.
Asked == Chain(tip) \cup (IF tipIndex = None THEN {} ELSE Chain(tipIndex))

\* An RPC call, a special transaction check or a block template: one lookup, which
\* may throw.
Lookup(b) ==
  /\ b \in Asked
  /\ \E d \in Views :
       /\ mnListsCache' = GetListForBlock(d, b).lists
       /\ mnListDiffsCache' = GetListForBlock(d, b).diffs
  /\ UNCHANGED <<tip, tipIndex, tipQueue, loading, evoVars>>

CleanupLists(lists, nHeight) ==
  [b \in Node |-> IF ListHeight(b) + LIST_DIFFS_CACHE_SIZE < nHeight THEN None ELSE lists[b]]

CleanupDiffs(diffs, nHeight) ==
  [b \in Block |-> IF Height(b) + LIST_DIFFS_CACHE_SIZE < nHeight THEN None ELSE diffs[b]]

SnapshotDue(b) == WritesSnapshot(Height(b), ListHeight(Parent(b)))

\* The list, and the diff, that BuildNewListFromBlock and BuildDiff make from old.
NewList(b, old) == IF old = Parent(b) THEN b ELSE Wrong

\* ConnectBlock up to ProcessBlock's changes to the caches; when VerifyBestBlock
\* fails ConnectBlock aborts the node and changes nothing.
ProcessBlock(b) ==
  /\ ~committing /\ VerifyBestBlock(tip)
  /\ Parent(b) = tip
  /\ LET got == GetListForBlock(EvoDb, tip)
         lists == IF SnapshotDue(b) THEN Emplace(got.lists, b, NewList(b, got.list)) ELSE got.lists
     IN  /\ got.list # None
         /\ mnListsCache' = CleanupLists(lists, Height(b))
         /\ mnListDiffsCache' = CleanupDiffs(Emplace(got.diffs, b, NewList(b, got.list)), Height(b))

\* Mutant: a diff that is in the cache is not written again.
WriteIfNotCached(b, new) ==
  evoRoot' = [snapshot |-> IF SnapshotDue(b) THEN [evoRoot.snapshot EXCEPT ![b] = new]
                           ELSE evoRoot.snapshot,
              diff |-> IF mnListDiffsCache[b] # None THEN evoRoot.diff
                       ELSE [evoRoot.diff EXCEPT ![b] = new],
              best |-> b]

\* ProcessBlock's writes and WriteBestBlock, committed with the block.
WriteBlock(b, new) ==
  evoRoot' = [snapshot |-> IF SnapshotDue(b) THEN [evoRoot.snapshot EXCEPT ![b] = new]
                           ELSE evoRoot.snapshot,
              diff |-> [evoRoot.diff EXCEPT ![b] = new],
              best |-> b]

\* ConnectTip; last when ActivateBestChain signals the new tip.
ConnectTip(b, last) ==
  /\ ProcessBlock(b) /\ WriteBlock(b, NewList(b, GetListForBlock(EvoDb, tip).list))
  /\ tip' = b
  /\ last => Len(tipQueue) < MaxQueue
  /\ tipQueue' = IF last THEN Append(tipQueue, b) ELSE tipQueue
  /\ UNCHANGED <<tipIndex, loading, evoBatch, committing, disk>>

\* ConnectBlock fails after ProcessBlock: the scoped commit rolls EvoDB back.
ConnectFails(b) ==
  /\ ProcessBlock(b)
  /\ UNCHANGED <<tip, tipIndex, tipQueue, loading, evoVars>>

\* UndoBlock looks the two lists up only for a diff with changes.
DisconnectTip ==
  LET cache == GetListForBlock(EvoDb, tip)
      prev == Get(EvoDb, cache.lists, cache.diffs, Parent(tip))
      kept == IF tip \in Changed THEN prev ELSE [lists |-> mnListsCache, diffs |-> mnListDiffsCache]
  IN  /\ ~committing /\ VerifyBestBlock(tip)
      /\ tip # Root
      /\ tip \in Changed => cache.list # None /\ prev.list # None
      /\ mnListsCache' = [kept.lists EXCEPT ![tip] = None]
      /\ mnListDiffsCache' = [kept.diffs EXCEPT ![tip] = None]
      /\ tip' = Parent(tip) /\ evoRoot' = [evoRoot EXCEPT !.best = Parent(tip)]
      /\ UNCHANGED <<tipIndex, tipQueue, loading, evoBatch, committing, disk>>

UpdatedBlockTip ==
  /\ tipQueue # <<>>
  /\ tipIndex' = Head(tipQueue) /\ tipQueue' = Tail(tipQueue)
  /\ UNCHANGED <<tip, caches, loading, evoVars>>

InitializeCurrentBlockTip ==
  /\ loading /\ loading' = FALSE
  /\ tipIndex' = tip
  /\ UNCHANGED <<tip, caches, tipQueue, evoVars>>

\* The coins are on disk; the root commit begins.
FlushStateToDisk ==
  /\ ~committing /\ committing' = TRUE
  /\ disk' = [disk EXCEPT !.tip = tip]
  /\ UNCHANGED <<tip, caches, tipIndex, tipQueue, loading, evoRoot, evoBatch>>

FlushEvoDb ==
  /\ committing /\ committing' = FALSE
  /\ disk' = [disk EXCEPT !.evoDb = Whole] /\ evoRoot' = Nothing /\ evoBatch' = Nothing
  /\ UNCHANGED <<tip, caches, tipIndex, tipQueue, loading>>

\* WriteBatch throws: the node is told to shut down but goes on for a while.
FlushEvoDbFails ==
  /\ committing /\ committing' = FALSE
  /\ evoBatch' = Over(evoRoot, evoBatch) /\ evoRoot' = Nothing
  /\ UNCHANGED <<tip, caches, tipIndex, tipQueue, loading, disk>>

\* The node stops at any point and starts from what is on disk, with its EvoDB
\* behind the coins if it stopped in between.
Restart ==
  /\ tip' = disk.tip
  /\ evoRoot' = Nothing /\ evoBatch' = Nothing /\ committing' = FALSE
  /\ mnListsCache' = NoLists /\ mnListDiffsCache' = NoDiffs
  /\ tipIndex' = None /\ tipQueue' = <<>> /\ loading' = TRUE
  /\ UNCHANGED disk

\* The restart with -reindex that VerifyDB asks for in that case.
Reindex ==
  /\ disk.evoDb.best # disk.tip
  /\ tip' = Root /\ disk' = [evoDb |-> Fresh, tip |-> Root]
  /\ evoRoot' = Nothing /\ evoBatch' = Nothing /\ committing' = FALSE
  /\ mnListsCache' = NoLists /\ mnListDiffsCache' = NoDiffs
  /\ tipIndex' = None /\ tipQueue' = <<>> /\ loading' = TRUE

ManagerNext ==
  \/ \E b \in Block : Lookup(b)
  \/ \E b \in Block, last \in BOOLEAN : ConnectTip(b, last)
  \/ \E b \in Block : ConnectFails(b)
  \/ DisconnectTip \/ UpdatedBlockTip \/ InitializeCurrentBlockTip
  \/ FlushStateToDisk \/ FlushEvoDb \/ FlushEvoDbFails \/ Restart \/ Reindex

ManagerSpec == ManagerInit /\ [][ManagerNext]_managerVars

-----------------------------------------------------------------------------
(* Properties *)

\* GetListForBlock never gives a wrong list, for a block of the active chain or of
\* the chain of the manager's own tip, which may have been disconnected, whatever
\* the caches hold, after failed blocks, reorganisations, evictions and restarts,
\* and also for a reader that overlaps a root commit.  It gives the list, and does
\* not throw "No masternode list data found", except while the root commit runs or
\* the database is behind the chain; for a disconnected block also while a batch
\* that could not be written is waiting for the next flush.
ListsAvailable ==
  \A b \in Asked, d \in Views :
    LET list == GetListForBlock(d, b).list
    IN  \/ list = b
        \/ /\ list = None
           /\ \/ committing \/ ~VerifyBestBlock(tip)
              \/ b \notin Chain(tip) /\ evoBatch # Nothing
==============================================================================
