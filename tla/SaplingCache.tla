---------------------------- MODULE SaplingCache ----------------------------
(***************************************************************************)
(* The shielded part of CCoinsViewCache and CCoinsViewDB: the commitment   *)
(* tree anchors, the nullifiers and the best anchor, as ConnectBlock and   *)
(* DisconnectBlock use them through a view over pcoinsTip.  A commitment   *)
(* tree is the sequence of its leaves and is its own root; a cache entry   *)
(* keeps the tree apart from the root it is filed under.                   *)
(***************************************************************************)
EXTENDS Naturals, Sequences

CONSTANTS
  Leaf,         \* note commitments
  Nullifier,    \* nullifiers
  NoRecord,     \* the map has no entry
  NullRoot,     \* the null hash: the best anchor is not loaded
  MaxLeaves,    \* bound on the size of a tree
  MaxBlocks     \* bound on the length of the chain

EmptyTree == <<>>
Root == UNION {[1..n -> Leaf] : n \in 0..MaxLeaves}

\* CAnchorsSaplingCacheEntry and CNullifiersCacheEntry.
AnchorEntry    == [entered : BOOLEAN, tree : Root, dirty : BOOLEAN]
NullifierEntry == [entered : BOOLEAN, dirty : BOOLEAN]

ASSUME SaplingAssumption ==
  /\ NullRoot \notin Root /\ NoRecord \notin Root
  /\ NoRecord \notin AnchorEntry /\ NoRecord \notin NullifierEntry
  /\ MaxLeaves \in Nat /\ MaxBlocks \in Nat

VARIABLES
  saplingDb,   \* [anchors, nullifiers, best]: the database (anchors: root to tree)
  saplingTip,  \* [anchors, nullifiers, best]: pcoinsTip
  saplingView, \* [anchors, nullifiers, best]: the block's view
  phase,       \* "idle", or "connect" while ConnectBlock runs
  spent,       \* nullifiers of the block being connected
  chain,       \* the blocks applied to pcoinsTip: [root, nullifiers]
  flushed,     \* the chain at the last flush of pcoinsTip
  failed       \* an assertion failed

saplingVars == <<saplingDb, saplingTip, saplingView, phase, spent, chain, flushed, failed>>

EmptySapling == [anchors |-> [r \in Root |-> NoRecord],
                 nullifiers |-> [n \in Nullifier |-> NoRecord], best |-> NullRoot]

-----------------------------------------------------------------------------
(* CCoinsViewDB.  The empty tree is always known and never stored. *)

DbAnchor(r)    == IF r = EmptyTree THEN EmptyTree ELSE saplingDb.anchors[r]
DbBestAnchor   == IF saplingDb.best = NullRoot THEN EmptyTree ELSE saplingDb.best

(* GetSaplingAnchorAt: the tree found at a layer, NoRecord when there is none. *)

Anchor(cache, r, got) ==
  IF cache.anchors[r] = NoRecord THEN got
  ELSE IF cache.anchors[r].entered THEN cache.anchors[r].tree ELSE NoRecord

TipAnchor(r)  == Anchor(saplingTip, r, DbAnchor(r))
ViewAnchor(r) == Anchor(saplingView, r, TipAnchor(r))

\* The cache afterwards: a tree found below is kept, a miss is not.
FetchAnchor(cache, r, got) ==
  IF cache.anchors[r] # NoRecord \/ got = NoRecord THEN cache
  ELSE [cache EXCEPT !.anchors[r] = [entered |-> TRUE, tree |-> got, dirty |-> FALSE]]

(* GetNullifier: misses are kept as well. *)

Spent(cache, n, got) ==
  IF cache.nullifiers[n] = NoRecord THEN got ELSE cache.nullifiers[n].entered

TipSpent(n)  == Spent(saplingTip, n, n \in saplingDb.nullifiers)
ViewSpent(n) == Spent(saplingView, n, TipSpent(n))

FetchNullifier(cache, n, got) ==
  IF cache.nullifiers[n] # NoRecord THEN cache
  ELSE [cache EXCEPT !.nullifiers[n] = [entered |-> got, dirty |-> FALSE]]

(* GetBestAnchor *)

TipBest == IF saplingTip.best = NullRoot THEN DbBestAnchor ELSE saplingTip.best

-----------------------------------------------------------------------------
(* Updates of one cache. *)

SetNullifiers(cache, S, isSpent) ==
  [cache EXCEPT !.nullifiers = [n \in Nullifier |->
     IF n \in S THEN [entered |-> isSpent, dirty |-> TRUE] ELSE cache.nullifiers[n]]]

\* cache.best is loaded.
PushAnchor(cache, tree) ==
  IF cache.best = tree THEN cache
  ELSE [cache EXCEPT !.anchors[tree] = [entered |-> TRUE, tree |-> tree, dirty |-> TRUE],
                     !.best = tree]

\* Variant: a block that left the tree alone pops the anchor all the same.
PopAnchorAlways(cache, newrt, got) ==
  [FetchAnchor(cache, cache.best, got) EXCEPT
     !.anchors[cache.best] = [entered |-> FALSE, tree |-> @.tree, dirty |-> TRUE],
     !.best = newrt]

\* got is what GetSaplingAnchorAt(cache.best) finds below: it brings the entry in.
PopAnchor(cache, newrt, got) ==
  IF cache.best = newrt THEN cache
  ELSE [FetchAnchor(cache, cache.best, got) EXCEPT
          !.anchors[cache.best] = [entered |-> FALSE, tree |-> @.tree, dirty |-> TRUE],
          !.best = newrt]

MergeAnchor(child, parent) ==
  IF child = NoRecord THEN parent
  ELSE IF ~child.dirty THEN parent
  ELSE IF parent = NoRecord THEN child
  ELSE IF parent.entered = child.entered THEN parent
  ELSE [entered |-> child.entered, tree |-> parent.tree, dirty |-> TRUE]

\* Variant: an entry the parent has already is left as it is.
MergeNullifierInsertsOnly(child, parent) ==
  IF child = NoRecord THEN parent
  ELSE IF ~child.dirty \/ parent # NoRecord THEN parent ELSE child

MergeNullifier(child, parent) ==
  IF child = NoRecord THEN parent
  ELSE IF ~child.dirty THEN parent
  ELSE IF parent = NoRecord THEN child
  ELSE IF parent.entered = child.entered THEN parent
  ELSE child

BatchWriteSapling(parent, child) ==
  [anchors |-> [r \in Root |-> MergeAnchor(child.anchors[r], parent.anchors[r])],
   nullifiers |-> [n \in Nullifier |-> MergeNullifier(child.nullifiers[n], parent.nullifiers[n])],
   best |-> child.best]

\* Variant: a nullifier that is no longer entered stays in the database.
DbWriteNeverErases(cache) ==
  [anchors |-> [r \in Root |->
     LET e == cache.anchors[r] IN
     IF e = NoRecord THEN saplingDb.anchors[r] ELSE IF e.dirty THEN e.tree ELSE saplingDb.anchors[r]],
   nullifiers |-> saplingDb.nullifiers \cup {n \in Nullifier : cache.nullifiers[n] # NoRecord},
   best |-> cache.best]

\* BatchWriteSapling: DIRTY entries only; the empty root and a null best are skipped.
DbWriteSapling(cache) ==
  [anchors |-> [r \in Root |->
     LET e == cache.anchors[r] IN
     IF e = NoRecord THEN saplingDb.anchors[r]
     ELSE IF ~e.dirty THEN saplingDb.anchors[r]
     ELSE IF ~e.entered THEN NoRecord
     ELSE IF r = EmptyTree THEN saplingDb.anchors[r] ELSE e.tree],
   nullifiers |-> {n \in Nullifier :
     LET e == cache.nullifiers[n] IN
     IF e = NoRecord THEN n \in saplingDb.nullifiers
     ELSE IF e.dirty THEN e.entered ELSE n \in saplingDb.nullifiers},
   best |-> IF cache.best = NullRoot THEN saplingDb.best ELSE cache.best]

-----------------------------------------------------------------------------
\* The last block of a chain, the chain without it, and the root it leaves.
LastBlock(c) == c[Len(c)]
Previous(c)  == SubSeq(c, 1, Len(c) - 1)
LastRoot(c)  == IF c = <<>> THEN EmptyTree ELSE LastBlock(c).root

SaplingInit ==
  /\ saplingDb = [anchors |-> [r \in Root |-> NoRecord], nullifiers |-> {}, best |-> NullRoot]
  /\ saplingTip = EmptySapling /\ saplingView = EmptySapling
  /\ phase = "idle" /\ spent = {}
  /\ chain = <<>> /\ flushed = <<>> /\ failed = FALSE

\* ConnectBlock opens its view and loads the tree of the best anchor, which must exist.
BeginConnect ==
  /\ phase = "idle" /\ phase' = "connect" /\ Len(chain) < MaxBlocks
  /\ LET best == TipBest IN
     /\ saplingTip' = [FetchAnchor(saplingTip, best, DbAnchor(best)) EXCEPT !.best = best]
     /\ saplingView' = [FetchAnchor(EmptySapling, best, TipAnchor(best)) EXCEPT !.best = best]
     /\ failed' = (TipAnchor(best) = NoRecord)
  /\ spent' = {} /\ UNCHANGED <<saplingDb, chain, flushed>>

\* One shielded transaction: HaveShieldedRequirements, then SetNullifiers.
\* A failed requirement ends ConnectBlock and the view is dropped.
SpendNote(n, anchor) ==
  /\ phase = "connect"
  /\ LET tipN == IF saplingView.nullifiers[n] # NoRecord THEN saplingTip
                 ELSE FetchNullifier(saplingTip, n, n \in saplingDb.nullifiers)
         viewN == FetchNullifier(saplingView, n, TipSpent(n))
         viewA == FetchAnchor(viewN, anchor, TipAnchor(anchor))
         ok == ~ViewSpent(n) /\ ViewAnchor(anchor) # NoRecord
     IN /\ saplingTip' = IF ViewSpent(n) \/ saplingView.anchors[anchor] # NoRecord THEN tipN
                         ELSE FetchAnchor(tipN, anchor, DbAnchor(anchor))
        /\ saplingView' = IF ok THEN SetNullifiers(viewA, {n}, TRUE) ELSE EmptySapling
        /\ spent' = IF ok THEN spent \cup {n} ELSE {}
        /\ phase' = IF ok THEN phase ELSE "idle"
  /\ UNCHANGED <<saplingDb, chain, flushed, failed>>

\* The end of ConnectBlock: the block's commitments are appended (perhaps none),
\* the anchor is pushed and the view is flushed into pcoinsTip.
FinishConnect(leaves) ==
  /\ phase = "connect" /\ phase' = "idle"
  /\ LET tree == ViewAnchor(saplingView.best) \o leaves IN
     /\ Len(tree) <= MaxLeaves
     /\ saplingTip' = BatchWriteSapling(saplingTip, PushAnchor(saplingView, tree))
     /\ chain' = Append(chain, [root |-> tree, nullifiers |-> spent])
  /\ saplingView' = EmptySapling /\ spent' = {}
  /\ UNCHANGED <<saplingDb, flushed, failed>>

\* The block turned out invalid for another reason: the view is dropped.
AbandonConnect ==
  /\ phase = "connect" /\ phase' = "idle"
  /\ saplingView' = EmptySapling /\ spent' = {}
  /\ UNCHANGED <<saplingDb, saplingTip, chain, flushed, failed>>

\* Variant: the popped entry is created without bringing its tree into the cache.
DisconnectWithoutTree ==
  /\ phase = "idle" /\ chain # <<>>
  /\ LET best == TipBest
         newrt == LastRoot(Previous(chain))
         v == SetNullifiers([EmptySapling EXCEPT !.best = best], LastBlock(chain).nullifiers, FALSE)
     IN saplingTip' = BatchWriteSapling(saplingTip, PopAnchor(v, newrt, EmptyTree))
  /\ chain' = Previous(chain)
  /\ UNCHANGED <<saplingDb, saplingView, phase, spent, flushed, failed>>

\* DisconnectTip: nullifiers out, the previous anchor back, the saplingView flushed.
Disconnect ==
  /\ phase = "idle" /\ chain # <<>>
  /\ LET best == TipBest
         newrt == LastRoot(Previous(chain))
         below == IF best = newrt THEN saplingTip ELSE FetchAnchor(saplingTip, best, DbAnchor(best))
         v == SetNullifiers([EmptySapling EXCEPT !.best = best], LastBlock(chain).nullifiers, FALSE)
     IN /\ failed' = (best # newrt /\ TipAnchor(best) = NoRecord)
        /\ saplingTip' = BatchWriteSapling(below, PopAnchor(v, newrt, TipAnchor(best)))
  /\ chain' = Previous(chain)
  /\ UNCHANGED <<saplingDb, saplingView, phase, spent, flushed>>

\* Lookups made on pcoinsTip by the mempool and RPC between blocks.
ReadAnchor(r) ==
  /\ phase = "idle" /\ saplingTip' = FetchAnchor(saplingTip, r, DbAnchor(r))
  /\ UNCHANGED <<saplingDb, saplingView, phase, spent, chain, flushed, failed>>

ReadNullifier(n) ==
  /\ phase = "idle" /\ saplingTip' = FetchNullifier(saplingTip, n, n \in saplingDb.nullifiers)
  /\ UNCHANGED <<saplingDb, saplingView, phase, spent, chain, flushed, failed>>

FlushSapling ==
  /\ phase = "idle"
  /\ saplingDb' = DbWriteSapling(saplingTip)
  /\ saplingTip' = [EmptySapling EXCEPT !.best = saplingTip.best]
  /\ flushed' = chain
  /\ UNCHANGED <<saplingView, phase, spent, chain, failed>>

\* The process stops between flushes and starts again from the database.
Restart ==
  /\ saplingTip' = EmptySapling /\ saplingView' = EmptySapling /\ phase' = "idle" /\ spent' = {}
  /\ chain' = flushed
  /\ UNCHANGED <<saplingDb, flushed, failed>>

Leaves == {<<>>} \cup {<<l>> : l \in Leaf}

SaplingNext ==
  /\ ~failed
  /\ \/ BeginConnect \/ AbandonConnect \/ Disconnect \/ FlushSapling \/ Restart
     \/ \E n \in Nullifier, r \in Root : SpendNote(n, r)
     \/ \E l \in Leaves : FinishConnect(l)
     \/ \E r \in Root : ReadAnchor(r)
     \/ \E n \in Nullifier : ReadNullifier(n)

SaplingSpec == SaplingInit /\ [][SaplingNext]_saplingVars
-----------------------------------------------------------------------------
Roots(c) == {EmptyTree} \cup {c[i].root : i \in DOMAIN c}
Nullifiers(c) == UNION {c[i].nullifiers : i \in DOMAIN c}

\* What pcoinsTip shows is a function of the active chain alone, whatever blocks
\* were connected, dropped, disconnected, looked up and flushed on the way: the
\* roots of its blocks with their trees, its nullifiers, its last root.
TipShowsChain ==
  /\ \A r \in Root : TipAnchor(r) = IF r \in Roots(chain) THEN r ELSE NoRecord
  /\ \A n \in Nullifier : TipSpent(n) <=> n \in Nullifiers(chain)
  /\ TipBest = LastRoot(chain)

\* The database holds the same for the chain at the last flush, not a mixture.
DbShowsFlushedChain ==
  /\ \A r \in Root : DbAnchor(r) = IF r \in Roots(flushed) THEN r ELSE NoRecord
  /\ saplingDb.nullifiers = Nullifiers(flushed)
  /\ DbBestAnchor = LastRoot(flushed)

\* The assertions on the best anchor's tree (ConnectBlock, BringBestAnchorIntoCache)
\* hold: a reorganisation never removes the anchor the chain still stands on.
AssertionsHold == ~failed

\* No nullifier occurs in two blocks of the active chain: the check in
\* HaveShieldedRequirements sees every spend, across reorganisations and flushes.
NoDoubleSpend ==
  \A i, j \in DOMAIN chain : i # j => chain[i].nullifiers \cap chain[j].nullifiers = {}
=============================================================================
