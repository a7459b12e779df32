----------------------------- MODULE CoinsCache -----------------------------
(***************************************************************************)
(* The coin part of CCoinsViewCache (coins.h, coins.cpp): pcoinsTip, a     *)
(* cache over the coin database, and the short-lived view that applies one *)
(* block on top of it.  Each cache holds entries with DIRTY and FRESH      *)
(* flags; a flush hands only the DIRTY ones to the layer below, and an     *)
(* entry that is FRESH and spent is simply dropped.  The Sapling maps of   *)
(* the same class are in SaplingCache; no operation on one map reads the   *)
(* other.  All of it runs under cs_main, so an operation is one step.      *)
(***************************************************************************)
EXTENDS Integers, FiniteSets, Functions

CONSTANTS
  Outpoint,      \* COutPoint
  Coin,          \* unspent Coin values
  Unspendable,   \* the coins AddCoin ignores: unspendable scripts, zerocoin mints
  InvalidOut,    \* invalid_out::setInvalidOutPoints
  Hash,          \* block hashes
  DynamicUsage,  \* bytes a coin's script takes
  Null,          \* a cleared coin (IsSpent) and the null hash
  NotFound,      \* GetCoin returned false
  NoEntry        \* the map has no entry for the outpoint

ASSUME CoinsAssumption ==
  /\ IsFiniteSet(Outpoint)   \* a hash and a number, both of fixed width
  /\ Unspendable \subseteq Coin /\ InvalidOut \subseteq Outpoint
  /\ DynamicUsage \in [Coin -> Nat]
  /\ Null \notin Coin \cup Hash /\ NotFound \notin Coin \cup {Null}
  /\ \A c \in Coin \cup {Null}, d \in BOOLEAN, f \in BOOLEAN :
       NoEntry # [coin |-> c, dirty |-> d, fresh |-> f]

VARIABLES
  db, dbBest,    \* the coins of the chainstate database and its best block
  tip,           \* pcoinsTip
  view,          \* the CCoinsViewCache on top of pcoinsTip
  open,          \* whether that view exists
  thrown         \* a logic_error or assertion ended the program

vars == <<db, dbBest, tip, view, open, thrown>>

Entry == [coin : Coin \cup {Null}, dirty : BOOLEAN, fresh : BOOLEAN]

\* x is a cache (what cachedCoinsUsage holds is UsageIsSum's business).
IsCache(x) ==
  /\ x = [cacheCoins |-> x.cacheCoins, hashBlock |-> x.hashBlock,
          cachedCoinsUsage |-> x.cachedCoinsUsage]
  /\ x.cacheCoins \in [Outpoint -> Entry \cup {NoEntry}]
  /\ x.hashBlock \in Hash \cup {Null}

EmptyCache == [cacheCoins |-> [o \in Outpoint |-> NoEntry],
               hashBlock |-> Null, cachedCoinsUsage |-> 0]

Usage(c) == IF c \in Coin THEN DynamicUsage[c] ELSE 0
EntryUsage(e) == IF e = NoEntry THEN 0 ELSE Usage(e.coin)

-----------------------------------------------------------------------------
(* Operations on one cache; `got' is what base->GetCoin returned. *)

FetchCoin(cache, o, got) ==
  IF cache.cacheCoins[o] # NoEntry \/ got = NotFound THEN cache
  ELSE [cache EXCEPT !.cacheCoins[o] = [coin |-> got, dirty |-> FALSE, fresh |-> got = Null],
                     !.cachedCoinsUsage = @ + Usage(got)]

\* The entry AddCoin works on: the one found, or a default-constructed one.
AddSlot(cache, o) ==
  IF cache.cacheCoins[o] = NoEntry THEN [coin |-> Null, dirty |-> FALSE, fresh |-> FALSE]
  ELSE cache.cacheCoins[o]

AddCoinThrows(cache, o, c, possible_overwrite) ==
  c \notin Unspendable /\ ~possible_overwrite /\ AddSlot(cache, o).coin # Null

\* Mutant: FRESH although the entry is DIRTY.
AddCoinAlwaysFresh(cache, o, c, possible_overwrite) ==
  LET e == AddSlot(cache, o)
  IN IF c \in Unspendable THEN cache
     ELSE [cache EXCEPT !.cacheCoins[o] = [coin |-> c, dirty |-> TRUE, fresh |-> e.fresh \/ ~possible_overwrite],
                        !.cachedCoinsUsage = @ - Usage(e.coin) + Usage(c)]

AddCoin(cache, o, c, possible_overwrite) ==
  LET e     == AddSlot(cache, o)
      fresh == ~possible_overwrite /\ ~e.dirty
  IN IF c \in Unspendable THEN cache
     ELSE [cache EXCEPT !.cacheCoins[o] = [coin |-> c, dirty |-> TRUE, fresh |-> e.fresh \/ fresh],
                        !.cachedCoinsUsage = @ - Usage(e.coin) + Usage(c)]

SpendCoin(cache, o) ==
  LET e == cache.cacheCoins[o] IN
  IF e = NoEntry THEN cache
  ELSE [cache EXCEPT
          !.cacheCoins[o] = IF e.fresh THEN NoEntry
                            ELSE [coin |-> Null, dirty |-> TRUE, fresh |-> FALSE],
          !.cachedCoinsUsage = @ - Usage(e.coin)]

\* Mutant: the counter is not reduced.
UncacheCoinKeepsUsage(cache, o) ==
  LET e == cache.cacheCoins[o] IN
  IF e = NoEntry THEN cache
  ELSE IF e.dirty \/ e.fresh THEN cache ELSE [cache EXCEPT !.cacheCoins[o] = NoEntry]

UncacheCoin(cache, o) ==
  LET e == cache.cacheCoins[o] IN
  IF e = NoEntry THEN cache
  ELSE IF e.dirty \/ e.fresh THEN cache
  ELSE [cache EXCEPT !.cacheCoins[o] = NoEntry, !.cachedCoinsUsage = @ - Usage(e.coin)]

-----------------------------------------------------------------------------
(* CCoinsViewCache::BatchWrite: what one child entry does to the parent's. *)

MergeThrows(child, parent) ==
  /\ child # NoEntry /\ parent # NoEntry
  /\ child.dirty /\ child.fresh /\ parent.coin # Null

\* Mutant: the child's FRESH flag is copied to an entry the parent has.
MergeCopiesFresh(child, parent) ==
  IF child = NoEntry THEN parent
  ELSE IF ~child.dirty THEN parent
  ELSE IF parent = NoEntry
       THEN IF child.fresh /\ child.coin = Null THEN NoEntry
            ELSE [coin |-> child.coin, dirty |-> TRUE, fresh |-> child.fresh]
  ELSE IF parent.fresh /\ child.coin = Null THEN NoEntry
  ELSE [coin |-> child.coin, dirty |-> TRUE, fresh |-> parent.fresh \/ child.fresh]

\* Mutant: a spent entry the parent lacks is dropped although it is not FRESH.
MergeDropsSpent(child, parent) ==
  IF child = NoEntry THEN parent
  ELSE IF ~child.dirty THEN parent
  ELSE IF child.coin = Null /\ (parent = NoEntry \/ parent.fresh) THEN NoEntry
  ELSE [coin |-> child.coin, dirty |-> TRUE,
        fresh |-> IF parent = NoEntry THEN child.fresh ELSE parent.fresh]

Merge(child, parent) ==
  IF child = NoEntry THEN parent
  ELSE IF ~child.dirty THEN parent
  ELSE IF parent = NoEntry
       THEN IF child.fresh /\ child.coin = Null THEN NoEntry
            ELSE [coin |-> child.coin, dirty |-> TRUE, fresh |-> child.fresh]
  ELSE IF parent.fresh /\ child.coin = Null THEN NoEntry
  ELSE [coin |-> child.coin, dirty |-> TRUE, fresh |-> parent.fresh]

\* The change BatchWrite makes to cachedCoinsUsage for that entry.
MergeUsage(child, parent) ==
  IF child = NoEntry THEN 0
  ELSE IF ~child.dirty THEN 0
  ELSE (IF Merge(child, parent) = NoEntry THEN 0 ELSE Usage(child.coin)) - EntryUsage(parent)

BatchWrite(parent, child) ==
  LET c == child.cacheCoins  p == parent.cacheCoins IN
  [cacheCoins |-> [o \in Outpoint |-> Merge(c[o], p[o])],
   hashBlock |-> child.hashBlock,
   cachedCoinsUsage |-> parent.cachedCoinsUsage
                        + SumFunction([o \in Outpoint |-> MergeUsage(c[o], p[o])])]

\* CCoinsViewDB::BatchWrite: DIRTY entries are written, or erased when spent.
Written(e, got) ==
  IF e = NoEntry THEN got
  ELSE IF ~e.dirty THEN got
  ELSE IF e.coin = Null THEN NotFound ELSE e.coin

DbWrite(cache) ==
  [o \in Outpoint |-> Written(cache.cacheCoins[o], db[o])]

\* Flush clears the maps and the counter; hashBlock stays.
Flushed(cache) == [EmptyCache EXCEPT !.hashBlock = cache.hashBlock]

-----------------------------------------------------------------------------
(* Lookups through the layers. *)

Through(e, got) == IF e = NoEntry THEN got ELSE e.coin
TipGetCoin(o)   == Through(tip.cacheCoins[o], db[o])
ViewGetCoin(o)  == Through(view.cacheCoins[o], TipGetCoin(o))
GetCoin(o)      == IF open THEN ViewGetCoin(o) ELSE TipGetCoin(o)
HaveCoin(o)     == GetCoin(o) \in Coin
\* A spent coin and a missing one look the same to a caller.
Shown(c)        == IF c \in Coin THEN c ELSE NotFound

TipGetBestBlock == IF tip.hashBlock = Null THEN dbBest ELSE tip.hashBlock
GetBestBlock    == IF open /\ view.hashBlock # Null THEN view.hashBlock ELSE TipGetBestBlock

\* pcoinsTip after the view looked o up: a miss in the view reads through it.
TipFetched(o)  == IF open /\ view.cacheCoins[o] # NoEntry THEN tip ELSE FetchCoin(tip, o, db[o])
ViewFetched(o) == FetchCoin(view, o, TipGetCoin(o))

\* Replace the topmost cache (tipNow is what the lookups made of pcoinsTip).
SetTop(topNow, tipNow) ==
  /\ IF open THEN view' = topNow /\ tip' = tipNow ELSE tip' = topNow /\ view' = view
  /\ UNCHANGED <<db, dbBest, open>>

Top(o) == IF open THEN ViewFetched(o) ELSE TipFetched(o)

-----------------------------------------------------------------------------
(* Operations of the topmost view. *)

Init ==
  /\ db \in [Outpoint -> (Coin \ Unspendable) \cup {NotFound}]
  /\ dbBest \in Hash
  /\ tip = [EmptyCache EXCEPT !.hashBlock = dbBest]   \* loaded at start-up
  /\ view = EmptyCache /\ open = FALSE /\ thrown = FALSE

\* GetCoin, HaveCoin, AccessCoin, HaveInputs, GetValueIn: fill the caches.
Read(o) == SetTop(Top(o), TipFetched(o)) /\ thrown' = thrown

\* AddCoins for a new transaction's output: check is false, the outpoint is new.
AddNewCoin(o, c) ==
  LET top == IF open THEN view ELSE tip IN
  /\ ~HaveCoin(o)
  /\ SetTop(AddCoin(top, o, c, FALSE), tip)
  /\ thrown' = AddCoinThrows(top, o, c, FALSE)

\* AddCoins with check (RollforwardBlock), ApplyTxInUndo: look the outpoint up first.
AddCheckedCoin(o, c) ==
  /\ SetTop(AddCoin(Top(o), o, c, HaveCoin(o)), TipFetched(o))
  /\ thrown' = AddCoinThrows(Top(o), o, c, HaveCoin(o))

\* SpendCoin; also AddCoins for a banned outpoint with fSkipInvalid.
Spend(o) == SetTop(SpendCoin(Top(o), o), TipFetched(o)) /\ thrown' = thrown

SetBestBlock(h) ==
  /\ SetTop([(IF open THEN view ELSE tip) EXCEPT !.hashBlock = h], tip)
  /\ thrown' = thrown

\* GetBestBlock of the view keeps what it read from pcoinsTip.
LoadBestBlock ==
  /\ open /\ view.hashBlock = Null
  /\ view' = [view EXCEPT !.hashBlock = TipGetBestBlock]
  /\ tip' = [tip EXCEPT !.hashBlock = TipGetBestBlock]
  /\ UNCHANGED <<db, dbBest, open, thrown>>

(* Operations on a given layer. *)

UncacheTip(o)  == tip' = UncacheCoin(tip, o) /\ UNCHANGED <<db, dbBest, view, open, thrown>>
UncacheView(o) == open /\ view' = UncacheCoin(view, o) /\ UNCHANGED <<db, dbBest, tip, open, thrown>>

OpenView == ~open /\ open' = TRUE /\ UNCHANGED <<db, dbBest, tip, view, thrown>>
DropView == open /\ open' = FALSE /\ view' = EmptyCache /\ UNCHANGED <<db, dbBest, tip, thrown>>

\* view.Flush().  ConnectBlock and DisconnectBlock always set hashBlock before it.
FlushView ==
  /\ open /\ view.hashBlock # Null
  /\ thrown' = (\E o \in Outpoint : MergeThrows(view.cacheCoins[o], tip.cacheCoins[o]))
  /\ tip' = BatchWrite(tip, view)
  /\ view' = Flushed(view)
  /\ UNCHANGED <<db, dbBest, open>>

\* pcoinsTip->Flush(); the database asserts that the best block is not null.
FlushTip ==
  /\ thrown' = (tip.hashBlock = Null)
  /\ db' = DbWrite(tip) /\ dbBest' = tip.hashBlock
  /\ tip' = Flushed(tip)
  /\ UNCHANGED <<view, open>>

\* pcoinsTip->PruneInvalidEntries() at start-up: spend what is banned, then flush.
PruneInvalidEntries ==
  LET pruned == [tip EXCEPT !.cacheCoins = [o \in Outpoint |->
                   IF o \in InvalidOut /\ TipGetCoin(o) \in Coin
                   THEN SpendCoin(FetchCoin(tip, o, db[o]), o).cacheCoins[o]
                   ELSE tip.cacheCoins[o]]]
  IN /\ ~open
     /\ thrown' = (tip.hashBlock = Null)
     /\ db' = DbWrite(pruned) /\ dbBest' = tip.hashBlock
     /\ tip' = Flushed(tip)
     /\ UNCHANGED <<view, open>>

Next ==
  /\ ~thrown
  /\ \/ \E o \in Outpoint : \/ Read(o) \/ Spend(o) \/ UncacheTip(o) \/ UncacheView(o)
                            \/ \E c \in Coin : AddNewCoin(o, c) \/ AddCheckedCoin(o, c)
     \/ \E h \in Hash : SetBestBlock(h)
     \/ LoadBestBlock \/ OpenView \/ DropView
     \/ FlushView \/ FlushTip \/ PruneInvalidEntries

Spec == Init /\ [][Next]_vars
-----------------------------------------------------------------------------
\* The database holds unspent coins only and every cache entry is a coin or a spent
\* one with its two flags.
TypeOK ==
  /\ db \in [Outpoint -> Coin \cup {NotFound}] /\ dbBest \in Hash
  /\ IsCache(tip) /\ IsCache(view)
  /\ open \in BOOLEAN /\ thrown \in BOOLEAN

EntryAgrees(e, got) ==
  e # NoEntry => /\ ~e.dirty => Shown(e.coin) = Shown(got)
                 /\ e.fresh => got \notin Coin

\* The meaning of the flags in coins.h: an entry that is not DIRTY agrees with
\* the parent view, one that is FRESH has no unspent coin in the parent view.
\* BatchWrite and SpendCoin discard entries on the strength of exactly this.
FlagsMeanWhatTheySay ==
  \A o \in Outpoint : /\ EntryAgrees(tip.cacheCoins[o], db[o])
                      /\ EntryAgrees(view.cacheCoins[o], TipGetCoin(o))

\* No sequence of calls that keeps AddCoin's contract reaches a throw or assert:
\* neither "Adding new coin that replaces non-pruned entry" (AddCoin) nor "FRESH
\* flag misapplied" (BatchWrite) nor the null-hash assertion of the database.
NeverThrows == ~thrown

\* cachedCoinsUsage is the sum over the entries the cache holds (SelfTest in
\* coins_tests.cpp); FlushStateToDisk decides when to flush from it.  The counter
\* here is the part of it that coins make up: the code adds the Sapling anchor
\* trees to the same number, and they are not in this module.
UsageIsSum ==
  \A cache \in {tip, view} :
    cache.cachedCoinsUsage = SumFunction([o \in Outpoint |-> EntryUsage(cache.cacheCoins[o])])

\* The caches implement plain maps: whatever is fetched, evicted, dropped or
\* flushed, each layer shows the coins and best block its callers put there.
U == INSTANCE UtxoLayers WITH
       NoCoin <- NotFound,
       base <- db, baseBest <- dbBest,
       utxo <- [o \in Outpoint |-> Shown(TipGetCoin(o))], utxoBest <- TipGetBestBlock,
       work <- [o \in Outpoint |-> Shown(GetCoin(o))], workBest <- GetBestBlock

Refinement == U!Spec
=============================================================================
