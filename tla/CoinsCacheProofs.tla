-------------------------- MODULE CoinsCacheProofs --------------------------
(* Proofs about CoinsCache for every set of outpoints, coins and hashes.    *)
EXTENDS CoinsCache, TLAPS

\* The inductive invariant.  Besides the type and the meaning of the flags it
\* says that a closed view is empty and that pcoinsTip knows its best block:
\* without the first, opening a view could bring back old entries; without the
\* second, flushing pcoinsTip could trip the database's assertion.
IInv ==
  /\ TypeOK /\ FlagsMeanWhatTheySay /\ NeverThrows
  /\ tip.hashBlock \in Hash
  /\ ~open => view = EmptyCache

-----------------------------------------------------------------------------
(* What the operations on one cache do, entry by entry. *)

Same(f, cache) == IsCache(f) /\ f.hashBlock = cache.hashBlock

Fetches(f, cache, o, got) ==
  \A p \in Outpoint : f.cacheCoins[p] =
    IF p = o /\ cache.cacheCoins[o] = NoEntry /\ got # NotFound
    THEN [coin |-> got, dirty |-> FALSE, fresh |-> got = Null]
    ELSE cache.cacheCoins[p]

Spends(f, cache, o) ==
  \A p \in Outpoint : f.cacheCoins[p] =
    IF p # o \/ cache.cacheCoins[o] = NoEntry THEN cache.cacheCoins[p]
    ELSE IF cache.cacheCoins[o].fresh THEN NoEntry
    ELSE [coin |-> Null, dirty |-> TRUE, fresh |-> FALSE]

Adds(f, cache, o, c, po) ==
  \A p \in Outpoint : f.cacheCoins[p] =
    IF p # o \/ c \in Unspendable THEN cache.cacheCoins[p]
    ELSE [coin |-> c, dirty |-> TRUE,
          fresh |-> AddSlot(cache, o).fresh \/ (~po /\ ~AddSlot(cache, o).dirty)]

Uncaches(f, cache, o) ==
  \A p \in Outpoint :
    \/ f.cacheCoins[p] = cache.cacheCoins[p]
    \/ /\ f.cacheCoins[p] = NoEntry /\ cache.cacheCoins[p] \in Entry
       /\ ~cache.cacheCoins[p].dirty /\ ~cache.cacheCoins[p].fresh

Merges(f, parent, child) ==
  \A p \in Outpoint : f.cacheCoins[p] = Merge(child.cacheCoins[p], parent.cacheCoins[p])

Empty(f) == \A p \in Outpoint : f.cacheCoins[p] = NoEntry

\* FetchCoin only fills a missing entry, clean, and FRESH when it is a spent one.
LEMMA FetchCoinEffect ==
  ASSUME NEW cache, IsCache(cache), NEW o \in Outpoint,
         NEW got \in Coin \cup {Null, NotFound}
  PROVE  /\ Same(FetchCoin(cache, o, got), cache)
         /\ Fetches(FetchCoin(cache, o, got), cache, o, got)
  BY ZenonT(30) DEF FetchCoin, IsCache, Entry, Same, Fetches

\* SpendCoin forgets a FRESH entry and turns any other into a DIRTY spent one.
LEMMA SpendCoinEffect ==
  ASSUME NEW cache, IsCache(cache), NEW o \in Outpoint
  PROVE  Same(SpendCoin(cache, o), cache) /\ Spends(SpendCoin(cache, o), cache, o)
  BY ZenonT(30) DEF SpendCoin, IsCache, Entry, Same, Spends

\* The entry AddCoin starts from is an entry.
LEMMA AddSlotType ==
  ASSUME NEW cache, IsCache(cache), NEW o \in Outpoint
  PROVE  AddSlot(cache, o) \in Entry
  BY Zenon DEF AddSlot, IsCache, Entry

\* AddCoin leaves a DIRTY entry, FRESH when it was or when it is known new.
LEMMA AddCoinEffect ==
  ASSUME NEW cache, IsCache(cache), NEW o \in Outpoint, NEW c \in Coin,
         NEW po \in BOOLEAN
  PROVE  /\ Same(AddCoin(cache, o, c, po), cache)
         /\ Adds(AddCoin(cache, o, c, po), cache, o, c, po)
  BY ZenonT(30), AddSlotType DEF AddCoin, IsCache, Entry, Same, Adds

\* Uncache removes an entry only when neither flag is set.
LEMMA UncacheCoinEffect ==
  ASSUME NEW cache, IsCache(cache), NEW o \in Outpoint
  PROVE  Same(UncacheCoin(cache, o), cache) /\ Uncaches(UncacheCoin(cache, o), cache, o)
  BY ZenonT(30) DEF UncacheCoin, IsCache, Entry, Same, Uncaches

\* BatchWrite merges the two maps entry by entry.
LEMMA BatchWriteEffect ==
  ASSUME NEW parent, IsCache(parent), NEW child, IsCache(child)
  PROVE  /\ Same(BatchWrite(parent, child), child)
         /\ Merges(BatchWrite(parent, child), parent, child)
<1>1. \A p \in Outpoint : Merge(child.cacheCoins[p], parent.cacheCoins[p]) \in Entry \cup {NoEntry}
  BY Zenon DEF IsCache, Entry, Merge
<1> QED  BY Zenon, <1>1 DEF BatchWrite, IsCache, Same, Merges

\* A flushed cache is empty but for its best block.
LEMMA FlushedEffect ==
  ASSUME NEW cache, IsCache(cache)
  PROVE  Same(Flushed(cache), cache) /\ Empty(Flushed(cache))
  BY DEF Flushed, EmptyCache, IsCache, Same, Empty

\* A new cache has no entry and no best block.
LEMMA EmptyCacheEffect ==
  IsCache(EmptyCache) /\ EmptyCache.hashBlock = Null /\ Empty(EmptyCache)
  BY Zenon DEF EmptyCache, IsCache, Empty
-----------------------------------------------------------------------------
(* Single entries: e sits in a cache whose base returned got. *)

\* Pushing a child entry down never throws, leaves the parent entry in agreement
\* with the grandparent, and makes the parent show what the child showed.
LEMMA MergeAgrees ==
  ASSUME NEW child \in Entry \cup {NoEntry}, NEW parent \in Entry \cup {NoEntry},
         NEW got \in Coin \cup {NotFound},
         EntryAgrees(parent, got), EntryAgrees(child, Through(parent, got))
  PROVE  /\ ~MergeThrows(child, parent)
         /\ EntryAgrees(Merge(child, parent), got)
         /\ Shown(Through(Merge(child, parent), got)) = Shown(Through(child, Through(parent, got)))
<1> USE CoinsAssumption DEF CoinsAssumption, EntryAgrees, Through, Shown, Entry
<1>1. ~MergeThrows(child, parent)
  BY Zenon DEF MergeThrows
<1>2. EntryAgrees(Merge(child, parent), got)
  BY Zenon DEF Merge
<1>3. Shown(Through(Merge(child, parent), got)) = Shown(Through(child, Through(parent, got)))
  BY ZenonT(60) DEF Merge
<1> QED  BY Zenon, <1>1, <1>2, <1>3

\* Writing an entry to the database makes the database show what the entry showed.
LEMMA WrittenShows ==
  ASSUME NEW e \in Entry \cup {NoEntry}, NEW got \in Coin \cup {NotFound}, EntryAgrees(e, got)
  PROVE  /\ Written(e, got) \in Coin \cup {NotFound}
         /\ Written(e, got) = Shown(Through(e, got))
  BY Zenon, CoinsAssumption DEF CoinsAssumption, EntryAgrees, Through, Written, Shown, Entry

\* EntryAgrees looks at the base only through what it shows.
LEMMA AgreesByShown ==
  ASSUME NEW e, NEW a \in Coin \cup {Null, NotFound}, NEW b \in Coin \cup {Null, NotFound},
         Shown(a) = Shown(b), EntryAgrees(e, a)
  PROVE  EntryAgrees(e, b)
  BY Zenon, CoinsAssumption DEF CoinsAssumption, EntryAgrees, Shown

\* A fetched entry agrees with the base it came from and shows what was shown.
LEMMA FetchedAgrees ==
  ASSUME NEW f, NEW cache, IsCache(cache), NEW o \in Outpoint, NEW p \in Outpoint,
         NEW got \in Coin \cup {Null, NotFound}, Fetches(f, cache, o, got),
         EntryAgrees(cache.cacheCoins[o], got)
  PROVE  /\ p # o => f.cacheCoins[p] = cache.cacheCoins[p]
         /\ EntryAgrees(f.cacheCoins[o], got)
         /\ Shown(Through(f.cacheCoins[o], got)) = Shown(Through(cache.cacheCoins[o], got))
<1>1. p # o => f.cacheCoins[p] = cache.cacheCoins[p]
  BY Zenon DEF Fetches
<1>2. CASE cache.cacheCoins[o] = NoEntry /\ got # NotFound
  <2>1. f.cacheCoins[o] = [coin |-> got, dirty |-> FALSE, fresh |-> got = Null]
    BY ZenonT(30), <1>2 DEF Fetches
  <2>2. f.cacheCoins[o] # NoEntry
    BY ZenonT(30), <1>2, <2>1, CoinsAssumption DEF CoinsAssumption
  <2>3. f.cacheCoins[o].coin = got /\ (f.cacheCoins[o].fresh => got = Null)
    <3>1. f.cacheCoins[o].coin = got
      BY <2>1
    <3>2. CASE got = Null
      BY Zenon, <3>1, <3>2
    <3>3. CASE got # Null
      <4>1. f.cacheCoins[o] = [coin |-> got, dirty |-> FALSE, fresh |-> FALSE]
        BY ZenonT(30), <2>1, <3>3
      <4> QED  BY <3>1, <4>1
    <3> QED  BY Zenon, <3>2, <3>3
  <2>4. EntryAgrees(f.cacheCoins[o], got)
    BY Zenon, <2>3, CoinsAssumption DEF CoinsAssumption, EntryAgrees, Shown
  <2>5. Through(f.cacheCoins[o], got) = got /\ Through(cache.cacheCoins[o], got) = got
    BY Zenon, <1>2, <2>2, <2>3 DEF Through
  <2> QED  BY Zenon, <1>1, <2>4, <2>5
<1>3. CASE ~(cache.cacheCoins[o] = NoEntry /\ got # NotFound)
  BY Zenon, <1>1, <1>3 DEF Fetches
<1> QED  BY Zenon, <1>2, <1>3

\* After FetchCoin an outpoint without an entry is one the base does not have.
LEMMA FetchedMisses ==
  ASSUME NEW f, NEW cache, NEW o \in Outpoint,
         NEW got \in Coin \cup {Null, NotFound}, Fetches(f, cache, o, got),
         f.cacheCoins[o] = NoEntry
  PROVE  got = NotFound
<1> SUFFICES ASSUME got # NotFound  PROVE FALSE
  BY Zenon
<1>1. CASE cache.cacheCoins[o] = NoEntry
  <2>1. f.cacheCoins[o] = [coin |-> got, dirty |-> FALSE, fresh |-> got = Null]
    BY Zenon, <1>1 DEF Fetches
  <2> QED  BY ZenonT(30), <2>1, CoinsAssumption DEF CoinsAssumption
<1>2. CASE cache.cacheCoins[o] # NoEntry
  BY Zenon, <1>2 DEF Fetches
<1> QED  BY Zenon, <1>1, <1>2

\* Spending a fetched entry keeps agreement and shows no coin.
LEMMA SpentAgrees ==
  ASSUME NEW f, NEW cache, IsCache(cache), NEW o \in Outpoint,
         NEW got \in Coin \cup {Null, NotFound}, Spends(f, cache, o),
         EntryAgrees(cache.cacheCoins[o], got),
         cache.cacheCoins[o] = NoEntry => got = NotFound
  PROVE  /\ \A p \in Outpoint \ {o} : f.cacheCoins[p] = cache.cacheCoins[p]
         /\ EntryAgrees(f.cacheCoins[o], got)
         /\ Shown(Through(f.cacheCoins[o], got)) = NotFound
<1>1. \A p \in Outpoint \ {o} : f.cacheCoins[p] = cache.cacheCoins[p]
  BY Zenon DEF Spends
<1>2. CASE cache.cacheCoins[o] = NoEntry
  <2>1. f.cacheCoins[o] = NoEntry
    BY Zenon, <1>2 DEF Spends
  <2> QED  BY Zenon, <1>1, <1>2, <2>1, CoinsAssumption DEF CoinsAssumption, EntryAgrees, Shown, Through
<1>3. CASE cache.cacheCoins[o] # NoEntry /\ cache.cacheCoins[o].fresh
  <2>1. f.cacheCoins[o] = NoEntry
    BY Zenon, <1>3 DEF Spends
  <2> QED  BY Zenon, <1>1, <1>3, <2>1, CoinsAssumption DEF CoinsAssumption, EntryAgrees, Shown, Through
<1>4. CASE cache.cacheCoins[o] # NoEntry /\ ~cache.cacheCoins[o].fresh
  <2>1. f.cacheCoins[o] = [coin |-> Null, dirty |-> TRUE, fresh |-> FALSE]
    BY ZenonT(30), <1>4 DEF Spends
  <2>2. f.cacheCoins[o] # NoEntry
    BY ZenonT(30), <2>1, CoinsAssumption DEF CoinsAssumption
  <2> QED  BY <1>1, <2>1, <2>2, CoinsAssumption DEF CoinsAssumption, EntryAgrees, Shown, Through
<1> QED  BY Zenon, <1>2, <1>3, <1>4

\* Adding a coin keeps agreement and shows the coin, provided an addition that
\* excludes overwriting is made only where no coin was shown.
LEMMA AddedAgrees ==
  ASSUME NEW f, NEW cache, IsCache(cache), NEW o \in Outpoint, NEW c \in Coin,
         NEW po \in BOOLEAN, NEW got \in Coin \cup {Null, NotFound},
         Adds(f, cache, o, c, po), c \notin Unspendable,
         EntryAgrees(cache.cacheCoins[o], got),
         ~po => Through(cache.cacheCoins[o], got) \notin Coin
  PROVE  /\ ~AddCoinThrows(cache, o, c, po)
         /\ \A p \in Outpoint \ {o} : f.cacheCoins[p] = cache.cacheCoins[p]
         /\ EntryAgrees(f.cacheCoins[o], got)
         /\ Shown(Through(f.cacheCoins[o], got)) = c
<1> DEFINE e == AddSlot(cache, o)
           fr == e.fresh \/ (~po /\ ~e.dirty)
<1>1. \A p \in Outpoint \ {o} : f.cacheCoins[p] = cache.cacheCoins[p]
  BY Zenon DEF Adds
<1>2. f.cacheCoins[o] = [coin |-> c, dirty |-> TRUE, fresh |-> fr]
  BY ZenonT(30) DEF Adds
<1>3. e \in Entry
  BY Zenon, AddSlotType
<1>4. f.cacheCoins[o] # NoEntry /\ f.cacheCoins[o].coin = c /\ f.cacheCoins[o].dirty
  <2>1. fr \in BOOLEAN
    BY Zenon, <1>3 DEF Entry
  <2> HIDE DEF fr
  <2>2. f.cacheCoins[o].coin = c
    BY <1>2
  <2>3. f.cacheCoins[o].dirty
    BY <1>2
  <2>4. f.cacheCoins[o] # NoEntry
    <3> HIDE DEF e
    <3> QED  BY Zenon, <1>2, <2>1, CoinsAssumption, Zenon DEF CoinsAssumption
  <2> QED  BY Zenon, <2>2, <2>3, <2>4
<1>5. fr => got \notin Coin
  <2>1. CASE cache.cacheCoins[o] = NoEntry
    <3>1. e.fresh = FALSE /\ e.dirty = FALSE
      BY Zenon, <2>1 DEF AddSlot
    <3> QED  BY Zenon, <2>1, <3>1 DEF Through
  <2>2. CASE cache.cacheCoins[o] # NoEntry
    <3>1. e = cache.cacheCoins[o]
      BY Zenon, <2>2 DEF AddSlot
    <3> QED  BY Zenon, <2>2, <3>1, CoinsAssumption DEF CoinsAssumption, EntryAgrees, Through, Shown
  <2> QED  BY Zenon, <2>1, <2>2
<1>6. f.cacheCoins[o].fresh => fr
  <2>1. CASE ~fr
    <3>1. f.cacheCoins[o] = [coin |-> c, dirty |-> TRUE, fresh |-> FALSE]
      BY ZenonT(30), <1>2, <2>1
    <3> QED  BY <3>1
  <2> QED  BY Zenon, <2>1
<1>7. ~AddCoinThrows(cache, o, c, po)
  BY Zenon, CoinsAssumption DEF CoinsAssumption, AddCoinThrows, AddSlot, Through, IsCache, Entry
<1> QED  BY Zenon, <1>1, <1>4, <1>5, <1>6, <1>7 DEF EntryAgrees, Shown, Through
-----------------------------------------------------------------------------
(* Steps of the topmost view. *)

\* What base->GetCoin returns to the topmost cache.
TopBase(p) == IF open THEN TipGetCoin(p) ELSE db[p]
TopCache   == IF open THEN view ELSE tip

\* The values lookups return have their types.
LEMMA LookupTypes ==
  ASSUME IInv, NEW p \in Outpoint
  PROVE  /\ db[p] \in Coin \cup {NotFound}
         /\ tip.cacheCoins[p] \in Entry \cup {NoEntry}
         /\ view.cacheCoins[p] \in Entry \cup {NoEntry}
         /\ TipGetCoin(p) \in Coin \cup {Null, NotFound}
         /\ TopBase(p) \in Coin \cup {Null, NotFound}
         /\ GetCoin(p) = Through(TopCache.cacheCoins[p], TopBase(p))
         /\ EntryAgrees(tip.cacheCoins[p], db[p])
         /\ EntryAgrees(view.cacheCoins[p], TipGetCoin(p))
         /\ EntryAgrees(TopCache.cacheCoins[p], TopBase(p))
<1>1. /\ db[p] \in Coin \cup {NotFound}
      /\ tip.cacheCoins[p] \in Entry \cup {NoEntry}
      /\ view.cacheCoins[p] \in Entry \cup {NoEntry}
  BY Zenon DEF IInv, TypeOK, IsCache
<1>2. TipGetCoin(p) \in Coin \cup {Null, NotFound}
  BY Zenon, <1>1 DEF TipGetCoin, Through, Entry
<1>3. /\ EntryAgrees(tip.cacheCoins[p], db[p])
      /\ EntryAgrees(view.cacheCoins[p], TipGetCoin(p))
  BY Zenon DEF IInv, FlagsMeanWhatTheySay
<1> QED  BY Zenon, <1>1, <1>2, <1>3 DEF TopBase, TopCache, GetCoin, ViewGetCoin, TipGetCoin

\* What a lookup of o makes of pcoinsTip: still in agreement, showing the same.
LEMMA TipFetchedKeeps ==
  ASSUME IInv, NEW o \in Outpoint
  PROVE  /\ Same(TipFetched(o), tip)
         /\ \A p \in Outpoint :
              /\ EntryAgrees(TipFetched(o).cacheCoins[p], db[p])
              /\ Shown(Through(TipFetched(o).cacheCoins[p], db[p])) = Shown(TipGetCoin(p))
<1>1. CASE open /\ view.cacheCoins[o] # NoEntry
  BY Zenon, <1>1, LookupTypes DEF TipFetched, Same, TipGetCoin, IInv, TypeOK
<1>2. CASE ~(open /\ view.cacheCoins[o] # NoEntry)
  <2>1. TipFetched(o) = FetchCoin(tip, o, db[o])
    BY Zenon, <1>2 DEF TipFetched
  <2>2. IsCache(tip) /\ db[o] \in Coin \cup {Null, NotFound}
    BY Zenon, LookupTypes DEF IInv, TypeOK
  <2>3. Same(TipFetched(o), tip) /\ Fetches(TipFetched(o), tip, o, db[o])
    BY Zenon, <2>1, <2>2, FetchCoinEffect
  <2>4. EntryAgrees(tip.cacheCoins[o], db[o])
    BY Zenon, LookupTypes
  <2>5. /\ \A p \in Outpoint : p # o => TipFetched(o).cacheCoins[p] = tip.cacheCoins[p]
        /\ EntryAgrees(TipFetched(o).cacheCoins[o], db[o])
        /\ Shown(Through(TipFetched(o).cacheCoins[o], db[o])) = Shown(Through(tip.cacheCoins[o], db[o]))
    BY SMTT(30), <2>2, <2>3, <2>4, FetchedAgrees
  <2> QED  BY Zenon, <2>3, <2>5, LookupTypes DEF TipGetCoin
<1> QED  BY Zenon, <1>1, <1>2

\* What a lookup of o makes of the topmost cache.
LEMMA TopFetchedKeeps ==
  ASSUME IInv, NEW o \in Outpoint
  PROVE  /\ Same(Top(o), TopCache)
         /\ Top(o).cacheCoins[o] = NoEntry => TopBase(o) = NotFound
         /\ \A p \in Outpoint :
              /\ EntryAgrees(Top(o).cacheCoins[p], TopBase(p))
              /\ Shown(Through(Top(o).cacheCoins[p], TopBase(p))) = Shown(GetCoin(p))
<1>1. IsCache(TopCache) /\ TopBase(o) \in Coin \cup {Null, NotFound}
  BY Zenon, LookupTypes DEF IInv, TypeOK, TopCache
<1>2. Top(o) = FetchCoin(TopCache, o, TopBase(o))
  BY Zenon DEF Top, TopCache, TopBase, TipFetched, ViewFetched
<1>3. Same(Top(o), TopCache) /\ Fetches(Top(o), TopCache, o, TopBase(o))
  BY Zenon, <1>1, <1>2, FetchCoinEffect
<1>4. EntryAgrees(TopCache.cacheCoins[o], TopBase(o))
  BY Zenon, LookupTypes
<1>5. /\ \A p \in Outpoint : p # o => Top(o).cacheCoins[p] = TopCache.cacheCoins[p]
      /\ EntryAgrees(Top(o).cacheCoins[o], TopBase(o))
      /\ Shown(Through(Top(o).cacheCoins[o], TopBase(o)))
           = Shown(Through(TopCache.cacheCoins[o], TopBase(o)))
  BY <1>1, <1>3, <1>4, FetchedAgrees
<1>6. Top(o).cacheCoins[o] = NoEntry => TopBase(o) = NotFound
  BY Zenon, <1>1, <1>3, FetchedMisses
<1> QED  BY Zenon, <1>3, <1>5, <1>6, LookupTypes

\* A step that replaces the topmost cache by one in agreement with its base, and
\* pcoinsTip by one that shows the same, keeps the invariant; afterwards callers
\* see the new topmost cache and, below an open view, what they saw before.
LEMMA TopStep ==
  ASSUME IInv, NEW topNow, NEW tipNow, SetTop(topNow, tipNow), thrown' = FALSE,
         IsCache(topNow), Same(tipNow, tip),
         ~open => topNow.hashBlock \in Hash,
         \A p \in Outpoint :
           /\ EntryAgrees(topNow.cacheCoins[p], TopBase(p))
           /\ EntryAgrees(tipNow.cacheCoins[p], db[p])
           /\ Shown(Through(tipNow.cacheCoins[p], db[p])) = Shown(TipGetCoin(p))
  PROVE  /\ IInv'
         /\ \A p \in Outpoint :
              /\ Shown(GetCoin(p))' = Shown(Through(topNow.cacheCoins[p], TopBase(p)))
              /\ open => Shown(TipGetCoin(p))' = Shown(TipGetCoin(p))
<1>1. CASE open
  <2>1. /\ view' = topNow /\ tip' = tipNow
        /\ UNCHANGED <<db, dbBest, open>>
    BY Zenon, <1>1 DEF SetTop
  <2>2. TypeOK' /\ NeverThrows' /\ (tip.hashBlock \in Hash)' /\ (~open => view = EmptyCache)'
    BY ZenonT(30), <1>1, <2>1 DEF IInv, TypeOK, NeverThrows, Same
  <2>3. ASSUME NEW p \in Outpoint
        PROVE  /\ EntryAgrees(tip.cacheCoins[p], db[p])'
               /\ EntryAgrees(view.cacheCoins[p], TipGetCoin(p))'
               /\ Shown(GetCoin(p))' = Shown(Through(topNow.cacheCoins[p], TopBase(p)))
               /\ Shown(TipGetCoin(p))' = Shown(TipGetCoin(p))
    <3>1. TipGetCoin(p)' = Through(tipNow.cacheCoins[p], db[p])
      BY Zenon, <2>1 DEF TipGetCoin
    <3>2. TipGetCoin(p)' \in Coin \cup {Null, NotFound}
      BY Zenon, <2>1, <2>2 DEF TypeOK, IsCache, Entry, TipGetCoin, Through
    <3>3. TipGetCoin(p) \in Coin \cup {Null, NotFound} /\ TopBase(p) = TipGetCoin(p)
      BY Zenon, <1>1, LookupTypes DEF TopBase
    <3>4. EntryAgrees(topNow.cacheCoins[p], TipGetCoin(p)')
      BY Zenon, <3>1, <3>2, <3>3, AgreesByShown
    <3>5. Shown(Through(topNow.cacheCoins[p], TipGetCoin(p)'))
            = Shown(Through(topNow.cacheCoins[p], TopBase(p)))
      BY Zenon, <3>1, <3>3 DEF Through
    <3> QED  BY Zenon, <1>1, <2>1, <3>1, <3>4, <3>5 DEF EntryAgrees, GetCoin, ViewGetCoin, Shown
  <2> QED  BY Zenon, <2>2, <2>3 DEF IInv, FlagsMeanWhatTheySay
<1>2. CASE ~open
  <2>1. /\ tip' = topNow /\ view' = view /\ view = EmptyCache
        /\ UNCHANGED <<db, dbBest, open>>
    BY Zenon, <1>2 DEF SetTop, IInv
  <2>2. TypeOK' /\ NeverThrows' /\ (tip.hashBlock \in Hash)' /\ (~open => view = EmptyCache)'
    BY ZenonT(30), <1>2, <2>1 DEF IInv, TypeOK, NeverThrows
  <2>3. ASSUME NEW p \in Outpoint
        PROVE  /\ EntryAgrees(tip.cacheCoins[p], db[p])'
               /\ EntryAgrees(view.cacheCoins[p], TipGetCoin(p))'
               /\ Shown(GetCoin(p))' = Shown(Through(topNow.cacheCoins[p], TopBase(p)))
    <3>1. view'.cacheCoins[p] = NoEntry
      BY Zenon, <2>1, EmptyCacheEffect DEF Empty
    <3>2. TopBase(p) = db[p]
      BY Zenon, <1>2 DEF TopBase
    <3> QED  BY Zenon, <1>2, <2>1, <3>1, <3>2 DEF EntryAgrees, GetCoin, TipGetCoin, Shown
  <2> QED  BY Zenon, <1>2, <2>2, <2>3 DEF IInv, FlagsMeanWhatTheySay
<1> QED  BY Zenon, <1>1, <1>2 DEF IInv, TypeOK

\* The maps of the abstract specification.
Utxo == [o \in Outpoint |-> Shown(TipGetCoin(o))]
Work == [o \in Outpoint |-> Shown(GetCoin(o))]

\* Such a step is a step of the abstract topmost map.
LEMMA TopStepAbstract ==
  ASSUME IInv, NEW topNow, NEW tipNow, SetTop(topNow, tipNow), Same(tipNow, tip),
         NEW m, NEW h, IInv',
         h = (IF topNow.hashBlock = Null THEN TipGetBestBlock ELSE topNow.hashBlock),
         m = [p \in Outpoint |-> Shown(GetCoin(p))'],
         open => \A p \in Outpoint : Shown(TipGetCoin(p))' = Shown(TipGetCoin(p))
  PROVE  U!SetTop(m, h)
<1>1. UNCHANGED <<db, dbBest, open>> /\ open \in BOOLEAN
  BY Zenon DEF SetTop, IInv, TypeOK
<1>2. Work' = m
  BY Zenon DEF Work
<1>3. /\ TipGetBestBlock = tip.hashBlock /\ TipGetBestBlock' = tip'.hashBlock
      /\ tip.hashBlock \in Hash /\ tip'.hashBlock \in Hash
  BY Zenon, CoinsAssumption DEF CoinsAssumption, IInv, TipGetBestBlock
<1>4. CASE open
  <2>1. view' = topNow /\ tip' = tipNow /\ tip'.hashBlock = tip.hashBlock
    BY Zenon, <1>4 DEF SetTop, Same
  <2>2. GetBestBlock' = h
    BY Zenon, <1>1, <1>3, <1>4, <2>1 DEF GetBestBlock
  <2>3. Utxo' = Utxo
    BY Zenon, <1>4 DEF Utxo
  <2>4. TipGetBestBlock' = TipGetBestBlock
    BY Zenon, <1>3, <2>1
  <2> QED  BY Zenon, <1>1, <1>2, <1>4, <2>2, <2>3, <2>4 DEF U!SetTop, Utxo, Work
<1>5. CASE ~open
  <2>1. tip' = topNow
    BY Zenon, <1>5 DEF SetTop
  <2>2. TipGetBestBlock' = h /\ GetBestBlock' = TipGetBestBlock'
    BY Zenon, <1>1, <1>3, <1>5, <2>1, CoinsAssumption DEF CoinsAssumption, GetBestBlock
  <2>3. Utxo' = Work'
    BY Zenon, <1>1, <1>5 DEF Utxo, Work, GetCoin
  <2> QED  BY Zenon, <1>1, <1>2, <1>5, <2>2, <2>3 DEF U!SetTop, Utxo, Work
<1> QED  BY Zenon, <1>4, <1>5

AbstractNext == [U!Next]_(U!vars)

\* A step that changes nothing a caller sees is a stutter of the abstract maps.
LEMMA TopStepStutters ==
  ASSUME IInv, NEW topNow, NEW tipNow, SetTop(topNow, tipNow), Same(tipNow, tip),
         IInv', topNow.hashBlock = TopCache.hashBlock,
         \A p \in Outpoint : Shown(GetCoin(p))' = Shown(GetCoin(p)),
         open => \A p \in Outpoint : Shown(TipGetCoin(p))' = Shown(TipGetCoin(p))
  PROVE  AbstractNext
<1> DEFINE m == [p \in Outpoint |-> Shown(GetCoin(p))']
           h == IF topNow.hashBlock = Null THEN TipGetBestBlock ELSE topNow.hashBlock
<1>1. U!SetTop(m, h)
  <2> HIDE DEF m, h
  <2> QED  BY Zenon, TopStepAbstract DEF m, h
<1>2. m = Work
  BY Zenon DEF Work
<1>3. h = GetBestBlock
  BY Zenon, CoinsAssumption DEF CoinsAssumption, TopCache, GetBestBlock, TipGetBestBlock, IInv
<1>4. ~open => Work = Utxo /\ GetBestBlock = TipGetBestBlock
  BY Zenon DEF Work, Utxo, GetCoin, GetBestBlock
<1> HIDE DEF m, h
<1>5. Work' = Work /\ GetBestBlock' = GetBestBlock /\ UNCHANGED <<db, dbBest, open>>
  BY Zenon, <1>1, <1>2, <1>3 DEF U!SetTop, Work
<1>6. Utxo' = Utxo /\ TipGetBestBlock' = TipGetBestBlock
  BY Zenon, <1>1, <1>2, <1>3, <1>4 DEF U!SetTop, Utxo
<1> QED  BY Zenon, <1>5, <1>6 DEF AbstractNext, U!vars, Work, Utxo

\* Lookups change no coin anybody sees.
LEMMA ReadStep ==
  ASSUME IInv, ~thrown, NEW o \in Outpoint, Read(o)
  PROVE  IInv' /\ AbstractNext
<1>1. SetTop(Top(o), TipFetched(o)) /\ thrown' = FALSE
  BY Zenon DEF Read, IInv, TypeOK
<1>2. IsCache(Top(o)) /\ Top(o).hashBlock = TopCache.hashBlock /\ Same(TipFetched(o), tip)
  BY Zenon, TopFetchedKeeps, TipFetchedKeeps DEF Same
<1>3. ~open => Top(o).hashBlock \in Hash
  BY Zenon, <1>2 DEF TopCache, IInv
<1>4. \A p \in Outpoint :
        /\ EntryAgrees(Top(o).cacheCoins[p], TopBase(p))
        /\ EntryAgrees(TipFetched(o).cacheCoins[p], db[p])
        /\ Shown(Through(TipFetched(o).cacheCoins[p], db[p])) = Shown(TipGetCoin(p))
  BY Zenon, TopFetchedKeeps, TipFetchedKeeps
<1>5. /\ IInv'
      /\ \A p \in Outpoint :
           /\ Shown(GetCoin(p))' = Shown(Through(Top(o).cacheCoins[p], TopBase(p)))
           /\ open => Shown(TipGetCoin(p))' = Shown(TipGetCoin(p))
  BY ZenonT(30), <1>1, <1>2, <1>3, <1>4, TopStep
<1>6. \A p \in Outpoint : Shown(GetCoin(p))' = Shown(GetCoin(p))
  BY Zenon, <1>5, TopFetchedKeeps
<1> QED  BY Zenon, <1>1, <1>2, <1>5, <1>6, TopStepStutters

Put(o, x) == U!SetTop([Work EXCEPT ![o] = x], GetBestBlock)

Puts(topNow, tipNow, o, x) ==
  /\ SetTop(topNow, tipNow) /\ thrown' = FALSE
  /\ Same(topNow, TopCache) /\ Same(tipNow, tip)
  /\ Shown(Through(topNow.cacheCoins[o], TopBase(o))) = x
  /\ \A p \in Outpoint :
       /\ EntryAgrees(topNow.cacheCoins[p], TopBase(p))
       /\ p # o => Shown(Through(topNow.cacheCoins[p], TopBase(p))) = Shown(GetCoin(p))
       /\ EntryAgrees(tipNow.cacheCoins[p], db[p])
       /\ Shown(Through(tipNow.cacheCoins[p], db[p])) = Shown(TipGetCoin(p))

\* A step that makes the topmost view show x at o, and nothing else differently.
LEMMA PutStep ==
  ASSUME IInv, NEW topNow, NEW tipNow, NEW o \in Outpoint, NEW x, Puts(topNow, tipNow, o, x)
  PROVE  IInv' /\ Put(o, x)
<1> USE DEF Puts
<1>1. IsCache(topNow) /\ topNow.hashBlock = TopCache.hashBlock
  BY Zenon DEF Same
<1>2. ~open => topNow.hashBlock \in Hash
  BY Zenon, <1>1 DEF TopCache, IInv
<1>3. /\ IInv'
      /\ \A p \in Outpoint :
           /\ Shown(GetCoin(p))' = Shown(Through(topNow.cacheCoins[p], TopBase(p)))
           /\ open => Shown(TipGetCoin(p))' = Shown(TipGetCoin(p))
  BY ZenonT(30), <1>1, <1>2, TopStep
<1> DEFINE m == [Work EXCEPT ![o] = x]
           h == GetBestBlock
<1>4. m = [p \in Outpoint |-> Shown(GetCoin(p))']
  BY ZenonT(30), <1>3 DEF Work
<1>5. h = (IF topNow.hashBlock = Null THEN TipGetBestBlock ELSE topNow.hashBlock)
  BY Zenon, <1>1, CoinsAssumption DEF CoinsAssumption, TopCache, GetBestBlock, TipGetBestBlock, IInv
<1> HIDE DEF m, h
<1>6. U!SetTop(m, h)
  BY Zenon, <1>3, <1>4, <1>5, TopStepAbstract
<1> QED  BY Zenon, <1>3, <1>6 DEF m, h, Put

\* SpendCoin removes one coin from the topmost map.
LEMMA SpendStep ==
  ASSUME IInv, ~thrown, NEW o \in Outpoint, Spend(o)
  PROVE  IInv' /\ AbstractNext
<1> DEFINE f == SpendCoin(Top(o), o)
<1>1. SetTop(f, TipFetched(o)) /\ thrown' = FALSE
  BY Zenon DEF Spend, IInv, TypeOK
<1>2. Same(Top(o), TopCache) /\ IsCache(Top(o)) /\ Same(TipFetched(o), tip)
  BY Zenon, TopFetchedKeeps, TipFetchedKeeps DEF Same
<1>3. Same(f, TopCache) /\ Spends(f, Top(o), o)
  BY Zenon, <1>2, SpendCoinEffect DEF Same
<1>4. /\ TopBase(o) \in Coin \cup {Null, NotFound}
      /\ EntryAgrees(Top(o).cacheCoins[o], TopBase(o))
      /\ Top(o).cacheCoins[o] = NoEntry => TopBase(o) = NotFound
  BY Zenon, LookupTypes, TopFetchedKeeps
<1> HIDE DEF f
<1>5. /\ \A p \in Outpoint \ {o} : f.cacheCoins[p] = Top(o).cacheCoins[p]
      /\ EntryAgrees(f.cacheCoins[o], TopBase(o))
      /\ Shown(Through(f.cacheCoins[o], TopBase(o))) = NotFound
  BY Zenon, <1>2, <1>3, <1>4, SpentAgrees
<1>6. \A p \in Outpoint :
        /\ EntryAgrees(f.cacheCoins[p], TopBase(p))
        /\ p # o => Shown(Through(f.cacheCoins[p], TopBase(p))) = Shown(GetCoin(p))
        /\ EntryAgrees(TipFetched(o).cacheCoins[p], db[p])
        /\ Shown(Through(TipFetched(o).cacheCoins[p], db[p])) = Shown(TipGetCoin(p))
  BY Zenon, <1>5, TopFetchedKeeps, TipFetchedKeeps
<1>7. Puts(f, TipFetched(o), o, NotFound)
  BY Zenon, <1>1, <1>2, <1>3, <1>5, <1>6 DEF Puts
<1>8. IInv' /\ Put(o, NotFound)
  BY Zenon, <1>7, PutStep
<1>9. U!Spend(o)
  BY Zenon, <1>8 DEF U!Spend, Put, Work
<1> QED  BY Zenon, <1>8, <1>9 DEF AbstractNext, U!Next

\* AddCoin on a cache that shows what the topmost one shows.  An unspendable coin
\* changes nothing; any other is put in the map, and nothing throws.
LEMMA AddStep ==
  ASSUME IInv, NEW o \in Outpoint, NEW c \in Coin, NEW po \in BOOLEAN,
         NEW top, NEW tipNow, SetTop(AddCoin(top, o, c, po), tipNow),
         thrown' = AddCoinThrows(top, o, c, po),
         Same(top, TopCache), Same(tipNow, tip),
         ~po => ~HaveCoin(o),
         \A p \in Outpoint :
           /\ EntryAgrees(top.cacheCoins[p], TopBase(p))
           /\ Shown(Through(top.cacheCoins[p], TopBase(p))) = Shown(GetCoin(p))
           /\ EntryAgrees(tipNow.cacheCoins[p], db[p])
           /\ Shown(Through(tipNow.cacheCoins[p], db[p])) = Shown(TipGetCoin(p))
  PROVE  IInv' /\ AbstractNext
<1>1. CASE c \in Unspendable
  <2>1. SetTop(top, tipNow) /\ thrown' = FALSE
    BY ZenonT(60), <1>1 DEF AddCoin, AddCoinThrows
  <2>2. Puts(top, tipNow, o, Shown(GetCoin(o)))
    BY Zenon, <2>1 DEF Puts
  <2>3. IInv' /\ Put(o, Shown(GetCoin(o)))
    BY Zenon, <2>2, PutStep
  <2>4. [Work EXCEPT ![o] = Shown(GetCoin(o))] = Work
    BY Zenon DEF Work
  <2>5. U!SetTop(Work, GetBestBlock)
    BY Zenon, <2>3, <2>4 DEF Put
  <2>6. ~open => Work = Utxo /\ GetBestBlock = TipGetBestBlock
    BY Zenon DEF Work, Utxo, GetCoin, GetBestBlock
  <2>7. Work' = Work /\ GetBestBlock' = GetBestBlock /\ UNCHANGED <<db, dbBest, open>>
    BY Zenon, <2>5 DEF U!SetTop, Work
  <2>8. Utxo' = Utxo /\ TipGetBestBlock' = TipGetBestBlock
    BY Zenon, <2>5, <2>6 DEF U!SetTop, Utxo
  <2> QED  BY Zenon, <2>3, <2>7, <2>8 DEF AbstractNext, U!vars, Work, Utxo
<1>2. CASE c \notin Unspendable
  <2> DEFINE f == AddCoin(top, o, c, po)
  <2>1. IsCache(top) /\ TopBase(o) \in Coin \cup {Null, NotFound}
    BY Zenon, LookupTypes DEF Same
  <2>2. Same(f, TopCache) /\ Adds(f, top, o, c, po)
    BY Zenon, <2>1, AddCoinEffect DEF Same
  <2>3. ~po => Through(top.cacheCoins[o], TopBase(o)) \notin Coin
    BY Zenon, CoinsAssumption DEF CoinsAssumption, HaveCoin, Shown
  <2>4. SetTop(f, tipNow) /\ EntryAgrees(top.cacheCoins[o], TopBase(o))
    BY Zenon
  <2> HIDE DEF f
  <2>5. /\ ~AddCoinThrows(top, o, c, po)
        /\ \A p \in Outpoint \ {o} : f.cacheCoins[p] = top.cacheCoins[p]
        /\ EntryAgrees(f.cacheCoins[o], TopBase(o))
        /\ Shown(Through(f.cacheCoins[o], TopBase(o))) = c
    BY SMTT(30), <1>2, <2>1, <2>2, <2>3, <2>4, AddedAgrees
  <2>6. thrown' = FALSE
    BY ZenonT(60), <2>5 DEF AddCoinThrows
  <2>7. Puts(f, tipNow, o, c)
    BY Zenon, <2>2, <2>4, <2>5, <2>6 DEF Puts
  <2>8. IInv' /\ Put(o, c)
    BY Zenon, <2>7, PutStep
  <2>9. U!Add(o, c)
    BY Zenon, <2>8 DEF U!Add, Put, Work
  <2> QED  BY Zenon, <2>8, <2>9 DEF AbstractNext, U!Next
<1> QED  BY Zenon, <1>1, <1>2

\* A new output: AddCoin relies on its caller, who adds only unknown outpoints.
LEMMA AddNewCoinStep ==
  ASSUME IInv, NEW o \in Outpoint, NEW c \in Coin, AddNewCoin(o, c)
  PROVE  IInv' /\ AbstractNext
<1>1. /\ ~HaveCoin(o) /\ SetTop(AddCoin(TopCache, o, c, FALSE), tip)
      /\ thrown' = AddCoinThrows(TopCache, o, c, FALSE)
  BY ZenonT(30) DEF AddNewCoin, TopCache
<1>2. Same(TopCache, TopCache) /\ Same(tip, tip)
  BY Zenon DEF Same, IInv, TypeOK, TopCache
<1>3. \A p \in Outpoint :
        /\ EntryAgrees(TopCache.cacheCoins[p], TopBase(p))
        /\ Shown(Through(TopCache.cacheCoins[p], TopBase(p))) = Shown(GetCoin(p))
        /\ EntryAgrees(tip.cacheCoins[p], db[p])
        /\ Shown(Through(tip.cacheCoins[p], db[p])) = Shown(TipGetCoin(p))
  BY Zenon, LookupTypes DEF TipGetCoin
<1> QED  BY ZenonT(60), <1>1, <1>2, <1>3, AddStep

\* An output that may exist already: AddCoins looks first.
LEMMA AddCheckedCoinStep ==
  ASSUME IInv, NEW o \in Outpoint, NEW c \in Coin, AddCheckedCoin(o, c)
  PROVE  IInv' /\ AbstractNext
<1> DEFINE po == HaveCoin(o)
<1>1. /\ SetTop(AddCoin(Top(o), o, c, po), TipFetched(o))
      /\ thrown' = AddCoinThrows(Top(o), o, c, po)
      /\ po \in BOOLEAN /\ (~po => ~HaveCoin(o))
  BY SMTT(30) DEF AddCheckedCoin, HaveCoin
<1> HIDE DEF po
<1>2. Same(Top(o), TopCache) /\ Same(TipFetched(o), tip)
  BY Zenon, TopFetchedKeeps, TipFetchedKeeps
<1>3. \A p \in Outpoint :
        /\ EntryAgrees(Top(o).cacheCoins[p], TopBase(p))
        /\ Shown(Through(Top(o).cacheCoins[p], TopBase(p))) = Shown(GetCoin(p))
        /\ EntryAgrees(TipFetched(o).cacheCoins[p], db[p])
        /\ Shown(Through(TipFetched(o).cacheCoins[p], db[p])) = Shown(TipGetCoin(p))
  BY Zenon, TopFetchedKeeps, TipFetchedKeeps
<1> QED  BY SMTT(30), <1>1, <1>2, <1>3, AddStep

\* SetBestBlock changes the topmost best block and no coin.
LEMMA SetBestBlockStep ==
  ASSUME IInv, ~thrown, NEW h \in Hash, SetBestBlock(h)
  PROVE  IInv' /\ AbstractNext
<1> DEFINE f == [TopCache EXCEPT !.hashBlock = h]
<1>1. SetTop(f, tip) /\ thrown' = FALSE
  BY Zenon DEF SetBestBlock, TopCache, IInv, TypeOK
<1>2. IsCache(TopCache) /\ Same(tip, tip)
  BY Zenon DEF TopCache, IInv, TypeOK, Same
<1>3. IsCache(f) /\ f.hashBlock = h /\ f.cacheCoins = TopCache.cacheCoins
  BY SMTT(30), <1>2 DEF IsCache
<1> HIDE DEF f
<1>4. \A p \in Outpoint :
        /\ EntryAgrees(f.cacheCoins[p], TopBase(p))
        /\ EntryAgrees(tip.cacheCoins[p], db[p])
        /\ Shown(Through(tip.cacheCoins[p], db[p])) = Shown(TipGetCoin(p))
  BY Zenon, <1>3, LookupTypes DEF TipGetCoin
<1>5. /\ IInv'
      /\ \A p \in Outpoint :
           /\ Shown(GetCoin(p))' = Shown(Through(f.cacheCoins[p], TopBase(p)))
           /\ open => Shown(TipGetCoin(p))' = Shown(TipGetCoin(p))
  BY ZenonT(60), <1>1, <1>2, <1>3, <1>4, TopStep
<1>6. Work = [p \in Outpoint |-> Shown(GetCoin(p))']
  BY Zenon, <1>3, <1>5, LookupTypes DEF Work
<1>7. h = (IF f.hashBlock = Null THEN TipGetBestBlock ELSE f.hashBlock)
  BY Zenon, <1>3, CoinsAssumption DEF CoinsAssumption
<1>8. U!SetTop(Work, h)
  BY Zenon, <1>1, <1>2, <1>5, <1>6, <1>7, TopStepAbstract
<1>9. U!SetBest(h)
  BY Zenon, <1>8 DEF U!SetBest, Work
<1> QED  BY Zenon, <1>5, <1>9 DEF AbstractNext, U!Next
-----------------------------------------------------------------------------
(* Steps on one layer.  Each shows that the three maps move as UtxoLayers says. *)

\* IInv in the new state, from its parts.
LEMMA IInvIntro ==
  ASSUME TypeOK', ~thrown', tip'.hashBlock \in Hash, ~open' => view' = EmptyCache,
         \A p \in Outpoint : /\ EntryAgrees(tip.cacheCoins[p], db[p])'
                             /\ EntryAgrees(view.cacheCoins[p], TipGetCoin(p))'
  PROVE  IInv'
  BY Zenon DEF IInv, FlagsMeanWhatTheySay, NeverThrows

Stutters == UNCHANGED <<db, dbBest, open, Utxo, Work, TipGetBestBlock, GetBestBlock>>

\* A step that changes none of the maps is a stutter of UtxoLayers.
LEMMA StuttersAbstract ==
  ASSUME Stutters  PROVE AbstractNext
  BY Zenon DEF Stutters, AbstractNext, U!vars, Utxo, Work

\* GetBestBlock caches the value it returns.
LEMMA LoadBestBlockStep ==
  ASSUME IInv, ~thrown, LoadBestBlock
  PROVE  IInv' /\ AbstractNext
<1>1. /\ open /\ view.hashBlock = Null /\ TipGetBestBlock = tip.hashBlock
      /\ tip.hashBlock \in Hash /\ IsCache(view) /\ IsCache(tip)
  BY Zenon, CoinsAssumption DEF CoinsAssumption, LoadBestBlock, TipGetBestBlock, IInv, TypeOK
<1>2. /\ IsCache(tip') /\ tip'.hashBlock = tip.hashBlock /\ tip'.cacheCoins = tip.cacheCoins
      /\ IsCache(view') /\ view'.hashBlock = tip.hashBlock /\ view'.cacheCoins = view.cacheCoins
      /\ UNCHANGED <<db, dbBest, open, thrown>>
  BY Zenon, <1>1 DEF LoadBestBlock, IsCache
<1>3. \A p \in Outpoint : /\ TipGetCoin(p)' = TipGetCoin(p)
                          /\ GetCoin(p)' = GetCoin(p)
  BY Zenon, <1>2 DEF TipGetCoin, GetCoin, ViewGetCoin
<1>4. IInv'
  <2>1. TypeOK' /\ ~thrown' /\ open' /\ tip'.hashBlock \in Hash
    BY Zenon, <1>1, <1>2 DEF IInv, TypeOK
  <2>2. \A p \in Outpoint : /\ EntryAgrees(tip.cacheCoins[p], db[p])'
                            /\ EntryAgrees(view.cacheCoins[p], TipGetCoin(p))'
    BY SMTT(30), <1>2, <1>3, LookupTypes DEF EntryAgrees, Shown
  <2> QED  BY Zenon, <2>1, <2>2, IInvIntro
<1>5. Utxo' = Utxo /\ Work' = Work
  BY Zenon, <1>3 DEF Utxo, Work, Shown
<1>6. TipGetBestBlock' = TipGetBestBlock /\ GetBestBlock' = GetBestBlock
  BY Zenon, <1>1, <1>2, CoinsAssumption DEF CoinsAssumption, TipGetBestBlock, GetBestBlock
<1> QED  BY Zenon, <1>2, <1>4, <1>5, <1>6, StuttersAbstract DEF Stutters

\* Dropping a clean entry is invisible, above it as well: a view keeps agreeing
\* with pcoinsTip when pcoinsTip forgets what it can read again.
LEMMA UncacheTipStep ==
  ASSUME IInv, ~thrown, NEW o \in Outpoint, UncacheTip(o)
  PROVE  IInv' /\ AbstractNext
<1>1. IsCache(tip)
  BY Zenon DEF IInv, TypeOK
<1>2. /\ Same(tip', tip) /\ Uncaches(tip', tip, o)
      /\ UNCHANGED <<db, dbBest, view, open, thrown>>
  BY Zenon, <1>1, UncacheCoinEffect DEF UncacheTip
<1>3. TypeOK' /\ ~thrown' /\ tip'.hashBlock \in Hash /\ (~open' => view' = EmptyCache)
  BY Zenon, <1>2 DEF IInv, TypeOK, Same
<1>4. ASSUME NEW p \in Outpoint
      PROVE  /\ EntryAgrees(tip.cacheCoins[p], db[p])'
             /\ EntryAgrees(view.cacheCoins[p], TipGetCoin(p))'
             /\ Shown(TipGetCoin(p))' = Shown(TipGetCoin(p))
             /\ Shown(GetCoin(p))' = Shown(GetCoin(p))
  <2>1. \/ tip'.cacheCoins[p] = tip.cacheCoins[p]
        \/ /\ tip'.cacheCoins[p] = NoEntry /\ tip.cacheCoins[p] \in Entry
           /\ ~tip.cacheCoins[p].dirty
    BY Zenon, <1>2 DEF Uncaches
  <2>2. EntryAgrees(tip'.cacheCoins[p], db[p])
    BY Zenon, <2>1, LookupTypes DEF EntryAgrees
  <2>3. Shown(Through(tip'.cacheCoins[p], db[p])) = Shown(TipGetCoin(p))
    BY Zenon, <2>1, LookupTypes DEF EntryAgrees, TipGetCoin, Through
  <2>4. TipGetCoin(p)' = Through(tip'.cacheCoins[p], db[p])
    BY Zenon, <1>2 DEF TipGetCoin
  <2>5. TipGetCoin(p)' \in Coin \cup {Null, NotFound}
    BY Zenon, <1>3 DEF TypeOK, IsCache, Entry, TipGetCoin, Through
  <2>6. TipGetCoin(p) \in Coin \cup {Null, NotFound} /\ EntryAgrees(view.cacheCoins[p], TipGetCoin(p))
    BY Zenon, LookupTypes
  <2>7. EntryAgrees(view.cacheCoins[p], TipGetCoin(p)')
    BY Zenon, <2>3, <2>4, <2>5, <2>6, AgreesByShown
  <2>8. Shown(GetCoin(p)') = Shown(GetCoin(p))
    BY Zenon, <1>2, <2>3, <2>4 DEF GetCoin, ViewGetCoin, Through
  <2> QED  BY Zenon, <1>2, <2>2, <2>3, <2>4, <2>7, <2>8 DEF EntryAgrees, Shown
<1>5. Utxo' = Utxo /\ Work' = Work
  BY Zenon, <1>4 DEF Utxo, Work
<1>6. TipGetBestBlock' = TipGetBestBlock /\ GetBestBlock' = GetBestBlock
  BY Zenon, <1>2 DEF TipGetBestBlock, GetBestBlock, Same
<1> QED  BY Zenon, <1>2, <1>3, <1>4, <1>5, <1>6, IInvIntro, StuttersAbstract DEF Stutters

\* The same in the view.
LEMMA UncacheViewStep ==
  ASSUME IInv, ~thrown, NEW o \in Outpoint, UncacheView(o)
  PROVE  IInv' /\ AbstractNext
<1>1. IsCache(view)
  BY Zenon DEF IInv, TypeOK
<1>2. /\ Same(view', view) /\ Uncaches(view', view, o) /\ open
      /\ UNCHANGED <<db, dbBest, tip, open, thrown>>
  BY Zenon, <1>1, UncacheCoinEffect DEF UncacheView
<1>3. TypeOK' /\ ~thrown' /\ tip'.hashBlock \in Hash /\ (~open' => view' = EmptyCache)
  BY Zenon, <1>2 DEF IInv, TypeOK, Same
<1>4. ASSUME NEW p \in Outpoint
      PROVE  /\ EntryAgrees(tip.cacheCoins[p], db[p])'
             /\ EntryAgrees(view.cacheCoins[p], TipGetCoin(p))'
             /\ Shown(TipGetCoin(p))' = Shown(TipGetCoin(p))
             /\ Shown(GetCoin(p))' = Shown(GetCoin(p))
  <2>1. \/ view'.cacheCoins[p] = view.cacheCoins[p]
        \/ /\ view'.cacheCoins[p] = NoEntry /\ view.cacheCoins[p] \in Entry
           /\ ~view.cacheCoins[p].dirty
    BY Zenon, <1>2 DEF Uncaches
  <2>2. TipGetCoin(p)' = TipGetCoin(p)
    BY Zenon, <1>2 DEF TipGetCoin
  <2>3. EntryAgrees(view'.cacheCoins[p], TipGetCoin(p))
    BY SMTT(30), <2>1, LookupTypes DEF EntryAgrees
  <2>4. Shown(Through(view'.cacheCoins[p], TipGetCoin(p))) = Shown(GetCoin(p))
    BY Zenon, <1>2, <2>1, LookupTypes DEF EntryAgrees, GetCoin, ViewGetCoin, Through
  <2>5. GetCoin(p)' = Through(view'.cacheCoins[p], TipGetCoin(p))
    BY Zenon, <1>2, <2>2 DEF GetCoin, ViewGetCoin
  <2>6. EntryAgrees(tip.cacheCoins[p], db[p])
    BY Zenon, LookupTypes
  <2> QED  BY Zenon, <1>2, <2>2, <2>3, <2>4, <2>5, <2>6 DEF EntryAgrees, Shown
<1>5. Utxo' = Utxo /\ Work' = Work
  BY Zenon, <1>4 DEF Utxo, Work
<1>6. TipGetBestBlock' = TipGetBestBlock /\ GetBestBlock' = GetBestBlock
  BY Zenon, <1>2 DEF TipGetBestBlock, GetBestBlock, Same
<1> QED  BY Zenon, <1>2, <1>3, <1>4, <1>5, <1>6, IInvIntro, StuttersAbstract DEF Stutters

\* A new view shows what pcoinsTip shows.
LEMMA OpenViewStep ==
  ASSUME IInv, ~thrown, OpenView
  PROVE  IInv' /\ AbstractNext
<1>1. ~open /\ open' = TRUE /\ UNCHANGED <<db, dbBest, tip, view, thrown>> /\ view = EmptyCache
  BY Zenon DEF OpenView, IInv
<1>2. view.hashBlock = Null /\ \A p \in Outpoint : view.cacheCoins[p] = NoEntry
  BY Zenon, <1>1, EmptyCacheEffect DEF Empty
<1>3. IInv'
  BY Zenon, <1>1 DEF IInv, TypeOK, FlagsMeanWhatTheySay, NeverThrows, TipGetCoin
<1>4. \A p \in Outpoint : /\ TipGetCoin(p)' = TipGetCoin(p)
                          /\ GetCoin(p)' = GetCoin(p)
  BY Zenon, <1>1, <1>2 DEF TipGetCoin, GetCoin, ViewGetCoin, Through
<1>5. Utxo' = Utxo /\ Work' = Work
  BY Zenon, <1>4 DEF Utxo, Work, Shown
<1>6. TipGetBestBlock' = TipGetBestBlock /\ GetBestBlock' = GetBestBlock
  BY Zenon, <1>1, <1>2 DEF TipGetBestBlock, GetBestBlock
<1>7. U!OpenView
  BY Zenon, <1>1, <1>5, <1>6 DEF U!OpenView, Utxo, Work
<1> QED  BY Zenon, <1>3, <1>7 DEF AbstractNext, U!Next

\* A view that goes away leaves pcoinsTip as it was.
LEMMA DropViewStep ==
  ASSUME IInv, ~thrown, DropView
  PROVE  IInv' /\ AbstractNext
<1>1. open /\ open' = FALSE /\ view' = EmptyCache /\ UNCHANGED <<db, dbBest, tip, thrown>>
  BY Zenon DEF DropView
<1>2. IsCache(view') /\ \A p \in Outpoint : view'.cacheCoins[p] = NoEntry
  BY Zenon, <1>1, EmptyCacheEffect DEF Empty
<1>3. \A p \in Outpoint : /\ TipGetCoin(p)' = TipGetCoin(p)
                          /\ GetCoin(p)' = TipGetCoin(p)
  BY Zenon, <1>1 DEF TipGetCoin, GetCoin
<1>4. IInv'
  <2>1. TypeOK' /\ ~thrown' /\ tip'.hashBlock \in Hash
    BY ZenonT(30), <1>1, <1>2 DEF IInv, TypeOK
  <2>2. \A p \in Outpoint : /\ EntryAgrees(tip.cacheCoins[p], db[p])'
                            /\ EntryAgrees(view.cacheCoins[p], TipGetCoin(p))'
    BY Zenon, <1>1, <1>2, LookupTypes DEF EntryAgrees, Shown
  <2> QED  BY Zenon, <1>1, <2>1, <2>2, IInvIntro
<1>5. Utxo' = Utxo /\ Work' = Utxo
  BY Zenon, <1>3 DEF Utxo, Work, Shown
<1>6. TipGetBestBlock' = TipGetBestBlock /\ GetBestBlock' = TipGetBestBlock
  BY Zenon, <1>1 DEF TipGetBestBlock, GetBestBlock
<1>7. U!Drop
  BY Zenon, <1>1, <1>5, <1>6 DEF U!Drop, Utxo, Work
<1> QED  BY Zenon, <1>4, <1>7 DEF AbstractNext, U!Next

\* Flushing the view makes pcoinsTip show what the view showed.
LEMMA FlushViewStep ==
  ASSUME IInv, ~thrown, FlushView
  PROVE  IInv' /\ AbstractNext
<1>1. /\ open /\ view.hashBlock \in Hash /\ IsCache(view) /\ IsCache(tip)
      /\ UNCHANGED <<db, dbBest, open>>
  BY Zenon DEF FlushView, IInv, TypeOK, IsCache
<1>2. Same(tip', view) /\ Merges(tip', tip, view) /\ Same(view', view) /\ Empty(view')
  BY Zenon, <1>1, BatchWriteEffect, FlushedEffect DEF FlushView
<1>3. ASSUME NEW p \in Outpoint
      PROVE  /\ ~MergeThrows(view.cacheCoins[p], tip.cacheCoins[p])
             /\ EntryAgrees(tip.cacheCoins[p], db[p])'
             /\ EntryAgrees(view.cacheCoins[p], TipGetCoin(p))'
             /\ Shown(TipGetCoin(p))' = Shown(GetCoin(p))
             /\ Shown(GetCoin(p))' = Shown(GetCoin(p))
  <2> DEFINE ch == view.cacheCoins[p]
             pa == tip.cacheCoins[p]
  <2>1. /\ ch \in Entry \cup {NoEntry} /\ pa \in Entry \cup {NoEntry}
        /\ db[p] \in Coin \cup {NotFound} /\ EntryAgrees(pa, db[p])
        /\ EntryAgrees(ch, Through(pa, db[p]))
    BY Zenon, LookupTypes DEF TipGetCoin
  <2>2. /\ ~MergeThrows(ch, pa) /\ EntryAgrees(Merge(ch, pa), db[p])
        /\ Shown(Through(Merge(ch, pa), db[p])) = Shown(Through(ch, Through(pa, db[p])))
    <3> HIDE DEF ch, pa
    <3> QED  BY Zenon, <2>1, MergeAgrees
  <2>3. tip'.cacheCoins[p] = Merge(ch, pa) /\ view'.cacheCoins[p] = NoEntry
    BY Zenon, <1>2 DEF Merges, Empty
  <2>4. GetCoin(p) = Through(ch, Through(pa, db[p]))
    BY Zenon, <1>1 DEF GetCoin, ViewGetCoin, TipGetCoin
  <2>5. TipGetCoin(p)' = Through(Merge(ch, pa), db[p]) /\ GetCoin(p)' = TipGetCoin(p)'
    BY Zenon, <1>1, <2>3 DEF GetCoin, ViewGetCoin, TipGetCoin, Through
  <2> HIDE DEF ch, pa
  <2> QED  BY Zenon, <1>1, <2>2, <2>3, <2>4, <2>5 DEF EntryAgrees, Shown, ch, pa
<1>4. ~thrown' /\ thrown' \in BOOLEAN
  BY Zenon, <1>3 DEF FlushView
<1>5. TypeOK' /\ tip'.hashBlock \in Hash /\ (~open' => view' = EmptyCache)
  BY Zenon, <1>1, <1>2, <1>4 DEF IInv, TypeOK, Same
<1>6. IInv'
  BY Zenon, <1>3, <1>4, <1>5, IInvIntro
<1>7. Utxo' = Work /\ Work' = Work
  BY Zenon, <1>3 DEF Utxo, Work
<1>8. TipGetBestBlock' = GetBestBlock /\ GetBestBlock' = GetBestBlock
  BY Zenon, <1>1, <1>2, CoinsAssumption DEF CoinsAssumption, TipGetBestBlock, GetBestBlock, Same
<1>9. U!Commit
  BY Zenon, <1>1, <1>7, <1>8 DEF U!Commit, Utxo, Work
<1> QED  BY Zenon, <1>6, <1>9 DEF AbstractNext, U!Next

\* Flushing pcoinsTip makes the database show what pcoinsTip showed, and a view
\* above it, which now reads through an empty cache, still agrees with it.
LEMMA FlushTipStep ==
  ASSUME IInv, ~thrown, FlushTip
  PROVE  IInv' /\ AbstractNext
<1>1. IsCache(tip) /\ tip.hashBlock \in Hash /\ UNCHANGED <<view, open>> /\ dbBest' = tip.hashBlock
  BY Zenon DEF FlushTip, IInv, TypeOK
<1>2. Same(tip', tip) /\ Empty(tip')
  BY Zenon, <1>1, FlushedEffect DEF FlushTip
<1>3. \A p \in Outpoint : /\ Written(tip.cacheCoins[p], db[p]) = Shown(TipGetCoin(p))
                          /\ Shown(TipGetCoin(p)) \in Coin \cup {NotFound}
  BY ZenonT(30), LookupTypes, WrittenShows DEF TipGetCoin
<1>4. db' = Utxo /\ db' \in [Outpoint -> Coin \cup {NotFound}]
  BY Zenon, <1>3 DEF FlushTip, DbWrite, Utxo
<1>5. ~thrown' /\ thrown' \in BOOLEAN
  BY ZenonT(60), <1>1, CoinsAssumption DEF CoinsAssumption, FlushTip
<1>6. TypeOK' /\ tip'.hashBlock \in Hash /\ (~open' => view' = EmptyCache)
  BY Zenon, <1>1, <1>2, <1>4, <1>5 DEF IInv, TypeOK, Same
<1>7. ASSUME NEW p \in Outpoint
      PROVE  /\ EntryAgrees(tip.cacheCoins[p], db[p])'
             /\ EntryAgrees(view.cacheCoins[p], TipGetCoin(p))'
             /\ Shown(TipGetCoin(p))' = Shown(TipGetCoin(p))
             /\ Shown(GetCoin(p))' = Shown(GetCoin(p))
  <2>1. tip'.cacheCoins[p] = NoEntry
    BY Zenon, <1>2 DEF Empty
  <2>2. TipGetCoin(p)' = Shown(TipGetCoin(p))
    BY Zenon, <1>4, <2>1 DEF TipGetCoin, Through, Utxo
  <2>3. Shown(TipGetCoin(p)') = Shown(TipGetCoin(p))
    BY Zenon, <2>2, CoinsAssumption DEF CoinsAssumption, Shown
  <2>4. /\ TipGetCoin(p) \in Coin \cup {Null, NotFound}
        /\ TipGetCoin(p)' \in Coin \cup {Null, NotFound}
        /\ EntryAgrees(view.cacheCoins[p], TipGetCoin(p))
    BY Zenon, <1>3, <2>2, LookupTypes
  <2>5. EntryAgrees(view.cacheCoins[p], TipGetCoin(p)')
    BY Zenon, <2>3, <2>4, AgreesByShown
  <2>6. Shown(GetCoin(p)') = Shown(GetCoin(p))
    BY Zenon, <1>1, <2>3 DEF GetCoin, ViewGetCoin, Through
  <2> QED  BY Zenon, <1>1, <2>1, <2>3, <2>5, <2>6 DEF EntryAgrees, Shown
<1>8. IInv'
  BY Zenon, <1>5, <1>6, <1>7, IInvIntro
<1>9. Utxo' = Utxo /\ Work' = Work
  BY Zenon, <1>7 DEF Utxo, Work
<1>10. TipGetBestBlock' = TipGetBestBlock /\ GetBestBlock' = GetBestBlock /\ dbBest' = TipGetBestBlock
  BY Zenon, <1>1, <1>2, CoinsAssumption DEF CoinsAssumption, TipGetBestBlock, GetBestBlock, Same
<1>11. U!Persist
  BY Zenon, <1>1, <1>4, <1>9, <1>10 DEF U!Persist, Utxo, Work
<1> QED  BY Zenon, <1>8, <1>11 DEF AbstractNext, U!Next

\* What PruneInvalidEntries writes for one outpoint.
LEMMA PrunedShows ==
  ASSUME IInv, NEW o \in Outpoint
  PROVE  Written(IF o \in InvalidOut /\ TipGetCoin(o) \in Coin
                 THEN SpendCoin(FetchCoin(tip, o, db[o]), o).cacheCoins[o]
                 ELSE tip.cacheCoins[o], db[o])
           = IF o \in InvalidOut THEN NotFound ELSE Shown(TipGetCoin(o))
<1>1. /\ IsCache(tip) /\ db[o] \in Coin \cup {NotFound} /\ EntryAgrees(tip.cacheCoins[o], db[o])
      /\ tip.cacheCoins[o] \in Entry \cup {NoEntry}
  BY Zenon, LookupTypes DEF IInv, TypeOK
<1>2. Written(tip.cacheCoins[o], db[o]) = Shown(TipGetCoin(o))
  BY Zenon, <1>1, WrittenShows DEF TipGetCoin
<1>3. CASE ~(o \in InvalidOut /\ TipGetCoin(o) \in Coin)
  BY Zenon, <1>2, <1>3 DEF Shown
<1>4. CASE o \in InvalidOut /\ TipGetCoin(o) \in Coin
  <2> DEFINE f == FetchCoin(tip, o, db[o])
             g == SpendCoin(f, o)
  <2>1. Same(f, tip) /\ Fetches(f, tip, o, db[o])
    BY Zenon, <1>1, FetchCoinEffect
  <2>2. IsCache(f)
    BY Zenon, <2>1 DEF Same
  <2>3. Same(g, f) /\ Spends(g, f, o)
    BY Zenon, <2>2, SpendCoinEffect
  <2> HIDE DEF f, g
  <2>4. EntryAgrees(f.cacheCoins[o], db[o])
    BY Zenon, <1>1, <2>1, FetchedAgrees
  <2>5. f.cacheCoins[o] = NoEntry => db[o] = NotFound
    BY Zenon, <1>1, <2>1, FetchedMisses
  <2>6. EntryAgrees(g.cacheCoins[o], db[o]) /\ Shown(Through(g.cacheCoins[o], db[o])) = NotFound
    BY SMTT(30), <1>1, <2>2, <2>3, <2>4, <2>5, SpentAgrees
  <2>7. g.cacheCoins[o] \in Entry \cup {NoEntry}
    BY Zenon, <2>3 DEF Same, IsCache
  <2>8. Written(g.cacheCoins[o], db[o]) = NotFound
    BY Zenon, <1>1, <2>6, <2>7, WrittenShows
  <2> QED  BY Zenon, <1>4, <2>8 DEF f, g
<1> QED  BY Zenon, <1>3, <1>4

\* Start-up pruning removes the banned outpoints and makes the rest durable.
LEMMA PruneInvalidEntriesStep ==
  ASSUME IInv, ~thrown, PruneInvalidEntries
  PROVE  IInv' /\ AbstractNext
<1> DEFINE m == [o \in Outpoint |-> IF o \in InvalidOut THEN NotFound ELSE Shown(TipGetCoin(o))]
<1>1. /\ IsCache(tip) /\ tip.hashBlock \in Hash /\ ~open /\ view = EmptyCache
      /\ UNCHANGED <<view, open>> /\ dbBest' = tip.hashBlock
  BY Zenon DEF PruneInvalidEntries, IInv, TypeOK
<1>2. Same(tip', tip) /\ Empty(tip')
  BY Zenon, <1>1, FlushedEffect DEF PruneInvalidEntries
<1>3. db' = m
  <2>1. db' = [o \in Outpoint |->
                 Written(IF o \in InvalidOut /\ TipGetCoin(o) \in Coin
                         THEN SpendCoin(FetchCoin(tip, o, db[o]), o).cacheCoins[o]
                         ELSE tip.cacheCoins[o], db[o])]
    BY Zenon, <1>1 DEF PruneInvalidEntries, DbWrite, IsCache
  <2> QED  BY Zenon, <2>1, PrunedShows
<1>4. db' \in [Outpoint -> Coin \cup {NotFound}]
  BY Zenon, <1>3 DEF Shown
<1>5. ~thrown' /\ thrown' \in BOOLEAN
  BY ZenonT(60), <1>1, CoinsAssumption DEF CoinsAssumption, PruneInvalidEntries
<1>6. TypeOK' /\ tip'.hashBlock \in Hash /\ (~open' => view' = EmptyCache)
  BY Zenon, <1>1, <1>2, <1>4, <1>5 DEF IInv, TypeOK, Same
<1>7. \A p \in Outpoint : tip'.cacheCoins[p] = NoEntry /\ view'.cacheCoins[p] = NoEntry
  BY Zenon, <1>1, <1>2, EmptyCacheEffect DEF Empty
<1>8. IInv'
  BY Zenon, <1>5, <1>6, <1>7, IInvIntro DEF EntryAgrees
<1>9. \A p \in Outpoint : Shown(TipGetCoin(p))' = m[p] /\ GetCoin(p)' = TipGetCoin(p)'
  BY Zenon, <1>1, <1>3, <1>7, CoinsAssumption DEF CoinsAssumption, TipGetCoin, GetCoin, Through, Shown
<1>10. Utxo' = m /\ Work' = m
  BY Zenon, <1>9 DEF Utxo, Work, Shown
<1>11. m = [o \in Outpoint |-> IF o \in InvalidOut THEN NotFound ELSE Utxo[o]]
  BY Zenon DEF Utxo
<1>12. TipGetBestBlock' = TipGetBestBlock /\ GetBestBlock' = GetBestBlock /\ dbBest' = TipGetBestBlock
  BY Zenon, <1>1, <1>2, CoinsAssumption DEF CoinsAssumption, TipGetBestBlock, GetBestBlock, Same
<1> HIDE DEF m
<1>13. U!Prune(InvalidOut)
  BY Zenon, <1>1, <1>3, <1>10, <1>11, <1>12 DEF U!Prune, Utxo, Work
<1> QED  BY Zenon, <1>8, <1>13, CoinsAssumption DEF CoinsAssumption, AbstractNext, U!Next
-----------------------------------------------------------------------------
(* The theorems. *)

\* Every step keeps the invariant and is a step of UtxoLayers.
LEMMA StepCorrect ==
  ASSUME IInv, [Next]_vars
  PROVE  IInv' /\ AbstractNext
<1>1. CASE UNCHANGED vars
  <2>1. UNCHANGED <<db, dbBest, tip, view, open, thrown>>
    BY Zenon, <1>1 DEF vars
  <2>2. IInv'
    BY Zenon, <2>1 DEF IInv, TypeOK, FlagsMeanWhatTheySay, NeverThrows, TipGetCoin
  <2>3. Utxo' = Utxo /\ Work' = Work
    BY Zenon, <2>1 DEF Utxo, Work, Shown, TipGetCoin, GetCoin, ViewGetCoin
  <2>4. TipGetBestBlock' = TipGetBestBlock /\ GetBestBlock' = GetBestBlock
    BY Zenon, <2>1 DEF TipGetBestBlock, GetBestBlock
  <2> QED  BY Zenon, <2>1, <2>2, <2>3, <2>4, StuttersAbstract DEF Stutters
<1>2. CASE Next
  <2>1. ~thrown
    BY Zenon, <1>2 DEF Next
  <2>2. CASE \E o \in Outpoint : Read(o)
    BY Zenon, <2>1, <2>2, ReadStep
  <2>3. CASE \E o \in Outpoint : Spend(o)
    BY Zenon, <2>1, <2>3, SpendStep
  <2>4. CASE \E o \in Outpoint : UncacheTip(o)
    BY Zenon, <2>1, <2>4, UncacheTipStep
  <2>5. CASE \E o \in Outpoint : UncacheView(o)
    BY Zenon, <2>1, <2>5, UncacheViewStep
  <2>6. CASE \E o \in Outpoint, c \in Coin : AddNewCoin(o, c)
    BY Zenon, <2>6, AddNewCoinStep
  <2>7. CASE \E o \in Outpoint, c \in Coin : AddCheckedCoin(o, c)
    BY Zenon, <2>7, AddCheckedCoinStep
  <2>8. CASE \E h \in Hash : SetBestBlock(h)
    BY Zenon, <2>1, <2>8, SetBestBlockStep
  <2>9. CASE LoadBestBlock
    BY Zenon, <2>1, <2>9, LoadBestBlockStep
  <2>10. CASE OpenView
    BY ZenonT(30), <2>1, <2>10, OpenViewStep
  <2>11. CASE DropView
    BY Zenon, <2>1, <2>11, DropViewStep
  <2>12. CASE FlushView
    BY Zenon, <2>1, <2>12, FlushViewStep
  <2>13. CASE FlushTip
    BY Zenon, <2>1, <2>13, FlushTipStep
  <2>14. CASE PruneInvalidEntries
    BY Zenon, <2>1, <2>14, PruneInvalidEntriesStep
  <2> QED  BY Zenon, <1>2, <2>2, <2>3, <2>4, <2>5, <2>6, <2>7, <2>8, <2>9, <2>10, <2>11,
              <2>12, <2>13, <2>14 DEF Next
<1> QED  BY Zenon, <1>1, <1>2

\* At start-up every layer shows what the database holds.
LEMMA InitCorrect ==
  ASSUME Init  PROVE IInv /\ U!Init
<1>1. /\ tip = [EmptyCache EXCEPT !.hashBlock = dbBest] /\ view = EmptyCache
      /\ open = FALSE /\ thrown = FALSE /\ dbBest \in Hash
      /\ db \in [Outpoint -> Coin \cup {NotFound}]
  BY Zenon DEF Init
<1>2. IsCache(tip) /\ tip.hashBlock = dbBest /\ Empty(tip)
  BY Zenon, <1>1 DEF EmptyCache, IsCache, Empty
<1>3. IsCache(view) /\ Empty(view)
  BY Zenon, <1>1, EmptyCacheEffect
<1>4. IInv
  BY ZenonT(30), <1>1, <1>2, <1>3 DEF IInv, TypeOK, FlagsMeanWhatTheySay, EntryAgrees, NeverThrows, Empty
<1>5. \A o \in Outpoint : Shown(TipGetCoin(o)) = db[o] /\ Shown(GetCoin(o)) = db[o]
  BY Zenon, <1>1, <1>2, CoinsAssumption DEF CoinsAssumption, TipGetCoin, GetCoin, Through, Shown, Empty
<1>6. Utxo = db /\ Work = db
  BY Zenon, <1>1, <1>5 DEF Utxo, Work
<1>7. TipGetBestBlock = dbBest /\ GetBestBlock = dbBest
  BY Zenon, <1>1, <1>2 DEF TipGetBestBlock, GetBestBlock
<1>8. U!Init
  BY Zenon, <1>1, <1>6, <1>7 DEF U!Init, U!UtxoMap, Utxo, Work
<1> QED  BY Zenon, <1>4, <1>8

\* The inductive invariant holds in every reachable state.
THEOREM Invariance == Spec => []IInv
<1>1. Init => IInv
  BY Zenon, InitCorrect
<1>2. IInv /\ [Next]_vars => IInv'
  BY Zenon, StepCorrect
<1> QED  BY <1>1, <1>2, PTL DEF Spec

\* The caches, the database and the flags keep their types.
THEOREM TypeCorrect == Spec => []TypeOK
  BY Invariance, PTL DEF IInv

\* In every reachable state a clean entry agrees with the layer below and a FRESH
\* one has no unspent coin there, whatever was fetched, evicted, added, spent or
\* flushed at either layer: what BatchWrite and SpendCoin rely on to drop entries.
THEOREM FlagsCorrect == Spec => []FlagsMeanWhatTheySay
  BY Invariance, PTL DEF IInv

\* Neither logic_error of coins.cpp nor the database's assertion is reachable.
THEOREM NoThrow == Spec => []NeverThrows
  BY Invariance, PTL DEF IInv

\* The stack of caches implements three plain maps.
THEOREM CachesRefineMaps == Spec => Refinement
<1>1. Init => U!Init
  BY Zenon, InitCorrect
<1>2. IInv /\ [Next]_vars => [U!Next]_(U!vars)
  BY Zenon, StepCorrect DEF AbstractNext
<1> QED  BY <1>1, <1>2, Invariance, PTL DEF Spec, Refinement, U!Spec
-----------------------------------------------------------------------------
(* The usage counter. *)
INSTANCE RecursionTheorems

EntryUsages(cache) == [o \in Outpoint |-> EntryUsage(cache.cacheCoins[o])]

\* The counter of one cache is exact.
Counts(cache) == cache.cachedCoinsUsage = SumFunction(EntryUsages(cache))

\* What a coin or an entry takes is a number.
LEMMA UsageTypes ==
  /\ \A c \in Coin : Usage(c) \in Int
  /\ Usage(Null) = 0
  /\ \A e \in Entry \cup {NoEntry} : EntryUsage(e) \in Int
BY CoinsAssumption DEF CoinsAssumption, Usage, EntryUsage, Entry

\* The entries of a cache have a sum.
LEMMA EntryUsagesType ==
  ASSUME NEW cache, IsCache(cache) PROVE EntryUsages(cache) \in [Outpoint -> Int]
BY Zenon, UsageTypes DEF EntryUsages, IsCache

\* A change of one entry that the counter follows leaves it exact.
LEMMA OneEntryCounts ==
  ASSUME NEW cache, IsCache(cache), Counts(cache), NEW f, IsCache(f), NEW o \in Outpoint,
         \A p \in Outpoint \ {o} : f.cacheCoins[p] = cache.cacheCoins[p],
         f.cachedCoinsUsage = cache.cachedCoinsUsage
                              - EntryUsage(cache.cacheCoins[o]) + EntryUsage(f.cacheCoins[o])
  PROVE  Counts(f)
<1> DEFINE a == EntryUsages(cache)
           b == EntryUsages(f)
<1>1. a \in [Outpoint -> Int] BY Zenon, EntryUsagesType
<1>2. b \in [Outpoint -> Int] BY Zenon, EntryUsagesType
<1>3. \A p \in Outpoint \ {o} : b[p] = a[p] BY Zenon DEF EntryUsages
<1>4. a[o] = EntryUsage(cache.cacheCoins[o]) /\ b[o] = EntryUsage(f.cacheCoins[o]) BY Zenon DEF EntryUsages
<1>5. IsFiniteSet(Outpoint) BY Zenon, CoinsAssumption DEF CoinsAssumption
<1> HIDE DEF a, b
<1>6. SumFunction(b) = SumFunction(a) - a[o] + b[o] BY <1>1, <1>2, <1>3, <1>5, SumChange
<1>7. cache.cachedCoinsUsage = SumFunction(a) BY Zenon DEF Counts, a
<1> QED BY Zenon, <1>4, <1>6, <1>7 DEF Counts, b

\* An exact counter is a number.
LEMMA CountsInt ==
  ASSUME NEW cache, IsCache(cache), Counts(cache) PROVE cache.cachedCoinsUsage \in Int
<1> DEFINE a == EntryUsages(cache)
<1>1. a \in [Outpoint -> Int] BY Zenon, EntryUsagesType
<1>2. IsFiniteSet(Outpoint) BY Zenon, CoinsAssumption DEF CoinsAssumption
<1> HIDE DEF a
<1>3. SumFunction(a) \in Int BY Zenon, <1>1, <1>2, SumInt
<1> QED BY Zenon, <1>3 DEF Counts, a

\* FetchCoin accounts for the entry it brings in.
LEMMA FetchCoinCounts ==
  ASSUME NEW cache, IsCache(cache), Counts(cache), NEW o \in Outpoint,
         NEW got \in Coin \cup {Null, NotFound}
  PROVE  Counts(FetchCoin(cache, o, got))
<1>1. CASE FetchCoin(cache, o, got) = cache BY Zenon, <1>1
<1>2. CASE cache.cacheCoins[o] = NoEntry /\ got # NotFound
  <2> DEFINE f == FetchCoin(cache, o, got)
             e == [coin |-> got, dirty |-> FALSE, fresh |-> got = Null]
  <2>1. IsCache(f) /\ Fetches(f, cache, o, got) BY Zenon, FetchCoinEffect DEF Same
  <2>2. f.cachedCoinsUsage = cache.cachedCoinsUsage + Usage(got)
    BY Zenon, <1>2 DEF FetchCoin, IsCache
  <2>3. f.cacheCoins[o] = e BY Zenon, <1>2, <2>1 DEF Fetches
  <2>4. \A p \in Outpoint \ {o} : f.cacheCoins[p] = cache.cacheCoins[p] BY Zenon, <2>1 DEF Fetches
  <2>5. e # NoEntry BY Zenon, <1>2, CoinsAssumption DEF CoinsAssumption
  <2>6. e.coin = got BY Zenon
  <2>7. EntryUsage(f.cacheCoins[o]) = Usage(got) BY Zenon, <2>3, <2>5, <2>6 DEF EntryUsage
  <2>8. EntryUsage(cache.cacheCoins[o]) = 0 BY Zenon, <1>2 DEF EntryUsage
  <2>9. cache.cachedCoinsUsage \in Int /\ Usage(got) \in Int
    BY <1>2, UsageTypes, CountsInt
  <2> HIDE DEF f
  <2>10. Counts(f) BY <2>1, <2>2, <2>4, <2>7, <2>8, <2>9, OneEntryCounts
  <2> QED BY Zenon, <2>10 DEF f
<1> QED BY Zenon, <1>1, <1>2 DEF FetchCoin

\* AddCoin exchanges one coin for another.
LEMMA AddCoinCounts ==
  ASSUME NEW cache, IsCache(cache), Counts(cache), NEW o \in Outpoint, NEW c \in Coin,
         NEW po \in BOOLEAN
  PROVE  Counts(AddCoin(cache, o, c, po))
<1>1. CASE c \in Unspendable BY Zenon, <1>1 DEF AddCoin
<1>2. CASE c \notin Unspendable
  <2> DEFINE f == AddCoin(cache, o, c, po)
             e == AddSlot(cache, o)
             fr == e.fresh \/ (~po /\ ~e.dirty)
  <2>1. IsCache(f) /\ Adds(f, cache, o, c, po) BY ZenonT(30), AddCoinEffect DEF Same
  <2>2. f.cachedCoinsUsage = cache.cachedCoinsUsage - Usage(e.coin) + Usage(c)
    BY Zenon, <1>2 DEF AddCoin, IsCache
  <2>3. f.cacheCoins[o] = [coin |-> c, dirty |-> TRUE, fresh |-> fr] BY Zenon, <1>2, <2>1 DEF Adds
  <2>4. \A p \in Outpoint \ {o} : f.cacheCoins[p] = cache.cacheCoins[p] BY Zenon, <2>1 DEF Adds
  <2>5. e \in Entry BY Zenon, AddSlotType
  <2>6. fr \in BOOLEAN BY Zenon, <2>5 DEF Entry
  <2>7. Usage(e.coin) = EntryUsage(cache.cacheCoins[o]) BY Zenon, UsageTypes DEF AddSlot, EntryUsage
  <2> HIDE DEF f, e, fr
  <2>8. f.cacheCoins[o] # NoEntry BY Zenon, <2>3, <2>6, CoinsAssumption DEF CoinsAssumption
  <2>9. EntryUsage(f.cacheCoins[o]) = Usage(c)
    <3>1. f.cacheCoins[o].coin = c BY <2>3
    <3> QED BY Zenon, <2>8, <3>1 DEF EntryUsage
  <2>10. Counts(f) BY ZenonT(30), <2>1, <2>2, <2>4, <2>7, <2>9, OneEntryCounts
  <2> QED BY Zenon, <2>10 DEF f
<1> QED BY Zenon, <1>1, <1>2

\* SpendCoin gives back what the coin took, whether the entry goes or stays.
LEMMA SpendCoinCounts ==
  ASSUME NEW cache, IsCache(cache), Counts(cache), NEW o \in Outpoint
  PROVE  Counts(SpendCoin(cache, o))
<1>1. CASE cache.cacheCoins[o] = NoEntry BY Zenon, <1>1 DEF SpendCoin
<1>2. CASE cache.cacheCoins[o] # NoEntry
  <2> DEFINE f == SpendCoin(cache, o)
             e == [coin |-> Null, dirty |-> TRUE, fresh |-> FALSE]
  <2>1. IsCache(f) /\ Spends(f, cache, o) BY Zenon, SpendCoinEffect DEF Same
  <2>2. f.cachedCoinsUsage = cache.cachedCoinsUsage - Usage(cache.cacheCoins[o].coin)
    BY Zenon, <1>2 DEF SpendCoin, IsCache
  <2>3. f.cacheCoins[o] = NoEntry \/ f.cacheCoins[o] = e BY Zenon, <1>2, <2>1 DEF Spends
  <2>4. \A p \in Outpoint \ {o} : f.cacheCoins[p] = cache.cacheCoins[p] BY Zenon, <2>1 DEF Spends
  <2>5. EntryUsage(f.cacheCoins[o]) = 0 BY <2>3, UsageTypes DEF EntryUsage
  <2>6. EntryUsage(cache.cacheCoins[o]) = Usage(cache.cacheCoins[o].coin) BY Zenon, <1>2 DEF EntryUsage
  <2>7. cache.cachedCoinsUsage \in Int BY Zenon, CountsInt
  <2>8. EntryUsage(cache.cacheCoins[o]) \in Int BY Zenon, UsageTypes DEF IsCache
  <2> HIDE DEF f
  <2>9. f.cachedCoinsUsage = cache.cachedCoinsUsage
                             - EntryUsage(cache.cacheCoins[o]) + EntryUsage(f.cacheCoins[o])
    BY <2>2, <2>5, <2>6, <2>7, <2>8
  <2>10. Counts(f) BY ZenonT(30), <2>1, <2>4, <2>9, OneEntryCounts
  <2> QED BY Zenon, <2>10 DEF f
<1> QED BY Zenon, <1>1, <1>2

\* So does Uncache.
LEMMA UncacheCoinCounts ==
  ASSUME NEW cache, IsCache(cache), Counts(cache), NEW o \in Outpoint
  PROVE  Counts(UncacheCoin(cache, o))
<1>1. CASE UncacheCoin(cache, o) = cache BY ZenonT(30), <1>1
<1>2. CASE cache.cacheCoins[o] # NoEntry /\ ~(cache.cacheCoins[o].dirty \/ cache.cacheCoins[o].fresh)
  <2> DEFINE f == UncacheCoin(cache, o)
  <2>1. IsCache(f) BY Zenon, UncacheCoinEffect DEF Same
  <2>2. f = [cache EXCEPT !.cacheCoins[o] = NoEntry, !.cachedCoinsUsage = @ - Usage(cache.cacheCoins[o].coin)]
    BY Zenon, <1>2 DEF UncacheCoin
  <2>3. /\ f.cachedCoinsUsage = cache.cachedCoinsUsage - Usage(cache.cacheCoins[o].coin)
        /\ f.cacheCoins = [cache.cacheCoins EXCEPT ![o] = NoEntry]
    BY Zenon, <2>2 DEF IsCache
  <2>4. f.cacheCoins[o] = NoEntry /\ \A p \in Outpoint \ {o} : f.cacheCoins[p] = cache.cacheCoins[p]
    BY Zenon, <2>3 DEF IsCache
  <2>5. EntryUsage(f.cacheCoins[o]) = 0 BY ZenonT(30), <2>4 DEF EntryUsage
  <2>6. EntryUsage(cache.cacheCoins[o]) = Usage(cache.cacheCoins[o].coin) BY ZenonT(30), <1>2 DEF EntryUsage
  <2>7. cache.cachedCoinsUsage \in Int BY Zenon, CountsInt
  <2>8. EntryUsage(cache.cacheCoins[o]) \in Int BY Zenon, UsageTypes DEF IsCache
  <2> HIDE DEF f
  <2>9. f.cachedCoinsUsage = cache.cachedCoinsUsage
                             - EntryUsage(cache.cacheCoins[o]) + EntryUsage(f.cacheCoins[o])
    BY <2>3, <2>5, <2>6, <2>7, <2>8
  <2>10. Counts(f) BY Zenon, <2>1, <2>4, <2>9, OneEntryCounts
  <2> QED BY Zenon, <2>10 DEF f
<1> QED BY Zenon, <1>1, <1>2 DEF UncacheCoin

\* BatchWrite: the changes of all entries add up.
LEMMA BatchWriteCounts ==
  ASSUME NEW parent, IsCache(parent), Counts(parent), NEW child, IsCache(child)
  PROVE  Counts(BatchWrite(parent, child))
<1> DEFINE f == BatchWrite(parent, child)
           a == EntryUsages(parent)
           b == EntryUsages(f)
           d == [o \in Outpoint |-> MergeUsage(child.cacheCoins[o], parent.cacheCoins[o])]
<1>1. IsCache(f) /\ Merges(f, parent, child) BY ZenonT(30), BatchWriteEffect DEF Same
<1>2. a \in [Outpoint -> Int] BY ZenonT(30), EntryUsagesType
<1>3. b \in [Outpoint -> Int] BY Zenon, <1>1, EntryUsagesType
<1>4. ASSUME NEW c \in Entry \cup {NoEntry}, NEW p \in Entry \cup {NoEntry}
      PROVE  /\ MergeUsage(c, p) \in Int
             /\ EntryUsage(Merge(c, p)) = EntryUsage(p) + MergeUsage(c, p)
  <2>1. EntryUsage(p) \in Int BY Zenon, UsageTypes
  <2>2. CASE c = NoEntry \/ ~c.dirty BY <2>1, <2>2 DEF MergeUsage, Merge
  <2>3. CASE c # NoEntry /\ c.dirty
    <3>1. Usage(c.coin) \in Int BY <2>3, UsageTypes DEF Entry
    <3>2. MergeUsage(c, p)
            = (IF Merge(c, p) = NoEntry THEN 0 ELSE Usage(c.coin)) - EntryUsage(p)
      BY Zenon, <2>3 DEF MergeUsage
    <3>3. Merge(c, p) # NoEntry => Merge(c, p).coin = c.coin BY Zenon, <2>3 DEF Merge
    <3>4. EntryUsage(Merge(c, p)) = IF Merge(c, p) = NoEntry THEN 0 ELSE Usage(c.coin)
      BY Zenon, <3>3 DEF EntryUsage
    <3> QED BY <2>1, <3>1, <3>2, <3>4
  <2> QED BY Zenon, <2>2, <2>3
<1>5. \A o \in Outpoint : /\ child.cacheCoins[o] \in Entry \cup {NoEntry}
                         /\ parent.cacheCoins[o] \in Entry \cup {NoEntry}
  BY Zenon DEF IsCache
<1>6. d \in [Outpoint -> Int] BY Zenon, <1>4, <1>5
<1>7. \A o \in Outpoint : b[o] = a[o] + d[o] BY Zenon, <1>1, <1>4, <1>5 DEF EntryUsages, Merges
<1>8. f.cachedCoinsUsage = parent.cachedCoinsUsage + SumFunction(d) BY Zenon DEF BatchWrite
<1>9. IsFiniteSet(Outpoint) BY Zenon, CoinsAssumption DEF CoinsAssumption
<1>10. parent.cachedCoinsUsage = SumFunction(a) BY Zenon DEF Counts
<1> HIDE DEF a, b, d, f
<1>11. SumFunction(b) = SumFunction(a) + SumFunction(d) BY <1>2, <1>3, <1>6, <1>7, <1>9, SumAdd
<1>12. f.cachedCoinsUsage = SumFunction(b) BY Zenon, <1>8, <1>10, <1>11
<1> QED BY ZenonT(30), <1>12 DEF Counts, b, f

\* An empty cache, with or without a best block, counts nothing, and the best block does
\* not matter to the counter.
LEMMA EmptyCounts ==
  /\ Counts(EmptyCache)
  /\ \A cache, h : Counts(cache) /\ IsCache(cache) => Counts([cache EXCEPT !.hashBlock = h])
  /\ \A h : Counts([EmptyCache EXCEPT !.hashBlock = h])
<1> DEFINE zero == [o \in Outpoint |-> 0]
<1>1. IsFiniteSet(Outpoint) BY Zenon, CoinsAssumption DEF CoinsAssumption
<1>2. SumFunction(zero) = 0 BY Zenon, <1>1, SumZero
<1> HIDE DEF zero
<1>3. EntryUsages(EmptyCache) = zero BY Zenon DEF EntryUsages, EmptyCache, EntryUsage, zero
<1>4. Counts(EmptyCache) BY Zenon, <1>2, <1>3 DEF Counts, EmptyCache
<1>5. ASSUME NEW cache, NEW h, Counts(cache), IsCache(cache) PROVE Counts([cache EXCEPT !.hashBlock = h])
  <2> DEFINE f == [cache EXCEPT !.hashBlock = h]
  <2>1. f.cacheCoins = cache.cacheCoins /\ f.cachedCoinsUsage = cache.cachedCoinsUsage
    BY Zenon, <1>5 DEF IsCache
  <2> HIDE DEF f
  <2>2. EntryUsages(f) = EntryUsages(cache) BY Zenon, <2>1 DEF EntryUsages
  <2>3. Counts(f) BY Zenon, <1>5, <2>1, <2>2 DEF Counts
  <2> QED BY Zenon, <2>3 DEF f
<1>6. IsCache(EmptyCache) BY Zenon, EmptyCacheEffect
<1> QED BY Zenon, <1>4, <1>5, <1>6

\* The counters at a step of the topmost view.
LEMMA TopStepCounts ==
  ASSUME UsageIsSum, NEW topNow, NEW tipNow, SetTop(topNow, tipNow), Counts(topNow), Counts(tipNow)
  PROVE  UsageIsSum'
<1>1. Counts(tip) /\ Counts(view) BY Zenon DEF UsageIsSum, Counts, EntryUsages
<1>2. Counts(tip') /\ Counts(view') BY Zenon, <1>1 DEF SetTop
<1> QED BY Zenon, <1>2 DEF UsageIsSum, Counts, EntryUsages

\* A lookup keeps the counters exact.
LEMMA FetchedCounts ==
  ASSUME IInv, Counts(tip), Counts(view), NEW o \in Outpoint
  PROVE  /\ IsCache(Top(o)) /\ Counts(Top(o)) /\ Counts(TipFetched(o))
<1>1. IsCache(tip) /\ IsCache(view) BY Zenon DEF IInv, TypeOK
<1>2. db[o] \in Coin \cup {Null, NotFound} /\ TipGetCoin(o) \in Coin \cup {Null, NotFound}
  BY Zenon, LookupTypes
<1>3. Counts(FetchCoin(tip, o, db[o])) BY Zenon, <1>1, <1>2, FetchCoinCounts
<1>4. Counts(FetchCoin(view, o, TipGetCoin(o))) BY Zenon, <1>1, <1>2, FetchCoinCounts
<1>5. IsCache(Top(o)) BY Zenon, TopFetchedKeeps DEF Same
<1> QED BY Zenon, <1>3, <1>4, <1>5 DEF Top, TipFetched, ViewFetched

\* Every step keeps both counters exact.
LEMMA StepCounts ==
  ASSUME IInv, UsageIsSum, [Next]_vars PROVE UsageIsSum'
<1>1. Counts(tip) /\ Counts(view) BY Zenon DEF UsageIsSum, Counts, EntryUsages
<1>2. IsCache(tip) /\ IsCache(view) BY Zenon DEF IInv, TypeOK
<1>3. ASSUME Counts(tip'), Counts(view') PROVE UsageIsSum'
  BY Zenon, <1>3 DEF UsageIsSum, Counts, EntryUsages
<1>4. CASE UNCHANGED vars BY Zenon, <1>1, <1>3, <1>4 DEF vars
<1>5. ASSUME NEW o \in Outpoint, Read(o) PROVE UsageIsSum'
  BY Zenon, <1>1, <1>5, FetchedCounts, TopStepCounts DEF Read
<1>6. ASSUME NEW o \in Outpoint, Spend(o) PROVE UsageIsSum'
  <2>1. IsCache(Top(o)) /\ Counts(Top(o)) /\ Counts(TipFetched(o)) BY Zenon, <1>1, FetchedCounts
  <2>2. Counts(SpendCoin(Top(o), o)) BY Zenon, <2>1, SpendCoinCounts
  <2> QED BY Zenon, <1>6, <2>1, <2>2, TopStepCounts DEF Spend
<1>7. ASSUME NEW o \in Outpoint, NEW c \in Coin, AddNewCoin(o, c) PROVE UsageIsSum'
  <2>1. IsCache(TopCache) /\ Counts(TopCache) BY Zenon, <1>1, <1>2 DEF TopCache
  <2>2. Counts(AddCoin(TopCache, o, c, FALSE)) BY Zenon, <2>1, AddCoinCounts
  <2>3. SetTop(AddCoin(TopCache, o, c, FALSE), tip) BY Zenon, <1>7 DEF AddNewCoin, TopCache
  <2> QED BY Zenon, <1>1, <2>2, <2>3, TopStepCounts
<1>8. ASSUME NEW o \in Outpoint, NEW c \in Coin, AddCheckedCoin(o, c) PROVE UsageIsSum'
  <2>1. IsCache(Top(o)) /\ Counts(Top(o)) /\ Counts(TipFetched(o)) BY Zenon, <1>1, FetchedCounts
  <2>2. HaveCoin(o) \in BOOLEAN BY DEF HaveCoin
  <2>3. Counts(AddCoin(Top(o), o, c, HaveCoin(o))) BY Zenon, <2>1, <2>2, AddCoinCounts
  <2> QED BY Zenon, <1>8, <2>1, <2>3, TopStepCounts DEF AddCheckedCoin
<1>9. ASSUME NEW h \in Hash, SetBestBlock(h) PROVE UsageIsSum'
  <2>1. IsCache(TopCache) /\ Counts(TopCache) BY Zenon, <1>1, <1>2 DEF TopCache
  <2>2. Counts([TopCache EXCEPT !.hashBlock = h]) BY Zenon, <2>1, EmptyCounts
  <2>3. SetTop([TopCache EXCEPT !.hashBlock = h], tip) BY Zenon, <1>9 DEF SetBestBlock, TopCache
  <2> QED BY Zenon, <1>1, <2>2, <2>3, TopStepCounts
<1>10. CASE LoadBestBlock
  <2>1. Counts(tip') /\ Counts(view') BY Zenon, <1>1, <1>2, <1>10, EmptyCounts DEF LoadBestBlock
  <2> QED BY Zenon, <1>3, <2>1
<1>11. ASSUME NEW o \in Outpoint, UncacheTip(o) PROVE UsageIsSum'
  <2>1. Counts(tip') /\ Counts(view') BY Zenon, <1>1, <1>2, <1>11, UncacheCoinCounts DEF UncacheTip
  <2> QED BY Zenon, <1>3, <2>1
<1>12. ASSUME NEW o \in Outpoint, UncacheView(o) PROVE UsageIsSum'
  <2>1. Counts(tip') /\ Counts(view') BY Zenon, <1>1, <1>2, <1>12, UncacheCoinCounts DEF UncacheView
  <2> QED BY Zenon, <1>3, <2>1
<1>13. CASE OpenView BY Zenon, <1>1, <1>3, <1>13 DEF OpenView
<1>14. CASE DropView BY Zenon, <1>1, <1>3, <1>14, EmptyCounts DEF DropView
<1>15. CASE FlushView
  <2>1. Counts(tip') BY Zenon, <1>1, <1>2, <1>15, BatchWriteCounts DEF FlushView
  <2>2. Counts(view') BY Zenon, <1>15, EmptyCounts DEF FlushView, Flushed
  <2> QED BY Zenon, <1>3, <2>1, <2>2
<1>16. CASE FlushTip
  <2>1. Counts(tip') /\ Counts(view') BY ZenonT(30), <1>1, <1>16, EmptyCounts DEF FlushTip, Flushed
  <2> QED BY Zenon, <1>3, <2>1
<1>17. CASE PruneInvalidEntries
  <2>1. Counts(tip') /\ Counts(view') BY Zenon, <1>1, <1>17, EmptyCounts DEF PruneInvalidEntries, Flushed
  <2> QED BY Zenon, <1>3, <2>1
<1> QED BY ZenonT(30), <1>4, <1>5, <1>6, <1>7, <1>8, <1>9, <1>10, <1>11, <1>12, <1>13, <1>14, <1>15,
           <1>16, <1>17
        DEF Next

\* cachedCoinsUsage, from which FlushStateToDisk decides when pcoinsTip is too large, is in
\* every reachable state exactly the memory of the coins the cache holds.
THEOREM UsageExact == Spec => []UsageIsSum
<1>1. Init => UsageIsSum
  <2>1. Init => Counts(tip) /\ Counts(view) BY Zenon, EmptyCounts DEF Init
  <2> QED BY Zenon, <2>1 DEF UsageIsSum, Counts, EntryUsages
<1>2. IInv /\ UsageIsSum /\ [Next]_vars => UsageIsSum' BY Zenon, StepCounts
<1> QED BY <1>1, <1>2, Invariance, PTL DEF Spec
=============================================================================
