------------------------------- MODULE Mempool -------------------------------
(***************************************************************************)
(* CTxMemPool and what changes it: AcceptToMemoryPool, the activation of   *)
(* another tip with its disconnected and connected blocks, PrioritiseTrans-*)
(* action, expiry and the size limit.  An entry keeps totals over its      *)
(* ancestors and descendants in the pool; the totals and the links between *)
(* entries are updated step by step and never recomputed.  cs_main and     *)
(* mempool.cs are held over each action.                                   *)
(***************************************************************************)
EXTENDS Integers, SequencesExt

CONSTANTS
  Tx,             \* the transactions, coinbases included
  CoinBase,       \* the ones that are only valid in a block
  Vin,            \* Vin[t]: the outpoints <<t, n>> that t spends, in order
  Vout,           \* Vout[t]: the number of its outputs
  Reveals,        \* Reveals[t]: the nullifiers of its shielded spends, in order
  SpendAnchor,    \* SpendAnchor[t]: the tree root they refer to
  Size, Fee,      \* GetTxSize and the fee of each transaction
  LockTime,       \* nLockTime, a height
  LowFee,         \* the transactions that pay less than GetMinRelayFee asks for
  Block,
  Path,           \* Path[b]: the blocks from the genesis block to b
  Vtx,            \* Vtx[b]: the transactions of b, in order
  TreeRoot,       \* TreeRoot[b]: the root of the note commitment tree after b
  Genesis,
  CoinbaseMaturity,
  LimitAncestors, LimitAncestorSize, LimitDescendants, LimitDescendantSize,
  MaxMempool,       \* -maxmempool
  MaxDisconnected,  \* MAX_DISCONNECTED_TX_POOL_SIZE, in transactions
  Deltas,           \* the amounts PrioritiseTransaction is called with
  MaxPrioritise,    \* bound: calls of PrioritiseTransaction
  MaxExpired        \* bound: entries that reach -mempoolexpiry at the same time

ASSUME MempoolAssumption ==
  /\ CoinBase \subseteq Tx /\ LowFee \subseteq Tx
  /\ \A t \in Tx : Size[t] \in Nat \ {0} /\ Vout[t] \in Nat
  /\ Genesis \in Block /\ Path[Genesis] = <<Genesis>>
  /\ \A b \in Block \ {Genesis} : Path[b] = Append(Path[Path[b][Len(Path[b]) - 1]], b)

VARIABLES
  pool,        \* mempool
  chainTip,    \* chainActive.Tip()
  calls        \* calls of PrioritiseTransaction so far

mempoolVars == <<pool, chainTip, calls>>

-----------------------------------------------------------------------------
(* The chain: pcoinsTip at each tip.                                       *)

Outputs(t) == {<<t, n>> : n \in 0 .. Vout[t] - 1}
Height(b) == Len(Path[b]) - 1
Confirmed == [b \in Block |-> UNION {ToSet(Vtx[c]) : c \in ToSet(Path[b])}]
Utxo == [b \in Block |-> UNION {Outputs(t) : t \in Confirmed[b]}
                           \ UNION {ToSet(Vin[t]) : t \in Confirmed[b]}]
SpentNullifiers == [b \in Block |-> UNION {ToSet(Reveals[t]) : t \in Confirmed[b]}]
Anchors == [b \in Block |-> {TreeRoot[c] : c \in ToSet(Path[b])}]

\* CheckFinalTx: the transaction may be part of the next block.
Final(t, b) == LockTime[t] < Height(b) + 1

\* A coinbase output may be spent in the next block.
Mature(o, b) ==
  o[1] \in CoinBase =>
    \A c \in ToSet(Path[b]) : o[1] \in ToSet(Vtx[c]) => Height(b) + 1 - Height(c) >= CoinbaseMaturity

-----------------------------------------------------------------------------
(* Totals over a package of entries.                                       *)

NoTotal == [count |-> 0, size |-> 0, fees |-> 0]
Plus(a, b) == [f \in DOMAIN a |-> a[f] + b[f]]
Minus(a, b) == [f \in DOMAIN a |-> a[f] - b[f]]

GetModifiedFee(p, t) == Fee[t] + p.feeDelta[t]
Total(p, S) == [count |-> Cardinality(S),
                size |-> MapThenSumSet(LAMBDA t : Size[t], S),
                fees |-> MapThenSumSet(LAMBDA t : GetModifiedFee(p, t), S)]

RECURSIVE Reach(_, _)
Reach(links, S) ==
  LET next == S \cup UNION {links[t] : t \in S}
  IN IF next = S THEN S ELSE Reach(links, next)

CalculateDescendants(p, S) == Reach(p.children, S)
LinkedAncestors(p, t) == Reach(p.parents, p.parents[t])

\* CalculateMemPoolAncestors for a transaction that is not in the pool yet.
SearchedParents(p, t) == {o[1] : o \in ToSet(Vin[t])} \cap p.tx
SearchedAncestors(p, t) == Reach(p.parents, SearchedParents(p, t))

WithinLimits(p, t) ==
  LET A == SearchedAncestors(p, t)
  IN /\ Cardinality(A) + 1 <= LimitAncestors
     /\ A # {} => Total(p, A \cup {t}).size <= LimitAncestorSize
     /\ \A a \in A : /\ p.desc[a].count + 1 <= LimitDescendants
                     /\ p.desc[a].size + Size[t] <= LimitDescendantSize

EmptyPool ==
  [tx |-> {},
   parents |-> [t \in Tx |-> {}], children |-> [t \in Tx |-> {}],
   anc |-> [t \in Tx |-> NoTotal], desc |-> [t \in Tx |-> NoTotal],
   feeDelta |-> [t \in Tx |-> 0], mapDeltas |-> <<>>,
   mapNextTx |-> <<>>, mapSaplingNullifiers |-> <<>>,
   totalTxSize |-> 0, cachedInnerUsage |-> 0, failed |-> FALSE]

Drop(f, S) == [k \in DOMAIN f \ S |-> f[k]]

-----------------------------------------------------------------------------
(* Entering and leaving the pool.                                          *)

\* addUnchecked assumes that t has no children in the pool.
addUnchecked(p, t) ==
  LET delta == IF t \in DOMAIN p.mapDeltas THEN p.mapDeltas[t] ELSE 0
      share == [count |-> 1, size |-> Size[t], fees |-> Fee[t] + delta]
      A == SearchedAncestors(p, t)
      P == SearchedParents(p, t)
  IN [p EXCEPT
        !.tx = @ \cup {t},
        !.feeDelta[t] = delta,
        !.parents[t] = P,
        !.children = [u \in Tx |-> IF u \in P THEN @[u] \cup {t} ELSE @[u]],
        !.desc = [u \in Tx |-> IF u = t THEN share ELSE IF u \in A THEN Plus(@[u], share) ELSE @[u]],
        !.anc[t] = Plus(share, Total(p, A)),
        !.mapNextTx = @ @@ [o \in ToSet(Vin[t]) |-> t],
        !.mapSaplingNullifiers = [n \in ToSet(Reveals[t]) |-> t] @@ @,
        !.totalTxSize = @ + Size[t],
        !.cachedInnerUsage = @ + Size[t] + 2 * Cardinality(P)]

LinkCount(links, S) == MapThenSumSet(LAMBDA t : Cardinality(links[t]), S)

\* The totals of the entries that stay are lowered along the links; a child link is cut
\* for every removed entry, a parent link only for the children that stay.
RemoveStaged(p, stage, updateDescendants) ==
  LET children1 == [u \in Tx |-> p.children[u] \ stage]
      parents1 == [u \in Tx |-> p.parents[u] \ {r \in stage : u \in children1[r]}]
      anc1 == [u \in Tx |->
                 IF updateDescendants
                 THEN Minus(p.anc[u], Total(p, {r \in stage \ {u} : u \in CalculateDescendants(p, {r})}))
                 ELSE p.anc[u]]
      desc1 == [u \in Tx |-> Minus(p.desc[u], Total(p, {r \in stage : u \in LinkedAncestors(p, r)}))]
      Without(f, none) == [u \in Tx |-> IF u \in stage THEN none ELSE f[u]]
  IN IF stage = {} THEN p ELSE
     [p EXCEPT
        !.tx = @ \ stage,
        !.parents = Without(parents1, {}),
        !.children = Without(children1, {}),
        !.anc = Without(anc1, NoTotal),
        !.desc = Without(desc1, NoTotal),
        !.feeDelta = Without(@, 0),
        !.mapNextTx = Drop(@, UNION {ToSet(Vin[t]) : t \in stage}),
        !.mapSaplingNullifiers = Drop(@, UNION {ToSet(Reveals[t]) : t \in stage}),
        !.totalTxSize = @ - MapThenSumSet(LAMBDA t : Size[t], stage),
        !.cachedInnerUsage =
           @ - (LinkCount(p.children, Tx) - LinkCount(children1, Tx))
             - (LinkCount(p.parents, Tx) - LinkCount(parents1, Tx))
             - MapThenSumSet(LAMBDA t : Size[t], stage)
             - LinkCount(children1, stage) - LinkCount(parents1, stage),
        !.failed = @ \/ \E u \in p.tx : \E total \in {anc1[u], desc1[u]} :
                          total.count <= 0 \/ total.size <= 0]

\* Mutant of removeRecursive: nothing is done for a transaction that is not in the pool.
removeRecursiveIfPresent(p, t) ==
  RemoveStaged(p, CalculateDescendants(p, {t} \cap p.tx), FALSE)

\* A transaction that is not in the pool takes the children it has there with it.
removeRecursive(p, t) ==
  LET spenders == {p.mapNextTx[o] : o \in Outputs(t) \cap DOMAIN p.mapNextTx}
  IN RemoveStaged(p, CalculateDescendants(p, IF t \in p.tx THEN {t} ELSE spenders), FALSE)

ClearPrioritisation(p, t) == [p EXCEPT !.mapDeltas = Drop(@, {t})]

removeConflicts(p, t) ==
  LET evict(q, map, k) ==
        IF k \in DOMAIN map /\ map[k] # t
        THEN ClearPrioritisation(removeRecursive(q, map[k]), map[k])
        ELSE q
      coins == FoldLeft(LAMBDA q, o : evict(q, q.mapNextTx, o), p, Vin[t])
  IN FoldLeft(LAMBDA q, n : evict(q, q.mapSaplingNullifiers, n), coins, Reveals[t])

removeForBlock(p, vtx) ==
  LET confirm(q, t) ==
        ClearPrioritisation(
          removeConflicts(IF t \in q.tx THEN RemoveStaged(q, {t}, TRUE) ELSE q, t), t)
  IN FoldLeft(confirm, p, vtx)

removeWithAnchor(p, root) ==
  LET spending == {t \in p.tx : Reveals[t] # <<>> /\ SpendAnchor[t] = root}
  IN RemoveStaged(p, CalculateDescendants(p, spending), FALSE)

removeForReorg(p, b) ==
  LET SpendsCoinBase(t) == \E o \in ToSet(Vin[t]) : o[1] \in CoinBase
      Missing(o) == o[1] \notin p.tx /\ (o \notin Utxo[b] \/ ~ Mature(o, b))
      gone == {t \in p.tx : \/ ~ Final(t, b)
                            \/ SpendsCoinBase(t) /\ \E o \in ToSet(Vin[t]) : Missing(o)}
  IN RemoveStaged(p, CalculateDescendants(p, gone), FALSE)

-----------------------------------------------------------------------------
(* The size limit.                                                         *)

\* The nodes of the maps that grow with the pool, each counted as one unit of memory.
DynamicMemoryUsage(p) ==
  p.cachedInnerUsage + Cardinality(p.tx) + Cardinality(DOMAIN p.mapNextTx)
    + Cardinality(DOMAIN p.mapDeltas) + Cardinality(DOMAIN p.mapSaplingNullifiers)

\* The better of the entry's own fee rate and the one of its package; entries of the same
\* rate are ordered by their time, which is not modelled.
DescendantScore(p, t) ==
  IF p.desc[t].fees * Size[t] > GetModifiedFee(p, t) * p.desc[t].size
  THEN <<p.desc[t].fees, p.desc[t].size>>
  ELSE <<GetModifiedFee(p, t), Size[t]>>

LowestScore(p) ==
  LET Below(a, b) == a[1] * b[2] < a[2] * b[1]
  IN {t \in p.tx : \A u \in p.tx : ~ Below(DescendantScore(p, u), DescendantScore(p, t))}

\* The pools TrimToSize may leave.
RECURSIVE TrimToSize(_)
TrimToSize(p) ==
  IF DynamicMemoryUsage(p) <= MaxMempool \/ p.tx = {} THEN {p}
  ELSE UNION {TrimToSize(RemoveStaged(p, CalculateDescendants(p, {t}), FALSE)) : t \in LowestScore(p)}

Expire(p, old) == RemoveStaged(p, CalculateDescendants(p, old), FALSE)

LimitMempoolSize(p, old) == TrimToSize(Expire(p, old))

-----------------------------------------------------------------------------
(* AcceptToMemoryPool.                                                     *)

\* The checks of AcceptToMemoryPoolWorker on a transaction that is well formed.
Acceptable(p, t, b, limitFree) ==
  /\ t \notin CoinBase
  /\ Final(t, b)
  /\ t \notin p.tx
  /\ ToSet(Vin[t]) \cap DOMAIN p.mapNextTx = {}
  /\ ToSet(Reveals[t]) \cap DOMAIN p.mapSaplingNullifiers = {}
  /\ Outputs(t) \cap Utxo[b] = {}
  /\ \A o \in ToSet(Vin[t]) : (o[1] \in p.tx /\ o \in Outputs(o[1])) \/ o \in Utxo[b]
  /\ Reveals[t] # <<>> => SpendAnchor[t] \in Anchors[b]
  /\ ToSet(Reveals[t]) \cap SpentNullifiers[b] = {}
  /\ limitFree => t \notin LowFee
  /\ WithinLimits(p, t)
  /\ \A o \in ToSet(Vin[t]) : Mature(o, b)

\* The pools an accepted transaction may leave.  With fOverrideMempoolLimit the expiry is
\* skipped; the pool is trimmed with it and without it.
Accepted(p, t, fOverrideMempoolLimit, old) ==
  IF fOverrideMempoolLimit THEN TrimToSize(addUnchecked(p, t))
  ELSE LimitMempoolSize(addUnchecked(p, t), old)

-----------------------------------------------------------------------------
(* Another tip.  w is [pool, queued]: the pool and disconnectpool.queuedTx *)

\* The oldest entries of a disconnectpool that is too large are given up.
RECURSIVE DropEarliest(_)
DropEarliest(w) ==
  IF Len(w.queued) <= MaxDisconnected THEN w
  ELSE DropEarliest([pool |-> removeRecursive(w.pool, Head(w.queued)), queued |-> Tail(w.queued)])

DisconnectTip(w, b) ==
  LET parent == Path[b][Len(Path[b]) - 1]
      v == DropEarliest([w EXCEPT !.queued = @ \o Reverse(Vtx[b])])
  IN IF TreeRoot[b] # TreeRoot[parent] THEN [v EXCEPT !.pool = removeWithAnchor(@, TreeRoot[b])] ELSE v

ConnectTip(w, b) ==
  [pool |-> removeForBlock(w.pool, Vtx[b]),
   queued |-> SelectSeq(w.queued, LAMBDA t : t \notin ToSet(Vtx[b]))]

\* The transactions come back from the earliest on; the result is a set of pools, each with
\* vHashUpdate.
RECURSIVE Resurrect(_, _, _, _, _)
Resurrect(p, queued, vHashUpdate, b, fAddToMempool) ==
  IF queued = <<>> THEN {<<p, vHashUpdate>>}
  ELSE LET t == Last(queued)
           ok == fAddToMempool /\ Acceptable(p, t, b, FALSE)
       IN UNION {IF ok /\ t \in q.tx
                 THEN Resurrect(q, Front(queued), Append(vHashUpdate, t), b, fAddToMempool)
                 ELSE Resurrect(removeRecursive(q, t), Front(queued), vHashUpdate, b, fAddToMempool)
                 : q \in IF ok THEN Accepted(p, t, TRUE, {}) ELSE {p}}

\* Mutant of UpdateForDescendants: the transactions of the block are counted again.
UpdateForAllDescendants(p, t, setExclude) ==
  LET D == CalculateDescendants(p, p.children[t])
      share == Total(p, {t})
  IN [p EXCEPT !.anc = [u \in Tx |-> IF u \in D THEN Plus(@[u], share) ELSE @[u]],
               !.desc[t] = Plus(@, Total(p, D))]

\* t comes from a block and its children in the pool do not know it yet.
UpdateForDescendants(p, t, setExclude) ==
  LET D == CalculateDescendants(p, p.children[t]) \ setExclude
      share == Total(p, {t})
  IN [p EXCEPT !.anc = [u \in Tx |-> IF u \in D THEN Plus(@[u], share) ELSE @[u]],
               !.desc[t] = Plus(@, Total(p, D))]

\* Mutant of UpdateTransactionsFromBlock: the children in the pool are not looked for.
UpdateOnlyBlockTransactions(p, vHashesToUpdate) == p

UpdateTransactionsFromBlock(p, vHashesToUpdate) ==
  LET included == ToSet(vHashesToUpdate)
      Link(t, q) ==
        LET C == {q.mapNextTx[o] : o \in Outputs(t) \cap DOMAIN q.mapNextTx} \ included
        IN [q EXCEPT !.children[t] = @ \cup C,
                     !.parents = [u \in Tx |-> IF u \in C THEN @[u] \cup {t} ELSE @[u]],
                     !.cachedInnerUsage = @ + 2 * Cardinality(C \ q.children[t])]
      Update(t, q) == IF t \in q.tx THEN UpdateForDescendants(Link(t, q), t, included) ELSE q
  IN FoldRight(Update, vHashesToUpdate, p)

UpdateMempoolForReorg(w, b, fAddToMempool, old) ==
  UNION {LET q == removeForReorg(UpdateTransactionsFromBlock(r[1], r[2]), b)
         IN LimitMempoolSize(q, old \cap q.tx)
         : r \in Resurrect(w.pool, w.queued, <<>>, b, fAddToMempool)}

-----------------------------------------------------------------------------
(* The actions.                                                            *)

MempoolInit == pool = EmptyPool /\ chainTip = Genesis /\ calls = 0

Old(p) == UNION {kSubset(k, p.tx) : k \in 0 .. MaxExpired}

\* AcceptToMemoryPool for a transaction from a peer, the wallet, an RPC or mempool.dat.
AcceptToMemoryPool(t) ==
  /\ Acceptable(pool, t, chainTip, TRUE)
  /\ \E old \in Old(pool) : pool' \in Accepted(pool, t, FALSE, old)
  /\ UNCHANGED <<chainTip, calls>>

\* One step of ActivateBestChain, or InvalidateBlock, ends at b: it does not go on once it
\* has more work than before, and it ends early where the next block is invalid.  Without
\* fAddToMempool the next block could not be read.
Activate(b, fAddToMempool) ==
  LET fork == CHOOSE c \in ToSet(Path[b]) \cap ToSet(Path[chainTip]) :
                \A d \in ToSet(Path[b]) \cap ToSet(Path[chainTip]) : Height(d) <= Height(c)
      down == Reverse(SubSeq(Path[chainTip], Height(fork) + 2, Len(Path[chainTip])))
      up == SubSeq(Path[b], Height(fork) + 2, Len(Path[b]))
      w == FoldLeft(ConnectTip, FoldLeft(DisconnectTip, [pool |-> pool, queued |-> <<>>], down), up)
  IN /\ Height(b) <= Height(chainTip) + 1
     /\ chainTip' = b
     /\ IF down # <<>> \/ ~ fAddToMempool
        THEN \E old \in Old(pool) : pool' \in UpdateMempoolForReorg(w, b, fAddToMempool, old)
        ELSE pool' = w.pool
     /\ UNCHANGED calls

PrioritiseTransaction(t, nFeeDelta) ==
  LET delta == nFeeDelta + (IF t \in DOMAIN pool.mapDeltas THEN pool.mapDeltas[t] ELSE 0)
      change == IF t \in pool.tx THEN delta - pool.feeDelta[t] ELSE 0
      A == LinkedAncestors(pool, t)
      Raise(total, d) == [total EXCEPT !.fees = @ + d]
  IN /\ calls < MaxPrioritise
     /\ calls' = calls + 1
     /\ pool' = [pool EXCEPT
          !.mapDeltas = (t :> delta) @@ @,
          !.feeDelta[t] = IF t \in pool.tx THEN delta ELSE 0,
          !.anc[t] = Raise(@, change),
          !.desc = [u \in Tx |-> IF u = t THEN Raise(@[u], change)
                                 ELSE IF u \in A THEN Raise(@[u], nFeeDelta) ELSE @[u]]]
     /\ UNCHANGED chainTip

\* The pool of a new process is empty.  LoadMempool, if there is a mempool.dat, consists of
\* calls of PrioritiseTransaction and AcceptToMemoryPool with cs_main released in between.
EmptyRestart == pool' = EmptyPool /\ UNCHANGED <<chainTip, calls>>

MempoolNext ==
  \/ \E t \in Tx : AcceptToMemoryPool(t)
  \/ \E b \in Block \ {chainTip}, fAddToMempool \in BOOLEAN : Activate(b, fAddToMempool)
  \/ \E t \in Tx \ CoinBase, d \in Deltas : PrioritiseTransaction(t, d)
  \/ EmptyRestart

MempoolSpec == MempoolInit /\ [][MempoolNext]_mempoolVars

-----------------------------------------------------------------------------
(* Properties.                                                             *)

\* What the links, totals and maps must be, from the transactions in the pool alone.
TrueParents(p) == [t \in Tx |-> IF t \in p.tx THEN SearchedParents(p, t) ELSE {}]
TrueChildren(p) == [t \in Tx |-> {u \in p.tx : t \in TrueParents(p)[u]}]

\* CTxMemPool::check on links, mapNextTx, nullifiers and memory: after any sequence of
\* arrivals, removals and reorganisations every pair of parent and child is linked both
\* ways, every input and nullifier of an entry is marked with that entry and no other mark
\* is left, and the counters that decide when the pool is trimmed are sums over the entries
\* and within the limit, but for fee deltas that came later.
LinksMatchInputs ==
  /\ pool.parents = TrueParents(pool)
  /\ pool.children = TrueChildren(pool)
  /\ DOMAIN pool.mapNextTx = UNION {ToSet(Vin[t]) : t \in pool.tx}
  /\ \A t \in pool.tx : \A o \in ToSet(Vin[t]) : pool.mapNextTx[o] = t
  /\ DOMAIN pool.mapSaplingNullifiers = UNION {ToSet(Reveals[t]) : t \in pool.tx}
  /\ \A t \in pool.tx : \A n \in ToSet(Reveals[t]) : pool.mapSaplingNullifiers[n] = t
  /\ pool.totalTxSize = Total(pool, pool.tx).size
  /\ pool.cachedInnerUsage = pool.totalTxSize + 2 * LinkCount(pool.children, Tx)
  /\ DynamicMemoryUsage(pool) - Cardinality(DOMAIN pool.mapDeltas) <= MaxMempool

\* The totals that decide about limits, eviction and mining are the sums over the entry's
\* real ancestors and descendants, however the package came together; the assertions of
\* UpdateAncestorState and UpdateDescendantState hold.  The fees with ancestors are only
\* claimed while nothing was prioritised.
TotalsMatchPackages ==
  /\ ~ pool.failed
  /\ \A t \in pool.tx :
       LET anc == Total(pool, Reach(TrueParents(pool), {t}))
       IN /\ pool.desc[t] = Total(pool, Reach(TrueChildren(pool), {t}))
          /\ pool.anc[t].count = anc.count /\ pool.anc[t].size = anc.size
          /\ calls = 0 => pool.anc[t].fees = anc.fees

\* The whole pool can be mined on top of the tip: every input is an output of another
\* entry or an unspent, mature coin (check(), txmempool.cpp:915), anchors are known to the chain,
\* nullifiers are not, and every transaction is final.
PoolIsMinable ==
  \A t \in pool.tx :
    /\ Final(t, chainTip)
    /\ \A o \in ToSet(Vin[t]) : o[1] \in pool.tx \/ (o \in Utxo[chainTip] /\ Mature(o, chainTip))
    /\ Reveals[t] # <<>> => SpendAnchor[t] \in Anchors[chainTip]
    /\ ToSet(Reveals[t]) \cap SpentNullifiers[chainTip] = {}
=============================================================================
