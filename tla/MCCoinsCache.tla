---------------------------- MODULE MCCoinsCache ----------------------------
(***************************************************************************)
(* The two halves of CCoinsViewCache, coins and shielded records, and the  *)
(* memory pool that stands on them; each behaviour exercises one of the    *)
(* three.  Coins: two outpoints, one of them banned, and an ordinary, a    *)
(* larger and an unspendable coin.  Shielded records: two kinds of leaf,   *)
(* so that a reorganisation can replace a tree by a sibling of the same    *)
(* size, and trees of up to two leaves, so that an anchor can be popped    *)
(* while an older one stays.                                               *)
(***************************************************************************)
EXTENDS CoinsCache, SaplingCache, MCMempool

CONSTANTS o1, o2, c1, c2, c3, h1, h2

UsageDef == c1 :> 1 @@ c2 :> 2 @@ c3 :> 3

VARIABLE part    \* the part this behaviour exercises

cacheVars == <<vars, saplingVars, mempoolVars, part>>

\* The coins start from any database where they are the part at work, and from an
\* empty one where they are not.
CachesInit ==
  /\ Init /\ SaplingInit /\ MempoolInit /\ part \in {"coins", "shielded", "pool"}
  /\ part # "coins" => dbBest = h1 /\ db = [o \in Outpoint |-> NotFound]

CachesNext ==
  \/ part = "coins" /\ Next /\ UNCHANGED <<saplingVars, mempoolVars, part>>
  \/ part = "shielded" /\ SaplingNext /\ UNCHANGED <<vars, mempoolVars, part>>
  \/ part = "pool" /\ MempoolNext /\ UNCHANGED <<vars, saplingVars, part>>

CachesSpec == CachesInit /\ [][CachesNext]_cacheVars
=============================================================================
