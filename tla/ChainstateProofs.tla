-------------------------- MODULE ChainstateProofs --------------------------
(* Proofs about Chainstate for every block tree, every set of outputs and    *)
(* every number of crashes and failed writes.                                *)
EXTENDS Chainstate, RecursionTheorems

Coins  == [Outpoint -> Nat \cup {NoCoin}]
Caches == [Outpoint -> Nat \cup {NoCoin, Clean}]

TypeInv ==
  /\ dbCoins \in Coins /\ dbBest \in Block \cup {Null} /\ evoDisk \in Block
  /\ dbHeads = <<>> \/ \E new, old \in Block : dbHeads = <<new, old>>
  /\ diskIndex \subseteq Block /\ index \subseteq Block
  /\ mode \in {"up", "flush", "evo", "replay", "verify", "reindex", "down"}
  /\ flushesLeft \in 0..Running
  /\ tip \in Block /\ cache \in Caches
  /\ evoRoot \in Block \cup {Null} /\ evoBatch \in Block \cup {Null}

\* The database names one best block, or the two heads of a transition.
Marked == dbBest = Null <=> dbHeads # <<>>

\* A block index holds the parents of its blocks.
Rooted(blocks) == \A b \in blocks \ {Base} : Parent[b] \in blocks

\* The block index on disk is whole as long as no flush went on with a part of it lost.
IndexStanding ==
  /\ "index" \notin spoiled => Rooted(diskIndex)
  /\ mode \in {"up", "flush", "evo", "verify", "replay"} =>
       Rooted(index) /\ diskIndex \subseteq index /\ tip \in index
  /\ "index" \notin spoiled /\ mode \in {"flush", "evo", "verify", "replay"} => tip \in diskIndex

\* Where the tips stand in every mode.
Standing ==
  /\ mode \in {"evo", "verify"} => dbBest = tip
  /\ mode \in {"verify", "evo", "down"} => cache = NoChanges
  /\ mode \in {"flush", "evo"} => flushesLeft # 0
  /\ mode = "replay" => dbBest = Null /\ dbHeads[1] = tip
  /\ mode = "flush" /\ dbBest = Null => dbHeads[1] = tip \/ lostCoins
  /\ mode = "up" /\ dbBest = Null => lostCoins

\* What the EvoDB has in memory is about the tip.  When it shows the tip, the one on disk
\* stands at the best block; otherwise no block was connected or disconnected since the
\* coins were loaded or flushed.
EvoStanding ==
  /\ mode \in {"down", "verify", "replay"} => evoBatch = Null
  /\ mode \in {"up", "flush", "evo"} /\ EvoPending # Null => EvoPending = tip
  /\ mode \in {"up", "flush"} =>
       /\ EvoBest = tip /\ dbBest # Null => evoDisk = dbBest
       /\ EvoBest # tip => tip = dbBest /\ cache = NoChanges

\* In a transition every coin on disk is the old one or the new one.
CoinsBetweenHeads ==
  "coins" \notin spoiled /\ dbHeads # <<>> =>
    \A o \in Outpoint : dbCoins[o] \in {Utxo[dbHeads[1]][o], Utxo[dbHeads[2]][o]}

\* TipMatchesUtxo, also while the blocks of an interrupted flush are written again.
CacheMatchesTip ==
  "coins" \notin spoiled /\ ~lostCoins /\ mode \in {"up", "flush", "evo", "replay"}
    => Shown(cache) = Utxo[tip]

\* The inductive invariant: where everything stands, and what the coins are.
ControlInv ==
  TypeInv /\ Marked /\ IndexStanding /\ Standing /\ EvoStanding /\ ReplayCanFinish
CoinInv    == CoinsMatchBestBlock /\ CoinsBetweenHeads /\ CacheMatchesTip
IInv       == ControlInv /\ CoinInv

-----------------------------------------------------------------------------
(* The block tree. *)

\* The blocks form a tree.
LEMMA BlockTree == Tree(Block, Base, Parent)
  BY Zenon, ChainstateAssumption DEF Tree

\* The chain of a block satisfies the equation that defines it.
LEMMA ChainDef ==
  /\ \A b \in Block : Chain[b] \in Seq(Block)
  /\ Chain[Base] = <<>>
  /\ \A b \in Block \ {Base} : Parent[b] \in Block /\ Chain[b] = Append(Chain[Parent[b]], b)
<1> DEFINE V == Seq(Block)
           G == [b \in Block \ {Base} |-> [s \in V |-> Append(s, b)]]
           Eq(f) == f = [b \in Block |-> IF b = Base THEN <<>> ELSE Append(f[Parent[b]], b)]
<1>0. Base \in Block /\ \A b \in Block \ {Base} : Parent[b] \in Block BY Zenon, ChainstateAssumption
<1>1. G \in Steps(Block, Base, V) /\ <<>> \in V
  <2>1. \A b \in Block \ {Base}, s \in V : Append(s, b) \in V OBVIOUS
  <2> HIDE DEF V
  <2>2. G \in Steps(Block, Base, V) BY Zenon, <2>1 DEF Steps
  <2> QED BY <2>2 DEF V
<1>2. PICK f : Solution(f, Block, Base, Parent, V, <<>>, G)
  <2> HIDE DEF V, G
  <2> QED BY Zenon, <1>1, BlockTree, TreeRecursion
<1>3. Eq(f)
  <2>1. f \in [Block -> V] BY Zenon, <1>2 DEF Solution
  <2>2. ASSUME NEW b \in Block PROVE f[b] = IF b = Base THEN <<>> ELSE Append(f[Parent[b]], b)
    <3>1. f[b] = IF b = Base THEN <<>> ELSE G[b][f[Parent[b]]] BY Zenon, <1>2 DEF Solution
    <3>2. b # Base => f[Parent[b]] \in V BY Zenon, <1>0, <2>1
    <3> HIDE DEF V
    <3> QED BY Zenon, <3>1, <3>2
  <2> HIDE DEF V
  <2> QED BY Zenon, <2>1, <2>2
<1>4. Chain = CHOOSE g : Eq(g) BY Zenon DEF Chain
<1>5. Eq(Chain)
  <2> HIDE DEF Eq
  <2> QED BY Zenon, <1>3, <1>4
<1>6. /\ Chain[Base] = <<>>
      /\ \A b \in Block \ {Base} : Chain[b] = Append(Chain[Parent[b]], b)
  BY Zenon, <1>0, <1>5
<1> DEFINE T == {b \in Block : Chain[b] \in Seq(Block)}
<1>7. Inductive(T, Block, Base, Parent)
  <2>1. Base \in T
    <3>1. <<>> \in Seq(Block) OBVIOUS
    <3> QED BY Zenon, <1>0, <1>6, <3>1
  <2>2. ASSUME NEW b \in Block \ {Base}, Parent[b] \in T PROVE b \in T
    <3>1. Append(Chain[Parent[b]], b) \in Seq(Block) BY <2>2
    <3> QED BY Zenon, <1>6, <3>1
  <2> HIDE DEF T
  <2> QED BY Zenon, <2>1, <2>2 DEF Inductive
<1>8. \A b \in Block : b \in T
  <2> HIDE DEF T
  <2> QED BY Zenon, <1>7, BlockTree, TreeInduction
<1> QED BY Zenon, <1>0, <1>6, <1>8

\* A block's height is one more than its parent's.
LEMMA HeightDef ==
  /\ Height(Base) = 0
  /\ \A b \in Block : Height(b) \in Nat
  /\ \A b \in Block \ {Base} : Height(b) = Height(Parent[b]) + 1 /\ Parent[b] \in Block
<1>1. \A b \in Block : Chain[b] \in Seq(Block) BY Zenon, ChainDef
<1>2. Height(Base) = 0 BY ChainDef DEF Height
<1>3. \A b \in Block : Height(b) \in Nat BY <1>1 DEF Height
<1>4. ASSUME NEW b \in Block \ {Base}
      PROVE  Height(b) = Height(Parent[b]) + 1 /\ Parent[b] \in Block
  <2>1. Parent[b] \in Block /\ Chain[b] = Append(Chain[Parent[b]], b) BY Zenon, ChainDef
  <2>2. Chain[Parent[b]] \in Seq(Block) BY Zenon, <1>1, <2>1
  <2> QED BY <2>1, <2>2 DEF Height
<1> QED BY Zenon, <1>2, <1>3, <1>4

\* The block at height i of b's chain.
At(b, i) == IF i = 0 THEN Base ELSE Chain[b][i]

\* The entries of a chain are the block's ancestors in order of height.
LineFacts(b) ==
  /\ At(b, Height(b)) = b
  /\ \A i \in 0..Height(b) : At(b, i) \in Block
  /\ \A i \in 1..Height(b) : At(b, i) # Base /\ Parent[At(b, i)] = At(b, i - 1)
  /\ \A a \in Ancestors(b) : Height(a) \in 0..Height(b) /\ At(b, Height(a)) = a

\* Every chain has the facts of LineFacts.
LEMMA Lines == \A b \in Block : LineFacts(b)
<1> DEFINE T == {b \in Block : LineFacts(b)}
<1>1. Base \in Block BY Zenon, ChainstateAssumption
<1>2. LineFacts(Base)
  <2>1. Chain[Base] = <<>> /\ Height(Base) = 0 BY Zenon, ChainDef, HeightDef
  <2>2. Ancestors(Base) = {Base} BY <2>1 DEF Ancestors, Range
  <2> QED BY <1>1, <2>1, <2>2 DEF LineFacts, At
<1>3. ASSUME NEW b \in Block \ {Base}, LineFacts(Parent[b]) PROVE LineFacts(b)
  <2> DEFINE p == Parent[b]
             h == Height(Parent[b])
  <2>1. p \in Block /\ Chain[b] = Append(Chain[p], b) /\ Chain[p] \in Seq(Block) BY Zenon, ChainDef
  <2>2. h \in Nat /\ Height(b) = h + 1 /\ h = Len(Chain[p]) BY Zenon, HeightDef, <2>1 DEF Height
  <2>3. Chain[b][h + 1] = b /\ \A i \in 1..h : Chain[b][i] = Chain[p][i] BY <2>1, <2>2
  <2>4. At(b, h + 1) = b /\ \A i \in 0..h : At(b, i) = At(p, i) BY <2>2, <2>3 DEF At
  <2>5. At(b, h) = p BY <1>3, <2>2, <2>4 DEF LineFacts
  <2>6. ASSUME NEW i \in 1..(h + 1) PROVE At(b, i) # Base /\ Parent[At(b, i)] = At(b, i - 1)
    <3>1. CASE i = h + 1 BY <2>2, <2>4, <2>5, <3>1
    <3>2. CASE i \in 1..h
      <4>1. At(b, i) = At(p, i) /\ At(b, i - 1) = At(p, i - 1) BY <2>2, <2>4, <3>2
      <4> QED BY Zenon, <1>3, <2>2, <3>2, <4>1 DEF LineFacts
    <3> QED BY <2>2, <3>1, <3>2
  <2>7. \A i \in 0..(h + 1) : At(b, i) \in Block
    <3>1. \A i \in 0..h : At(b, i) \in Block BY Zenon, <1>3, <2>2, <2>4 DEF LineFacts
    <3> QED BY <2>2, <2>4, <3>1
  <2>8. Ancestors(b) \subseteq Ancestors(p) \cup {b}
    <3>1. ASSUME NEW i \in 1..(h + 1) PROVE Chain[b][i] = b \/ \E j \in 1..h : Chain[b][i] = Chain[p][j]
      BY SMTT(30), <2>2, <2>3
    <3>2. DOMAIN Chain[b] = 1..(h + 1) /\ DOMAIN Chain[p] = 1..h BY <2>1, <2>2
    <3> QED BY Zenon, <3>1, <3>2 DEF Ancestors, Range
  <2>9. ASSUME NEW a \in Ancestors(b) PROVE Height(a) \in 0..(h + 1) /\ At(b, Height(a)) = a
    <3>1. CASE a = b BY <2>2, <2>4, <3>1
    <3>2. CASE a \in Ancestors(p)
      <4>1. Height(a) \in 0..h /\ At(p, Height(a)) = a BY Zenon, <1>3, <3>2 DEF LineFacts
      <4> QED BY <2>2, <2>4, <4>1
    <3> QED BY Zenon, <2>8, <3>1, <3>2
  <2> QED BY Zenon, <2>2, <2>4, <2>6, <2>7, <2>9 DEF LineFacts
<1>4. Inductive(T, Block, Base, Parent)
  <2> HIDE DEF T
  <2> QED BY Zenon, <1>1, <1>2, <1>3 DEF Inductive, T
<1>5. \A b \in Block : b \in T
  <2> HIDE DEF T
  <2> QED BY Zenon, <1>4, BlockTree, TreeInduction
<1> QED BY Zenon, <1>5

\* What a block does to the unspent outputs.
Applied(u, b) == [o \in Outpoint |-> IF o \in Creates[b] THEN Height(b)
                                      ELSE IF o \in Spends[b] THEN NoCoin ELSE u[o]]

\* The unspent outputs after a block satisfy the equation that defines them.
LEMMA UtxoDef ==
  /\ \A b \in Block : Utxo[b] \in Coins
  /\ \A b \in Block \ {Base} : Utxo[b] = Applied(Utxo[Parent[b]], b)
<1> DEFINE G == [b \in Block \ {Base} |-> [u \in Coins |-> Applied(u, b)]]
           first == [o \in Outpoint |-> IF o \in BaseCoins THEN 0 ELSE NoCoin]
           Eq(f) == f = [b \in Block |-> IF b = Base THEN first ELSE Applied(f[Parent[b]], b)]
<1>0. Base \in Block /\ \A b \in Block \ {Base} : Parent[b] \in Block BY Zenon, ChainstateAssumption
<1>1. first \in Coins BY Zenon DEF Coins
<1>2. \A b \in Block \ {Base}, u \in Coins : Applied(u, b) \in Coins
  <2>1. \A b \in Block : Height(b) \in Nat BY Zenon, HeightDef
  <2> QED BY Zenon, <2>1 DEF Applied, Coins
<1>3. G \in Steps(Block, Base, Coins) BY Zenon, <1>2 DEF Steps
<1>4. PICK f : Solution(f, Block, Base, Parent, Coins, first, G)
  <2> HIDE DEF first, G
  <2> QED BY Zenon, <1>1, <1>3, BlockTree, TreeRecursion
<1>5. Eq(f)
  <2>1. f \in [Block -> Coins] BY Zenon, <1>4 DEF Solution
  <2> HIDE DEF first
  <2>2. ASSUME NEW b \in Block PROVE f[b] = IF b = Base THEN first ELSE Applied(f[Parent[b]], b)
    <3>1. f[b] = IF b = Base THEN first ELSE G[b][f[Parent[b]]] BY Zenon, <1>4 DEF Solution
    <3>2. b # Base => f[Parent[b]] \in Coins BY Zenon, <1>0, <2>1
    <3> QED BY Zenon, <3>1, <3>2
  <2> QED BY Zenon, <2>1, <2>2
<1>6. Utxo = CHOOSE g : Eq(g) BY Zenon DEF Utxo, Applied
<1>7. Eq(Utxo)
  <2> HIDE DEF Eq
  <2> QED BY Zenon, <1>5, <1>6
<1>8. Utxo[Base] = first /\ \A b \in Block \ {Base} : Utxo[b] = Applied(Utxo[Parent[b]], b)
  BY Zenon, <1>0, <1>7
<1> DEFINE T == {b \in Block : Utxo[b] \in Coins}
<1>9. Inductive(T, Block, Base, Parent)
  <2>1. Base \in T BY Zenon, <1>0, <1>1, <1>8
  <2>2. \A b \in Block \ {Base} : Parent[b] \in T => b \in T BY SMTT(30), <1>2, <1>8
  <2> HIDE DEF T
  <2> QED BY Zenon, <2>1, <2>2 DEF Inductive
<1>10. \A b \in Block : b \in T
  <2> HIDE DEF T
  <2> QED BY Zenon, <1>9, BlockTree, TreeInduction
<1> QED BY Zenon, <1>8, <1>10

-----------------------------------------------------------------------------
(* One block on a cache. *)

\* Connecting a block changes what a cache shows as the block says.
LEMMA ApplyBlockShows ==
  ASSUME TypeInv, NEW c \in Caches, NEW b \in Block \ {Base}
  PROVE  /\ ApplyBlock(c, b) \in Caches
         /\ \A o \in Outpoint : Shown(ApplyBlock(c, b))[o] =
              IF o \in Creates[b] THEN Height(b)
              ELSE IF o \in Spends[b] THEN NoCoin ELSE Shown(c)[o]
<1>1. Height(b) \in Nat BY Zenon, HeightDef
<1>2. NoCoin # Clean /\ Clean \notin Nat /\ NoCoin \notin Nat BY Zenon, ChainstateAssumption
<1>3. ASSUME NEW o \in Outpoint
      PROVE  /\ ApplyBlock(c, b)[o] \in Nat \cup {NoCoin, Clean}
             /\ Shown(ApplyBlock(c, b))[o] =
                  IF o \in Creates[b] THEN Height(b)
                  ELSE IF o \in Spends[b] THEN NoCoin ELSE Shown(c)[o]
  BY Zenon, <1>1, <1>2 DEF ApplyBlock, AddCoins, SpendCoins, Shown, TypeInv, Caches, Coins
<1>4. ApplyBlock(c, b) = [o \in Outpoint |-> ApplyBlock(c, b)[o]] BY Zenon DEF ApplyBlock, AddCoins
<1> QED BY Zenon, <1>3, <1>4 DEF Caches

\* Disconnecting a block brings back what it spent and removes what it created.
LEMMA DisconnectBlockShows ==
  ASSUME TypeInv, NEW c \in Caches, NEW b \in Block \ {Base}
  PROVE  /\ DisconnectBlock(c, b) \in Caches
         /\ \A o \in Outpoint : Shown(DisconnectBlock(c, b))[o] =
              IF o \in Spends[b] THEN Utxo[Parent[b]][o]
              ELSE IF o \in Creates[b] THEN NoCoin ELSE Shown(c)[o]
<1>1. Utxo[Parent[b]] \in Coins BY Zenon, UtxoDef, HeightDef
<1>2. NoCoin # Clean /\ Clean \notin Nat /\ NoCoin \notin Nat BY Zenon, ChainstateAssumption
<1>3. ASSUME NEW o \in Outpoint
      PROVE  /\ DisconnectBlock(c, b)[o] \in Nat \cup {NoCoin, Clean}
             /\ Shown(DisconnectBlock(c, b))[o] =
                  IF o \in Spends[b] THEN Utxo[Parent[b]][o]
                  ELSE IF o \in Creates[b] THEN NoCoin ELSE Shown(c)[o]
  BY Zenon, <1>1, <1>2 DEF DisconnectBlock, AddCoins, SpendCoins, Shown, TypeInv, Caches, Coins
<1>4. DisconnectBlock(c, b) = [o \in Outpoint |-> DisconnectBlock(c, b)[o]]
  BY Zenon DEF DisconnectBlock, AddCoins
<1> QED BY Zenon, <1>3, <1>4 DEF Caches

-----------------------------------------------------------------------------
(* Several blocks on a cache. *)

\* RollForward is one ApplyBlock after the other.
LEMMA RollForwardSteps ==
  ASSUME TypeInv, NEW c \in Caches, NEW s \in Seq(Block \ {Base})
  PROVE  \E g \in [0..Len(s) -> Caches] :
           /\ g[0] = c /\ RollForward(c, s) = g[Len(s)]
           /\ \A i \in 1..Len(s) : g[i] = ApplyBlock(g[i - 1], s[i])
<1> DEFINE n == Len(s)
           G == [i \in 1..n |-> [x \in Caches |-> ApplyBlock(x, s[i])]]
           Eq(h) == h = [i \in 0..Len(s) |->
                           IF i = 0 THEN c ELSE ApplyBlock(h[i - 1], s[i])]
<1>1. n \in Nat /\ \A i \in 1..n : s[i] \in Block \ {Base} OBVIOUS
<1>2. \A i \in 1..n, x \in Caches : ApplyBlock(x, s[i]) \in Caches BY Zenon, <1>1, ApplyBlockShows
<1>3. G \in RangeSteps(n, Caches) BY Zenon, <1>2 DEF RangeSteps
<1>4. PICK f : RangeSolution(f, n, Caches, c, G)
  <2> HIDE DEF G, n
  <2> QED BY Zenon, <1>1, <1>3, RangeRecursion
<1>5. Eq(f)
  <2>1. f \in [0..n -> Caches] BY Zenon, <1>4 DEF RangeSolution
  <2>2. ASSUME NEW i \in 0..n
        PROVE  f[i] = IF i = 0 THEN c ELSE ApplyBlock(f[i - 1], s[i])
    <3>1. f[i] = IF i = 0 THEN c ELSE G[i][f[i - 1]] BY Zenon, <1>4 DEF RangeSolution
    <3>2. i # 0 => i \in 1..n /\ f[i - 1] \in Caches BY <1>1, <2>1
    <3>3. i # 0 => G[i][f[i - 1]] = ApplyBlock(f[i - 1], s[i]) BY Zenon, <3>2
    <3> QED BY Zenon, <3>1, <3>3
  <2> QED BY Zenon, <2>1, <2>2
<1> DEFINE g == CHOOSE x : Eq(x)
<1>6. RollForward(c, s) = g[Len(s)] BY Zenon DEF RollForward
<1>7. Eq(g)
  <2> HIDE DEF Eq
  <2> QED BY Zenon, <1>5
<1> HIDE DEF g
<1>8. g[0] = c /\ \A i \in 1..n : g[i] = ApplyBlock(g[i - 1], s[i]) BY <1>1, <1>7
<1>9. g \in [0..n -> Caches]
  <2> DEFINE T == {i \in 0..n : g[i] \in Caches}
  <2>1. 0 \in T BY <1>1, <1>8
  <2>2. ASSUME NEW i \in 1..n, i - 1 \in T PROVE i \in T
    <3>1. g[i - 1] \in Caches BY Zenon, <2>2
    <3>2. ApplyBlock(g[i - 1], s[i]) \in Caches BY Zenon, <1>2, <3>1
    <3> QED BY <1>1, <1>8, <3>2
  <2> HIDE DEF T
  <2>3. \A i \in 0..n : i \in T BY ZenonT(30), <1>1, <2>1, <2>2, RangeInduction
  <2>4. \A i \in 0..n : g[i] \in Caches BY Zenon, <2>3 DEF T
  <2> QED BY Zenon, <1>7, <2>4
<1> QED BY Zenon, <1>6, <1>8, <1>9

\* RollBack is one DisconnectBlock after the other, last block first.
LEMMA RollBackSteps ==
  ASSUME TypeInv, NEW c \in Caches, NEW s \in Seq(Block \ {Base})
  PROVE  \E g \in [0..Len(s) -> Caches] :
           /\ g[0] = c /\ RollBack(c, s) = g[Len(s)]
           /\ \A i \in 1..Len(s) : g[i] = DisconnectBlock(g[i - 1], s[Len(s) - i + 1])
<1> DEFINE n == Len(s)
           G == [i \in 1..n |-> [x \in Caches |-> DisconnectBlock(x, s[Len(s) - i + 1])]]
           Eq(h) == h = [i \in 0..Len(s) |->
                           IF i = 0 THEN c ELSE DisconnectBlock(h[i - 1], s[Len(s) - i + 1])]
<1>1. n \in Nat /\ \A i \in 1..n : s[Len(s) - i + 1] \in Block \ {Base} OBVIOUS
<1>2. \A i \in 1..n, x \in Caches : DisconnectBlock(x, s[Len(s) - i + 1]) \in Caches
  BY Zenon, <1>1, DisconnectBlockShows
<1>3. G \in RangeSteps(n, Caches) BY Zenon, <1>2 DEF RangeSteps
<1>4. PICK f : RangeSolution(f, n, Caches, c, G)
  <2> HIDE DEF G, n
  <2> QED BY Zenon, <1>1, <1>3, RangeRecursion
<1>5. Eq(f)
  <2>1. f \in [0..n -> Caches] BY Zenon, <1>4 DEF RangeSolution
  <2>2. ASSUME NEW i \in 0..n
        PROVE  f[i] = IF i = 0 THEN c ELSE DisconnectBlock(f[i - 1], s[Len(s) - i + 1])
    <3>1. f[i] = IF i = 0 THEN c ELSE G[i][f[i - 1]] BY Zenon, <1>4 DEF RangeSolution
    <3>2. i # 0 => i \in 1..n /\ f[i - 1] \in Caches BY <1>1, <2>1
    <3>3. i # 0 => G[i][f[i - 1]] = DisconnectBlock(f[i - 1], s[Len(s) - i + 1]) BY Zenon, <3>2
    <3> QED BY Zenon, <3>1, <3>3
  <2> QED BY Zenon, <2>1, <2>2
<1> DEFINE g == CHOOSE x : Eq(x)
<1>6. RollBack(c, s) = g[Len(s)] BY Zenon DEF RollBack
<1>7. Eq(g)
  <2> HIDE DEF Eq
  <2> QED BY Zenon, <1>5
<1> HIDE DEF g
<1>8. g[0] = c /\ \A i \in 1..n : g[i] = DisconnectBlock(g[i - 1], s[Len(s) - i + 1]) BY <1>1, <1>7
<1>9. g \in [0..n -> Caches]
  <2> DEFINE T == {i \in 0..n : g[i] \in Caches}
  <2>1. 0 \in T BY <1>1, <1>8
  <2>2. ASSUME NEW i \in 1..n, i - 1 \in T PROVE i \in T
    <3>1. g[i - 1] \in Caches BY Zenon, <2>2
    <3>2. DisconnectBlock(g[i - 1], s[Len(s) - i + 1]) \in Caches BY Zenon, <1>2, <3>1
    <3> QED BY <1>1, <1>8, <3>2
  <2> HIDE DEF T
  <2>3. \A i \in 0..n : i \in T BY ZenonT(30), <1>1, <2>1, <2>2, RangeInduction
  <2>4. \A i \in 0..n : g[i] \in Caches BY Zenon, <2>3 DEF T
  <2> QED BY Zenon, <1>7, <2>4
<1> QED BY Zenon, <1>6, <1>8, <1>9

\* The cache c, made from nothing while the database is between old and another block, shows
\* every output as it is after x, except that an output no block touched so far is shown
\* as it is on disk.
Tracks(c, x, old) ==
  \A o \in Outpoint : \/ Shown(c)[o] = Utxo[x][o]
                      \/ Shown(c)[o] = dbCoins[o] /\ Utxo[x][o] = Utxo[old][o]

\* Disconnecting a block goes on to its parent.  That no block creates an output which is
\* unspent is needed here: the undo data does not hold what such an output was before.
LEMMA BackStep ==
  ASSUME TypeInv, NEW c \in Caches, NEW b \in Block \ {Base}, NEW old, Tracks(c, b, old)
  PROVE  Tracks(DisconnectBlock(c, b), Parent[b], old)
<1>1. ASSUME NEW o \in Outpoint
      PROVE  \/ Shown(DisconnectBlock(c, b))[o] = Utxo[Parent[b]][o]
             \/ Shown(DisconnectBlock(c, b))[o] = dbCoins[o] /\ Utxo[Parent[b]][o] = Utxo[old][o]
  <2>1. Shown(DisconnectBlock(c, b))[o] = IF o \in Spends[b] THEN Utxo[Parent[b]][o]
          ELSE IF o \in Creates[b] THEN NoCoin ELSE Shown(c)[o]
    BY Zenon, DisconnectBlockShows
  <2>2. o \in Creates[b] => Utxo[Parent[b]][o] = NoCoin BY Zenon, UniqueOutputs
  <2>3. o \notin Creates[b] /\ o \notin Spends[b] => Utxo[b][o] = Utxo[Parent[b]][o]
    BY ZenonT(30), UtxoDef DEF Applied
  <2> QED BY Zenon, <2>1, <2>2, <2>3 DEF Tracks
<1> QED BY Zenon, <1>1 DEF Tracks

\* Applying a block goes on from its parent to the block.
LEMMA ForwardStep ==
  ASSUME TypeInv, NEW c \in Caches, NEW b \in Block \ {Base}, NEW old, Tracks(c, Parent[b], old)
  PROVE  Tracks(ApplyBlock(c, b), b, old)
<1>1. ASSUME NEW o \in Outpoint
      PROVE  \/ Shown(ApplyBlock(c, b))[o] = Utxo[b][o]
             \/ Shown(ApplyBlock(c, b))[o] = dbCoins[o] /\ Utxo[b][o] = Utxo[old][o]
  <2>1. Shown(ApplyBlock(c, b))[o] = IF o \in Creates[b] THEN Height(b)
          ELSE IF o \in Spends[b] THEN NoCoin ELSE Shown(c)[o]
    BY Zenon, ApplyBlockShows
  <2>2. Utxo[b][o] = IF o \in Creates[b] THEN Height(b)
          ELSE IF o \in Spends[b] THEN NoCoin ELSE Utxo[Parent[b]][o]
    BY ZenonT(30), UtxoDef DEF Applied
  <2> QED BY Zenon, <2>1, <2>2 DEF Tracks
<1> QED BY Zenon, <1>1 DEF Tracks

\* The blocks between two heights of a chain.
LEMMA PathFacts ==
  ASSUME NEW b \in Block, NEW a \in Ancestors(b)
  PROVE  /\ Path(a, b) \in Seq(Block \ {Base}) /\ Height(a) \in 0..Height(b) /\ Height(b) \in Nat
         /\ Len(Path(a, b)) = Height(b) - Height(a)
         /\ \A i \in 1..(Height(b) - Height(a)) : Path(a, b)[i] = At(b, Height(a) + i)
<1>1. Chain[b] \in Seq(Block) /\ Height(b) = Len(Chain[b]) BY Zenon, ChainDef DEF Height
<1>2. LineFacts(b) BY Zenon, Lines
<1>3. Height(b) \in Nat /\ Height(a) \in 0..Height(b) BY Zenon, <1>2, HeightDef DEF LineFacts
<1> DEFINE m == Height(a) + 1
           n == Height(b)
           s == Path(a, b)
<1>4. \A i \in 1..n : Chain[b][i] \in Block \ {Base}
  BY <1>1, <1>2, <1>3 DEF LineFacts, At
<1>5. s = [i \in 1..(n - Height(a)) |-> Chain[b][Height(a) + i]]
  BY SMTT(30), <1>1, <1>3 DEF Path
<1>6. \A i \in 1..(n - Height(a)) : s[i] = Chain[b][Height(a) + i] /\ Height(a) + i \in 1..n
  BY <1>3, <1>5
<1>7. s \in Seq(Block \ {Base}) /\ Len(s) = n - Height(a)
  <2>1. n - Height(a) \in Nat BY <1>3
  <2>2. s \in [1..(n - Height(a)) -> Block \ {Base}] BY Zenon, <1>4, <1>5, <1>6
  <2> HIDE DEF s
  <2> QED BY <1>5, <2>1, <2>2
<1> HIDE DEF s
<1> QED BY <1>3, <1>6, <1>7 DEF s, At

\* Rolling back from old to an ancestor keeps track of the blocks passed.
LEMMA RollBackTracks ==
  ASSUME TypeInv, NEW old \in Block, NEW fork \in Ancestors(old)
  PROVE  /\ RollBack(NoChanges, Path(fork, old)) \in Caches
         /\ Tracks(RollBack(NoChanges, Path(fork, old)), fork, old)
<1> DEFINE m == Height(fork)
           n == Height(old) - Height(fork)
           p == Path(fork, old)
<1>1. /\ p \in Seq(Block \ {Base}) /\ m \in 0..Height(old) /\ Height(old) \in Nat
      /\ Len(p) = n /\ n \in Nat /\ \A i \in 1..n : p[i] = At(old, m + i)
  BY PathFacts
<1>2. LineFacts(old) BY Zenon, Lines
<1> HIDE DEF p, m, n
<1>3. \A i \in 1..n : /\ p[n - i + 1] = At(old, m + (n - i) + 1)
                      /\ p[n - i + 1] \in Block \ {Base}
  <2>1. \A i \in 1..n : n - i + 1 \in 1..n /\ m + (n - i + 1) = m + (n - i) + 1 BY <1>1
  <2>2. \A i \in 1..n : p[n - i + 1] = At(old, m + (n - i + 1)) BY Zenon, <1>1, <2>1
  <2>3. \A i \in 1..n : p[n - i + 1] \in Block \ {Base} BY <1>1, <2>1
  <2> QED BY Zenon, <2>1, <2>2, <2>3
<1>4. NoChanges \in Caches BY Zenon DEF NoChanges, Caches
<1>5. PICK g \in [0..n -> Caches] :
        /\ g[0] = NoChanges /\ RollBack(NoChanges, p) = g[n]
        /\ \A i \in 1..n : g[i] = DisconnectBlock(g[i - 1], p[n - i + 1])
  <2>1. \E g \in [0..Len(p) -> Caches] :
          /\ g[0] = NoChanges /\ RollBack(NoChanges, p) = g[Len(p)]
          /\ \A i \in 1..Len(p) : g[i] = DisconnectBlock(g[i - 1], p[Len(p) - i + 1])
    BY Zenon, <1>1, <1>4, RollBackSteps
  <2> QED BY Zenon, <1>1, <2>1
<1> DEFINE T == {i \in 0..n : Tracks(g[i], At(old, m + (n - i)), old)}
<1>6. m + n = Height(old) BY <1>1 DEF m, n
<1>7. 0 \in T
  <2>1. At(old, m + (n - 0)) = old
    <3>1. m + (n - 0) = Height(old) BY <1>1, <1>6
    <3> QED BY Zenon, <1>2, <3>1 DEF LineFacts
  <2>2. Tracks(NoChanges, old, old) BY Zenon DEF Tracks, NoChanges, Shown
  <2> QED BY <1>1, <1>5, <2>1, <2>2
<1>8. ASSUME NEW i \in 1..n, i - 1 \in T PROVE i \in T
  <2> DEFINE b == At(old, m + (n - (i - 1)))
  <2>1. /\ m + (n - (i - 1)) = m + (n - i) + 1 /\ m + (n - i) + 1 \in 1..Height(old)
        /\ (m + (n - i) + 1) - 1 = m + (n - i) /\ i - 1 \in 0..n
    BY <1>1, <1>6
  <2>2. p[n - i + 1] = b BY Zenon, <1>3, <2>1
  <2>3. b \in Block \ {Base} BY Zenon, <1>3, <2>2
  <2>4. Parent[b] = At(old, m + (n - i))
    <3> DEFINE k == m + (n - i) + 1
    <3>1. k \in 1..Height(old) /\ k - 1 = m + (n - i) /\ b = At(old, k) BY Zenon, <2>1
    <3> HIDE DEF k
    <3> QED BY Zenon, <1>2, <3>1 DEF LineFacts
  <2>5. Tracks(g[i - 1], b, old) BY Zenon, <1>8
  <2>6. g[i - 1] \in Caches BY Zenon, <1>5, <2>1
  <2> HIDE DEF b
  <2>7. Tracks(DisconnectBlock(g[i - 1], b), Parent[b], old) BY Zenon, <2>3, <2>5, <2>6, BackStep
  <2> QED BY <1>5, <2>2, <2>4, <2>7
<1>9. n \in T
  <2> HIDE DEF T
  <2>1. \A i \in 0..n : i \in T BY Zenon, <1>1, <1>7, <1>8, RangeInduction
  <2>2. n \in 0..n BY <1>1
  <2> QED BY Zenon, <2>1, <2>2
<1>10. At(old, m + (n - n)) = fork
  <2>1. m + (n - n) = Height(fork) BY <1>1 DEF m
  <2> QED BY Zenon, <1>2, <2>1 DEF LineFacts
<1>11. g[n] \in Caches BY <1>1, <1>5
<1> QED BY Zenon, <1>5, <1>9, <1>10, <1>11 DEF p

\* Rolling forward from an ancestor of new keeps track of the blocks passed.
LEMMA RollForwardTracks ==
  ASSUME TypeInv, NEW new \in Block, NEW fork \in Ancestors(new), NEW old,
         NEW c \in Caches, Tracks(c, fork, old)
  PROVE  /\ RollForward(c, Path(fork, new)) \in Caches
         /\ Tracks(RollForward(c, Path(fork, new)), new, old)
<1> DEFINE m == Height(fork)
           n == Height(new) - Height(fork)
           s == Path(fork, new)
<1>1. /\ s \in Seq(Block \ {Base}) /\ m \in 0..Height(new) /\ Height(new) \in Nat
      /\ Len(s) = n /\ n \in Nat /\ \A i \in 1..n : s[i] = At(new, m + i)
  BY PathFacts
<1>2. LineFacts(new) BY Zenon, Lines
<1>3. m + n = Height(new) BY <1>1
<1> HIDE DEF s, n
<1>4. PICK g \in [0..n -> Caches] :
        /\ g[0] = c /\ RollForward(c, s) = g[n]
        /\ \A i \in 1..n : g[i] = ApplyBlock(g[i - 1], s[i])
  BY ZenonT(30), <1>1, RollForwardSteps
<1> DEFINE T == {i \in 0..n : Tracks(g[i], At(new, m + i), old)}
<1>5. 0 \in T
  <2>1. At(new, m + 0) = fork
    <3>1. m + 0 = Height(fork) BY <1>1
    <3> QED BY Zenon, <1>2, <3>1 DEF LineFacts
  <2> QED BY <1>1, <1>4, <2>1
<1> HIDE DEF m
<1>6. ASSUME NEW i \in 1..n, i - 1 \in T PROVE i \in T
  <2> DEFINE b == At(new, m + i)
  <2>1. m + i \in 1..Height(new) /\ (m + i) - 1 = m + (i - 1) /\ i - 1 \in 0..n BY <1>1, <1>3
  <2>2. s[i] = b /\ s[i] \in Block \ {Base} BY <1>1
  <2>3. Parent[b] = At(new, m + (i - 1)) BY Zenon, <1>2, <2>1 DEF LineFacts
  <2>4. Tracks(g[i - 1], Parent[b], old) BY Zenon, <1>6, <2>3
  <2>5. g[i - 1] \in Caches BY Zenon, <1>4, <2>1
  <2>6. Tracks(ApplyBlock(g[i - 1], b), b, old)
    <3> HIDE DEF b
    <3> QED BY Zenon, <2>2, <2>4, <2>5, ForwardStep
  <2> QED BY <1>4, <2>2, <2>6
<1>7. n \in T
  <2> HIDE DEF T
  <2>1. \A i \in 0..n : i \in T BY Zenon, <1>1, <1>5, <1>6, RangeInduction
  <2>2. n \in 0..n BY <1>1
  <2> QED BY Zenon, <2>1, <2>2
<1>8. At(new, m + n) = new BY Zenon, <1>2, <1>3 DEF LineFacts
<1>9. g[n] \in Caches BY <1>1, <1>4
<1> QED BY Zenon, <1>4, <1>7, <1>8, <1>9 DEF s

\* Two blocks have a last common ancestor.
LEMMA CommonAncestor ==
  ASSUME NEW a \in Block, NEW b \in Block
  PROVE  LastCommonAncestor(a, b) \in Ancestors(a) \cap Ancestors(b)
<1> DEFINE C == Ancestors(a) \cap Ancestors(b)
           H == {Height(d) : d \in C}
<1>1. Base \in C BY Zenon DEF Ancestors
<1>2. Height(a) \in Nat /\ \A d \in C : Height(d) \in 0..Height(a)
  BY Zenon, Lines, HeightDef DEF LineFacts
<1>3. H \subseteq 0..Height(a) /\ H # {} BY Zenon, <1>1, <1>2
<1>4. PICK h \in H : \A k \in H : k <= h
  <2> HIDE DEF H
  <2> QED BY Zenon, <1>2, <1>3, GreatestExists
<1>5. PICK c \in C : h = Height(c) BY Zenon, <1>4
<1>6. \A d \in C : Height(d) <= Height(c) BY Zenon, <1>4, <1>5
<1>7. LastCommonAncestor(a, b) = CHOOSE x \in C : \A d \in C : Height(d) <= Height(x)
  BY Zenon DEF LastCommonAncestor
<1> HIDE DEF C
<1>8. LastCommonAncestor(a, b) \in C BY Zenon, <1>5, <1>6, <1>7
<1> QED BY Zenon, <1>8 DEF C

\* ReplayBlocks: when every coin on disk is the one of the old or the new block, going back
\* from the old one and forward to the new one gives the unspent outputs of the new one.
LEMMA ReplayShows ==
  ASSUME TypeInv, NEW old \in Block, NEW new \in Block,
         NEW fork \in Ancestors(old) \cap Ancestors(new)
  PROVE  LET c == RollForward(RollBack(NoChanges, Path(fork, old)), Path(fork, new))
         IN /\ c \in Caches
            /\ (\A o \in Outpoint : dbCoins[o] \in {Utxo[new][o], Utxo[old][o]})
                 => Shown(c) = Utxo[new]
<1> DEFINE back == RollBack(NoChanges, Path(fork, old))
           c == RollForward(back, Path(fork, new))
<1>1. back \in Caches /\ Tracks(back, fork, old) BY Zenon, RollBackTracks
<1> HIDE DEF back
<1>2. c \in Caches /\ Tracks(c, new, old) BY Zenon, <1>1, RollForwardTracks
<1>3. ASSUME \A o \in Outpoint : dbCoins[o] \in {Utxo[new][o], Utxo[old][o]}
      PROVE  Shown(c) = Utxo[new]
  <2> HIDE DEF c
  <2>1. \A o \in Outpoint : Shown(c)[o] = Utxo[new][o] BY Zenon, <1>2, <1>3 DEF Tracks
  <2>2. Utxo[new] = [o \in Outpoint |-> Utxo[new][o]] BY Zenon, UtxoDef DEF Coins
  <2>3. Shown(c) = [o \in Outpoint |-> Shown(c)[o]] BY Zenon DEF Shown
  <2> QED BY Zenon, <2>1, <2>2, <2>3
<1> QED BY Zenon, <1>2, <1>3 DEF back

-----------------------------------------------------------------------------
(* The inductive invariant, action by action. *)

USE DEF Running, Requested

\* A cache without modified entries shows the database.
LEMMA NoChangesShow ==
  ASSUME dbCoins \in Coins
  PROVE  NoChanges \in Caches /\ Shown(NoChanges) = dbCoins
  BY Zenon DEF NoChanges, Shown, Coins, Caches

\* What the assumption says of Base, and of the parents of the other blocks.
LEMMA BaseFacts ==
  /\ Base \in Block /\ Null \notin Block /\ Utxo[Base] \in Coins
  /\ \A b \in Block \ {Base} : Parent[b] \in Block
  BY Zenon, ChainstateAssumption, UtxoDef

\* The first start satisfies the inductive invariant.
LEMMA InitInv == Init => IInv
<1> SUFFICES ASSUME Init PROVE IInv BY Zenon
<1>1. NoChanges \in Caches /\ Shown(NoChanges) = dbCoins BY Zenon, BaseFacts, NoChangesShow DEF Init
<1>2. TypeInv /\ Marked BY BaseFacts, <1>1 DEF Init, TypeInv, Marked
<1>3. IndexStanding /\ Standing BY Zenon, BaseFacts DEF Init, IndexStanding, Rooted, Standing
<1>4. EvoStanding /\ ReplayCanFinish
  BY Zenon, BaseFacts DEF Init, EvoStanding, EvoPending, EvoBest, ReplayCanFinish
<1>5. CoinInv
  BY Zenon, BaseFacts, <1>1 DEF Init, CoinInv, CoinsMatchBestBlock, CoinsBetweenHeads, CacheMatchesTip
<1> QED BY Zenon, <1>2, <1>3, <1>4, <1>5 DEF IInv, ControlInv

\* The database and the cache stay as they are: so does what is said about the coins, if no
\* mode is entered in which the cache has to match the tip.
LEMMA CoinsUnchanged ==
  ASSUME CoinInv, UNCHANGED <<dbCoins, dbBest, dbHeads, cache, tip, lostCoins>>,
         "coins" \in spoiled => "coins" \in spoiled',
         mode' \in {"up", "flush", "evo", "replay"} => mode \in {"up", "flush", "evo", "replay"}
  PROVE  CoinInv'
  BY Zenon DEF CoinInv, CoinsMatchBestBlock, CoinsBetweenHeads, CacheMatchesTip, Shown

\* AcceptBlock only extends mapBlockIndex.
LEMMA AcceptBlockInv ==
  ASSUME IInv, NEW b \in Block \ {Base}, AcceptBlock(b)
  PROVE  IInv'
<1>1. /\ mode = "up" /\ Parent[b] \in index /\ index' = index \cup {b}
      /\ UNCHANGED <<dbCoins, dbBest, dbHeads, evoDisk, diskIndex, spoiled, mode, flushesLeft,
                     tip, cache, evoRoot, evoBatch, lostCoins>>
  BY Zenon DEF AcceptBlock, disk
<1>2. TypeInv' /\ Marked' BY Zenon, <1>1 DEF IInv, ControlInv, TypeInv, Marked
<1>3. IndexStanding' BY Zenon, <1>1 DEF IInv, ControlInv, IndexStanding, Rooted
<1>4. Standing' /\ EvoStanding' /\ ReplayCanFinish'
  BY Zenon, <1>1 DEF IInv, ControlInv, Standing, EvoStanding, EvoPending, EvoBest, ReplayCanFinish
<1>5. CoinInv' BY Zenon, <1>1, CoinsUnchanged DEF IInv
<1> QED BY Zenon, <1>2, <1>3, <1>4, <1>5 DEF IInv, ControlInv

\* A step in mode "up" that changes only how many flushes are to come and which entries of the
\* block index are known to be dirty.
LEMMA OnlyFlushesLeft ==
  ASSUME IInv, mode = "up", flushesLeft' \in 0..Running,
         UNCHANGED <<dbCoins, dbBest, dbHeads, evoDisk, diskIndex, spoiled, mode, tip, cache,
                     evoRoot, evoBatch, index, lostCoins>>
  PROVE  IInv'
<1>1. TypeInv' /\ Marked' BY Zenon DEF IInv, ControlInv, TypeInv, Marked
<1>2. IndexStanding' BY Zenon DEF IInv, ControlInv, IndexStanding
<1>3. Standing' /\ EvoStanding' /\ ReplayCanFinish'
  BY Zenon DEF IInv, ControlInv, Standing, EvoStanding, EvoPending, EvoBest, ReplayCanFinish
<1>4. CoinInv' BY Zenon, CoinsUnchanged DEF IInv
<1> QED BY Zenon, <1>1, <1>2, <1>3, <1>4 DEF IInv, ControlInv

\* The values of flushesLeft after AbortNode and after a flush.
LEMMA FlushesLeft ==
  ASSUME TypeInv
  PROVE  /\ AfterAbort(flushesLeft) \in 0..Running
         /\ flushesLeft # 0 => AfterFlush \in 0..Running /\ AfterAbort(AfterFlush) \in 0..Running
  BY DEF TypeInv, AfterAbort, AfterFlush, Working

\* AbortNode only requests the shutdown.
LEMMA AbortInv ==
  ASSUME IInv, mode = "up", AbortNode
  PROVE  IInv'
<1>1. flushesLeft' \in 0..Running BY Zenon, FlushesLeft DEF IInv, ControlInv, AbortNode
<1> QED BY Zenon, <1>1, OnlyFlushesLeft DEF AbortNode, disk, memory

\* ConnectTip moves the coins and the EvoDB to the child, or aborts, or rejects the block.
LEMMA ConnectTipInv ==
  ASSUME IInv, NEW b \in Block \ {Base}, ConnectTip(b)
  PROVE  IInv'
<1>1. CASE EvoBest # tip BY ZenonT(30), <1>1, AbortInv DEF ConnectTip
<1>2. CASE EvoBest = tip /\ ~HaveInputs(cache, b)
  <2>1. mode = "up" /\ InvalidBlockFound(b) BY Zenon, <1>2 DEF ConnectTip
  <2>2. flushesLeft' \in 0..Running BY Zenon, <2>1 DEF IInv, ControlInv, TypeInv, InvalidBlockFound
  <2> QED BY Zenon, <2>1, <2>2, OnlyFlushesLeft DEF InvalidBlockFound, disk
<1>3. CASE EvoBest = tip /\ HaveInputs(cache, b)
  <2>1. /\ mode = "up" /\ b \in index /\ Parent[b] = tip
        /\ cache' = ApplyBlock(cache, b) /\ tip' = b /\ evoRoot' = b
        /\ UNCHANGED <<dbCoins, dbBest, dbHeads, evoDisk, diskIndex, spoiled, mode, flushesLeft,
                       evoBatch, index, lostCoins>>
    BY Zenon, <1>3 DEF ConnectTip, disk
  <2>2. TypeInv /\ cache \in Caches BY Zenon DEF IInv, ControlInv, TypeInv
  <2>3. /\ cache' \in Caches
        /\ \A o \in Outpoint : Shown(ApplyBlock(cache, b))[o] =
             IF o \in Creates[b] THEN Height(b)
             ELSE IF o \in Spends[b] THEN NoCoin ELSE Shown(cache)[o]
    BY Zenon, <2>1, <2>2, ApplyBlockShows
  <2>4. b # Null BY Zenon, BaseFacts
  <2>5. TypeInv' /\ Marked' BY Zenon, <2>1, <2>3 DEF IInv, ControlInv, TypeInv, Marked
  <2>6. IndexStanding' /\ Standing' BY Zenon, <2>1 DEF IInv, ControlInv, IndexStanding, Standing
  <2>7. EvoStanding' /\ ReplayCanFinish'
    BY Zenon, <1>3, <2>1, <2>4
    DEF IInv, ControlInv, EvoStanding, EvoPending, EvoBest, ReplayCanFinish
  <2>8. ASSUME "coins" \notin spoiled, ~lostCoins PROVE Shown(cache)' = Utxo[b]
    <3>1. Shown(cache)' = Shown(ApplyBlock(cache, b)) BY Zenon, <2>1 DEF Shown
    <3>2. Shown(cache) = Utxo[Parent[b]] BY Zenon, <2>1, <2>8 DEF IInv, CoinInv, CacheMatchesTip
    <3>3. Utxo[b] = Applied(Utxo[Parent[b]], b) BY Zenon, UtxoDef
    <3>4. Shown(ApplyBlock(cache, b)) = [o \in Outpoint |-> Shown(ApplyBlock(cache, b))[o]]
      BY Zenon DEF Shown
    <3> QED BY SMTT(30), <2>3, <3>1, <3>2, <3>3, <3>4 DEF Applied
  <2>9. CoinInv'
    BY Zenon, <2>1, <2>8 DEF IInv, CoinInv, CoinsMatchBestBlock, CoinsBetweenHeads, CacheMatchesTip
  <2> QED BY Zenon, <2>5, <2>6, <2>7, <2>9 DEF IInv, ControlInv
<1> QED BY Zenon, <1>1, <1>2, <1>3

\* DisconnectTip moves both to the parent, or aborts; it undoes exactly what b did because
\* no output of b was unspent before it.
LEMMA DisconnectTipInv ==
  ASSUME IInv, DisconnectTip
  PROVE  IInv'
<1>1. CASE EvoBest # tip \/ ~DisconnectsCleanly(cache, tip)
  BY Zenon, <1>1, AbortInv DEF DisconnectTip
<1>2. CASE EvoBest = tip /\ DisconnectsCleanly(cache, tip)
  <2> DEFINE b == tip
  <2>1. /\ mode = "up" /\ tip # Base
        /\ cache' = DisconnectBlock(cache, tip) /\ tip' = Parent[tip] /\ evoRoot' = Parent[tip]
        /\ UNCHANGED <<dbCoins, dbBest, dbHeads, evoDisk, diskIndex, spoiled, mode, flushesLeft,
                       evoBatch, index, lostCoins>>
    BY Zenon, <1>2 DEF DisconnectTip, disk
  <2>2. TypeInv /\ cache \in Caches /\ b \in Block \ {Base} BY Zenon, <2>1 DEF IInv, ControlInv, TypeInv
  <2>3. /\ cache' \in Caches
        /\ \A o \in Outpoint : Shown(DisconnectBlock(cache, b))[o] =
             IF o \in Spends[b] THEN Utxo[Parent[b]][o]
             ELSE IF o \in Creates[b] THEN NoCoin ELSE Shown(cache)[o]
    BY Zenon, <2>1, <2>2, DisconnectBlockShows
  <2>4. Parent[b] \in Block /\ Parent[b] # Null BY Zenon, <2>2, BaseFacts
  <2>5. TypeInv' /\ Marked' BY Zenon, <2>1, <2>3, <2>4 DEF IInv, ControlInv, TypeInv, Marked
  <2>6. IndexStanding' /\ Standing'
    BY Zenon, <2>1, <2>2 DEF IInv, ControlInv, IndexStanding, Rooted, Standing
  <2>7. EvoStanding' /\ ReplayCanFinish'
    BY Zenon, <1>2, <2>1, <2>4
    DEF IInv, ControlInv, EvoStanding, EvoPending, EvoBest, ReplayCanFinish
  <2>8. ASSUME "coins" \notin spoiled, ~lostCoins PROVE Shown(cache)' = Utxo[Parent[b]]
    <3>1. Shown(cache)' = Shown(DisconnectBlock(cache, b)) BY Zenon, <2>1 DEF Shown
    <3>2. Shown(cache) = Utxo[b] BY Zenon, <2>1, <2>8 DEF IInv, CoinInv, CacheMatchesTip
    <3>3. ASSUME NEW o \in Outpoint PROVE Shown(DisconnectBlock(cache, b))[o] = Utxo[Parent[b]][o]
      <4>1. o \in Creates[b] => Utxo[Parent[b]][o] = NoCoin BY Zenon, <2>2, UniqueOutputs
      <4>2. o \notin Creates[b] /\ o \notin Spends[b] => Utxo[b][o] = Utxo[Parent[b]][o]
        BY ZenonT(30), <2>2, UtxoDef DEF Applied
      <4> QED BY <2>3, <3>2, <4>1, <4>2
    <3>4. Shown(DisconnectBlock(cache, b)) = [o \in Outpoint |-> Shown(DisconnectBlock(cache, b))[o]]
      BY Zenon DEF Shown
    <3>5. Utxo[Parent[b]] = [o \in Outpoint |-> Utxo[Parent[b]][o]] BY Zenon, <2>4, UtxoDef DEF Coins
    <3> QED BY Zenon, <3>1, <3>3, <3>4, <3>5
  <2>9. CoinInv'
    BY Zenon, <2>1, <2>8 DEF IInv, CoinInv, CoinsMatchBestBlock, CoinsBetweenHeads, CacheMatchesTip
  <2> QED BY Zenon, <2>5, <2>6, <2>7, <2>9 DEF IInv, ControlInv
<1> QED BY Zenon, <1>1, <1>2

\* A write of the dirty block index stays within mapBlockIndex, and completes the index on disk
\* unless entries were lost.
LEMMA DirtyIndexWritten ==
  ASSUME IInv, mode = "up", WriteDirtyBlockIndex
  PROVE  /\ diskIndex \subseteq diskIndex' /\ diskIndex' \subseteq index
         /\ "index" \notin spoiled' => "index" \notin spoiled /\ diskIndex' = index
         /\ "coins" \in spoiled => "coins" \in spoiled'
<1>1. diskIndex \subseteq index BY Zenon DEF IInv, ControlInv, IndexStanding
<1>2. CASE lostIndex = {} BY <1>1, <1>2 DEF WriteDirtyBlockIndex
<1>3. CASE lostIndex # {} BY <1>1, <1>3 DEF WriteDirtyBlockIndex
<1> QED BY Zenon, <1>2, <1>3

\* The block index is written before the coins: the tip is on disk when the batches start.
LEMMA IndexWriteInv ==
  ASSUME IInv, mode = "up", WriteDirtyBlockIndex, mode' \in {"up", "flush"},
         flushesLeft' \in 0..Running, mode' = "flush" => flushesLeft' # 0,
         UNCHANGED <<dbCoins, dbBest, dbHeads, evoDisk, tip, cache, evoRoot, evoBatch, index, lostCoins>>
  PROVE  IInv'
<1>1. /\ diskIndex \subseteq diskIndex' /\ diskIndex' \subseteq index
      /\ "index" \notin spoiled' => "index" \notin spoiled /\ diskIndex' = index
      /\ "coins" \in spoiled => "coins" \in spoiled'
  BY Zenon, DirtyIndexWritten
<1>2. TypeInv' /\ Marked' BY Zenon, <1>1 DEF IInv, ControlInv, TypeInv, Marked
<1>3. IndexStanding' BY Zenon, <1>1 DEF IInv, ControlInv, IndexStanding, Rooted
<1>4. Standing' BY Zenon DEF IInv, ControlInv, Standing
<1>5. EvoStanding' BY Zenon DEF IInv, ControlInv, EvoStanding, EvoPending, EvoBest
<1>6. ReplayCanFinish' BY Zenon, <1>1 DEF IInv, ControlInv, ReplayCanFinish
<1>7. CoinInv' BY Zenon, <1>1, CoinsUnchanged DEF IInv
<1> QED BY Zenon, <1>2, <1>3, <1>4, <1>5, <1>6, <1>7 DEF IInv, ControlInv

\* The write of the block index, whole or stopping there.
LEMMA WriteBlockIndexInv ==
  ASSUME IInv, WriteBlockIndex
  PROVE  IInv'
<1>1. /\ mode = "up" /\ flushesLeft # 0 /\ flushesLeft' = flushesLeft
      /\ WriteDirtyBlockIndex /\ mode' \in {"up", "flush"}
      /\ UNCHANGED <<dbCoins, dbBest, dbHeads, evoDisk, tip, cache, evoRoot, evoBatch, index, lostCoins>>
  BY Zenon DEF WriteBlockIndex, memory
<1>2. flushesLeft' \in 0..Running BY Zenon, <1>1 DEF IInv, ControlInv, TypeInv
<1> QED BY Zenon, <1>1, <1>2, IndexWriteInv

\* A flush that ends before it writes coins leaves everything standing.
LEMMA EarlyAbortInv ==
  ASSUME IInv, WriteBlockIndexFails \/ DiskSpaceIsLow
  PROVE  IInv'
<1>1. /\ mode = "up" /\ mode' = "up" /\ flushesLeft # 0 /\ flushesLeft' = AfterAbort(AfterFlush)
      /\ UNCHANGED <<diskIndex, spoiled>> \/ WriteDirtyBlockIndex
      /\ UNCHANGED <<dbCoins, dbBest, dbHeads, evoDisk, tip, cache, evoRoot, evoBatch, index, lostCoins>>
  BY Zenon DEF WriteBlockIndexFails, DiskSpaceIsLow, AbortFlush, disk, memory
<1>2. flushesLeft' \in 0..Running BY Zenon, <1>1, FlushesLeft DEF IInv, ControlInv
<1>3. CASE UNCHANGED <<diskIndex, spoiled>> BY Zenon, <1>1, <1>2, <1>3, OnlyFlushesLeft
<1>4. CASE WriteDirtyBlockIndex BY Zenon, <1>1, <1>2, <1>4, IndexWriteInv
<1> QED BY Zenon, <1>1, <1>3, <1>4

\* What is written from the cache to the database is shown as before.
LEMMA WrittenShows ==
  ASSUME TypeInv, NEW S \in SUBSET Dirty, dbCoins' = Written(S), cache' = Without(S)
  PROVE  /\ dbCoins' \in Coins /\ cache' \in Caches /\ Shown(cache)' = Shown(cache)
         /\ \A o \in Outpoint : dbCoins'[o] = IF o \in S THEN Shown(cache)[o] ELSE dbCoins[o]
<1>1. NoCoin # Clean /\ Clean \notin Nat BY Zenon, ChainstateAssumption
<1>2. \A o \in S : o \in Outpoint /\ cache[o] # Clean BY Zenon DEF Dirty
<1>3. \A o \in Outpoint : /\ dbCoins'[o] = IF o \in S THEN Shown(cache)[o] ELSE dbCoins[o]
                          /\ dbCoins'[o] \in Nat \cup {NoCoin}
  BY Zenon, <1>2 DEF TypeInv, Caches, Coins, Written, Shown
<1>4. dbCoins' \in Coins BY Zenon, <1>3 DEF Coins, Written
<1>5. cache' \in Caches BY Zenon DEF Caches, Without, TypeInv
<1>6. \A o \in Outpoint : Shown(cache)'[o] = Shown(cache)[o]
  BY Zenon, <1>2 DEF Shown, Written, Without
<1>7. Shown(cache)' = Shown(cache)
  <2>1. Shown(cache)' = [o \in Outpoint |-> Shown(cache)'[o]] BY Zenon DEF Shown
  <2>2. Shown(cache) = [o \in Outpoint |-> Shown(cache)[o]] BY Zenon DEF Shown
  <2> QED BY Zenon, <1>6, <2>1, <2>2
<1> QED BY Zenon, <1>3, <1>4, <1>5, <1>7

\* A batch written by a process that has lost entries of its cache spoils the database.
LEMMA CoinsWritten ==
  ASSUME NEW S, WriteCoins(S)
  PROVE  /\ mode \in {"flush", "replay"} /\ dbCoins' = Written(S) /\ cache' = Without(S)
         /\ dbBest = Null => dbHeads[1] = tip
         /\ "coins" \notin spoiled' => "coins" \notin spoiled /\ ~lostCoins
         /\ "index" \in spoiled <=> "index" \in spoiled'
<1>1. /\ mode \in {"flush", "replay"} /\ dbCoins' = Written(S) /\ cache' = Without(S)
      /\ dbBest = Null => dbHeads[1] = tip
      /\ spoiled' = IF lostCoins THEN spoiled \cup {"coins"} ELSE spoiled
  BY Zenon DEF WriteCoins, InBatchWrite, ReachesOldHead
<1>2. /\ "coins" \notin spoiled' => "coins" \notin spoiled /\ ~lostCoins
      /\ "index" \in spoiled <=> "index" \in spoiled'
  BY <1>1
<1> QED BY Zenon, <1>1, <1>2

\* A partial batch replaces old coins by new ones between the two heads it names.
LEMMA WritePartialBatchInv ==
  ASSUME IInv, NEW S \in SUBSET Dirty, WritePartialBatch(S)
  PROVE  IInv'
<1>1. /\ S # {} /\ WriteCoins(S) /\ dbBest' = Null /\ dbHeads' = <<tip, OldTip>>
      /\ UNCHANGED <<evoDisk, diskIndex, mode, flushesLeft, tip, evoRoot, evoBatch, index, lostCoins>>
  BY Zenon DEF WritePartialBatch
<1>2. /\ TypeInv /\ Marked /\ IndexStanding /\ Standing /\ EvoStanding /\ ReplayCanFinish
      /\ CoinsMatchBestBlock /\ CoinsBetweenHeads /\ CacheMatchesTip
  BY Zenon DEF IInv, ControlInv, CoinInv
<1>3. /\ mode \in {"flush", "replay"} /\ dbCoins' = Written(S) /\ cache' = Without(S)
      /\ dbBest = Null => dbHeads[1] = tip
      /\ "coins" \notin spoiled' => "coins" \notin spoiled /\ ~lostCoins
      /\ "index" \in spoiled <=> "index" \in spoiled'
  BY Zenon, <1>1, CoinsWritten
<1>4. /\ dbCoins' \in Coins /\ cache' \in Caches /\ Shown(cache)' = Shown(cache)
      /\ \A o \in Outpoint : dbCoins'[o] = IF o \in S THEN Shown(cache)[o] ELSE dbCoins[o]
  BY Zenon, <1>2, <1>3, WrittenShows
<1>5. cache # NoChanges BY Zenon, <1>1 DEF Dirty, NoChanges
<1>6. /\ OldTip \in Block /\ evoDisk = OldTip
      /\ "index" \notin spoiled => OldTip \in diskIndex
  <2>1. CASE dbBest # Null
    <3>1. mode = "flush" BY Zenon, <1>2, <1>3, <2>1 DEF Standing
    <3>2. EvoBest = tip BY Zenon, <1>2, <1>5, <3>1 DEF EvoStanding
    <3> QED BY Zenon, <1>2, <2>1, <3>1, <3>2 DEF OldTip, TypeInv, EvoStanding, ReplayCanFinish
  <2>2. CASE dbBest = Null
    <3>1. PICK new \in Block, old \in Block : dbHeads = <<new, old>>
      BY Zenon, <1>2, <2>2 DEF TypeInv, Marked
    <3> QED BY Zenon, <1>2, <2>2, <3>1 DEF OldTip, ReplayCanFinish
  <2> QED BY Zenon, <2>1, <2>2
<1>7. tip \in Block BY Zenon, <1>2 DEF TypeInv
<1>8. TypeInv' BY Zenon, <1>1, <1>2, <1>4, <1>6, <1>7 DEF TypeInv
<1>9. Marked' BY Zenon, <1>1 DEF Marked
<1>10. IndexStanding' BY Zenon, <1>1, <1>2, <1>3 DEF IndexStanding
<1>11. Standing' BY Zenon, <1>1, <1>2, <1>3 DEF Standing
<1>12. EvoStanding' BY Zenon, <1>1, <1>2, <1>5 DEF EvoStanding, EvoPending, EvoBest
<1>13. ReplayCanFinish' BY Zenon, <1>1, <1>2, <1>3, <1>6 DEF ReplayCanFinish, IndexStanding
<1>14. CoinsMatchBestBlock' BY Zenon, <1>1 DEF CoinsMatchBestBlock
<1>15. CacheMatchesTip' BY Zenon, <1>1, <1>2, <1>3, <1>4 DEF CacheMatchesTip
<1>16. CoinsBetweenHeads'
  <2>1. SUFFICES ASSUME "coins" \notin spoiled', NEW o \in Outpoint
                 PROVE  dbCoins'[o] \in {Utxo[tip][o], Utxo[OldTip][o]}
    BY Zenon, <1>1 DEF CoinsBetweenHeads
  <2>2. "coins" \notin spoiled /\ ~lostCoins BY Zenon, <1>3, <2>1
  <2>3. Shown(cache) = Utxo[tip] BY Zenon, <1>2, <1>3, <2>2 DEF CacheMatchesTip
  <2>4. dbCoins[o] \in {Utxo[tip][o], Utxo[OldTip][o]}
    <3>1. CASE dbBest # Null BY Zenon, <1>2, <2>2, <3>1 DEF CoinsMatchBestBlock, OldTip
    <3>2. CASE dbBest = Null
      <4>1. dbHeads # <<>> /\ dbHeads[1] = tip /\ OldTip = dbHeads[2]
        BY Zenon, <1>2, <1>3, <3>2 DEF Marked, OldTip
      <4> QED BY Zenon, <1>2, <2>2, <4>1 DEF CoinsBetweenHeads
    <3> QED BY Zenon, <3>1, <3>2
  <2> QED BY Zenon, <1>4, <2>3, <2>4
<1> QED
  BY ZenonT(30), <1>8, <1>9, <1>10, <1>11, <1>12, <1>13, <1>14, <1>15, <1>16
  DEF IInv, ControlInv, CoinInv

\* After the last batch the database shows what the cache showed.
LEMMA WriteLastBatchInv ==
  ASSUME IInv, WriteLastBatch
  PROVE  IInv'
<1>1. /\ WriteCoins(Dirty) /\ dbBest' = tip /\ dbHeads' = <<>>
      /\ mode' = IF mode = "flush" THEN "evo" ELSE "verify"
      /\ UNCHANGED <<evoDisk, diskIndex, flushesLeft, tip, evoRoot, evoBatch, index, lostCoins>>
  BY Zenon DEF WriteLastBatch
<1>2. /\ TypeInv /\ Marked /\ IndexStanding /\ Standing /\ EvoStanding /\ ReplayCanFinish
      /\ CoinsMatchBestBlock /\ CoinsBetweenHeads /\ CacheMatchesTip
  BY Zenon DEF IInv, ControlInv, CoinInv
<1>3. /\ mode \in {"flush", "replay"} /\ dbCoins' = Written(Dirty) /\ cache' = Without(Dirty)
      /\ "coins" \notin spoiled' => "coins" \notin spoiled /\ ~lostCoins
      /\ "index" \in spoiled <=> "index" \in spoiled'
  BY Zenon, <1>1, CoinsWritten
<1>4. cache' = NoChanges BY Zenon, <1>2, <1>3 DEF NoChanges, Without, Dirty, TypeInv, Caches
<1>5. dbCoins' \in Coins /\ cache' \in Caches /\ Shown(cache)' = Shown(cache)
  BY Zenon, <1>2, <1>3, WrittenShows
<1>6. Shown(cache)' = dbCoins' BY Zenon, <1>4, <1>5 DEF Shown, NoChanges, Coins
<1>7. tip \in Block /\ tip # Null BY Zenon, <1>2, BaseFacts DEF TypeInv
<1>8. TypeInv' BY Zenon, <1>1, <1>2, <1>5, <1>7 DEF TypeInv
<1>9. Marked' BY Zenon, <1>1, <1>7 DEF Marked
<1>10. IndexStanding' BY Zenon, <1>1, <1>2, <1>3 DEF IndexStanding
<1>11. Standing' BY Zenon, <1>1, <1>2, <1>3, <1>4, <1>7 DEF Standing
<1>12. EvoStanding' BY Zenon, <1>1, <1>2, <1>3 DEF EvoStanding, EvoPending
<1>13. ReplayCanFinish' BY Zenon, <1>1, <1>2, <1>3, <1>7 DEF ReplayCanFinish, IndexStanding
<1>14. CoinsMatchBestBlock'
  BY Zenon, <1>1, <1>2, <1>3, <1>5, <1>6 DEF CoinsMatchBestBlock, CacheMatchesTip
<1>15. CacheMatchesTip' BY Zenon, <1>1, <1>2, <1>3, <1>5 DEF CacheMatchesTip
<1>16. CoinsBetweenHeads' BY Zenon, <1>1 DEF CoinsBetweenHeads
<1> QED
  BY ZenonT(30), <1>8, <1>9, <1>10, <1>11, <1>12, <1>13, <1>14, <1>15, <1>16
  DEF IInv, ControlInv, CoinInv

\* A failed batch leaves the disk alone and the cache without the entries it held.
LEMMA WriteBatchFailsInv ==
  ASSUME IInv, NEW S \in SUBSET Dirty, NEW last, WriteBatchFails(S, last)
  PROVE  IInv'
<1>1. /\ mode = "flush" /\ mode' = "up" /\ cache' = Without(S) /\ lostCoins' = TRUE
      /\ flushesLeft' = AfterAbort(AfterFlush)
      /\ UNCHANGED <<dbCoins, dbBest, dbHeads, evoDisk, diskIndex, spoiled, tip, evoRoot,
                     evoBatch, index>>
  BY Zenon DEF WriteBatchFails, AbortFlush, disk
<1>2. /\ TypeInv /\ Marked /\ IndexStanding /\ Standing /\ EvoStanding /\ ReplayCanFinish
  BY Zenon DEF IInv, ControlInv
<1>3. cache' \in Caches BY Zenon, <1>1, <1>2 DEF Without, Caches, TypeInv
<1>4. cache = NoChanges => cache' = NoChanges BY Zenon, <1>1 DEF NoChanges, Without
<1>5. flushesLeft' \in 0..Running BY Zenon, <1>1, <1>2, FlushesLeft DEF Standing
<1>6. TypeInv' BY Zenon, <1>1, <1>2, <1>3, <1>5 DEF TypeInv
<1>7. Marked' BY Zenon, <1>1, <1>2 DEF Marked
<1>8. IndexStanding' /\ Standing' BY Zenon, <1>1, <1>2 DEF IndexStanding, Standing
<1>9. EvoStanding' BY Zenon, <1>1, <1>2, <1>4 DEF EvoStanding, EvoPending, EvoBest
<1>10. ReplayCanFinish' BY Zenon, <1>1, <1>2 DEF ReplayCanFinish
<1>11. CoinInv'
  BY Zenon, <1>1 DEF IInv, CoinInv, CoinsMatchBestBlock, CoinsBetweenHeads, CacheMatchesTip
<1> QED BY Zenon, <1>6, <1>7, <1>8, <1>9, <1>10, <1>11 DEF IInv, ControlInv

\* The EvoDB commit brings the EvoDB on disk to the best block; when it fails, its batch keeps
\* what it had to write and nothing of it is shown.
LEMMA CommitInv ==
  ASSUME IInv, CommitRootTransaction \/ CommitRootTransactionFails
  PROVE  IInv'
<1>1. /\ mode = "evo" /\ mode' = "up" /\ evoRoot' = Null
      /\ flushesLeft' \in {AfterFlush, AfterAbort(AfterFlush)}
      /\ \/ /\ evoBatch' = Null
            /\ evoDisk' = IF EvoPending # Null THEN EvoPending ELSE evoDisk
         \/ evoBatch' = EvoPending /\ evoDisk' = evoDisk
      /\ UNCHANGED <<dbCoins, dbBest, dbHeads, diskIndex, spoiled, tip, cache, index, lostCoins>>
  BY Zenon DEF CommitRootTransaction, CommitRootTransactionFails, EndFlush, AbortFlush, disk
<1>2. TypeInv /\ Marked /\ IndexStanding /\ Standing /\ EvoStanding /\ ReplayCanFinish
  BY Zenon DEF IInv, ControlInv
<1>3. flushesLeft' \in 0..Running BY Zenon, <1>1, <1>2, FlushesLeft DEF Standing
<1>4. dbBest = tip /\ dbBest # Null /\ dbHeads = <<>> /\ cache = NoChanges
  BY Zenon, <1>1, <1>2, BaseFacts DEF Standing, Marked, TypeInv
<1>5. EvoPending = Null \/ EvoPending = tip BY Zenon, <1>1, <1>2 DEF EvoStanding
<1>6. TypeInv' BY Zenon, <1>1, <1>2, <1>3, <1>5 DEF TypeInv
<1>7. Marked' /\ IndexStanding' /\ Standing'
  BY Zenon, <1>1, <1>2, <1>4 DEF Marked, IndexStanding, Standing
<1>8. EvoPending' = evoBatch' /\ EvoBest' = evoDisk' BY Zenon, <1>1 DEF EvoPending, EvoBest
<1>9. EvoStanding' BY Zenon, <1>1, <1>4, <1>5, <1>8 DEF EvoStanding
<1>10. ReplayCanFinish' BY Zenon, <1>1, <1>2, <1>4 DEF ReplayCanFinish
<1>11. CoinInv' BY Zenon, <1>1, CoinsUnchanged DEF IInv
<1> QED BY Zenon, <1>6, <1>7, <1>9, <1>10, <1>11 DEF IInv, ControlInv

\* A stop, a crash or a failed assertion loses the memory and leaves the disk as it is.
LEMMA ExitInv ==
  ASSUME IInv, Exit
  PROVE  IInv'
<1>1. /\ mode' = "down" /\ flushesLeft' = Running /\ tip' = Base /\ cache' = NoChanges
      /\ index' = {} /\ evoRoot' = Null /\ evoBatch' = Null
      /\ UNCHANGED <<dbCoins, dbBest, dbHeads, evoDisk, diskIndex, spoiled>>
  BY Zenon DEF Exit, disk
<1>2. TypeInv' BY BaseFacts, NoChangesShow, <1>1 DEF IInv, ControlInv, TypeInv
<1>3. Marked' /\ IndexStanding' /\ Standing' /\ EvoStanding' /\ ReplayCanFinish'
  BY Zenon, <1>1
  DEF IInv, ControlInv, Marked, IndexStanding, Rooted, Standing, EvoStanding, ReplayCanFinish
<1>4. CoinInv'
  BY Zenon, <1>1 DEF IInv, CoinInv, CoinsMatchBestBlock, CoinsBetweenHeads, CacheMatchesTip
<1> QED BY Zenon, <1>2, <1>3, <1>4 DEF IInv, ControlInv

\* LoadChainTip takes the tip from the coin database.
LEMMA StartInv ==
  ASSUME IInv, Start
  PROVE  IInv'
<1>1. /\ mode = "down" /\ dbHeads = <<>> /\ index' = diskIndex
      /\ \/ mode' = "verify" /\ tip' = dbBest /\ dbBest \in diskIndex /\ Rooted(diskIndex)
         \/ mode' = "reindex" /\ UNCHANGED tip
      /\ UNCHANGED <<dbCoins, dbBest, dbHeads, evoDisk, diskIndex, spoiled, cache, flushesLeft,
                     evoRoot, evoBatch>>
  BY Zenon DEF Start, disk, IndexUsable, Rooted
<1>2. TypeInv /\ Marked /\ IndexStanding /\ Standing /\ EvoStanding /\ ReplayCanFinish
  BY Zenon DEF IInv, ControlInv
<1>3. cache = NoChanges BY Zenon, <1>1, <1>2 DEF Standing
<1>4. TypeInv' BY Zenon, <1>1, <1>2 DEF TypeInv
<1>5. IndexStanding' BY Zenon, <1>1, <1>2 DEF IndexStanding, Rooted
<1>6. Marked' /\ Standing' /\ EvoStanding' /\ ReplayCanFinish'
  BY Zenon, <1>1, <1>2, <1>3 DEF Marked, Standing, EvoStanding, ReplayCanFinish
<1>7. CoinInv'
  BY Zenon, <1>1, <1>3 DEF IInv, CoinInv, CoinsMatchBestBlock, CoinsBetweenHeads, CacheMatchesTip
<1> QED BY Zenon, <1>4, <1>5, <1>6, <1>7 DEF IInv, ControlInv

\* ReplayBlocks brings the cache to the new head, from any mixture of old and new coins.
LEMMA ReplayBlocksInv ==
  ASSUME IInv, ReplayBlocks
  PROVE  IInv'
<1> DEFINE new == dbHeads[1]
           old == dbHeads[2]
           fork == LastCommonAncestor(old, new)
           c == RollForward(RollBack(NoChanges, Path(fork, old)), Path(fork, new))
<1>1. /\ mode = "down" /\ dbHeads # <<>> /\ index' = diskIndex
      /\ \/ /\ mode' = "replay" /\ tip' = new /\ evoRoot' = new /\ cache' = c
            /\ new \in diskIndex /\ Rooted(diskIndex)
         \/ mode' = "reindex" /\ UNCHANGED <<tip, cache, evoRoot>>
      /\ UNCHANGED <<dbCoins, dbBest, dbHeads, evoDisk, diskIndex, spoiled, flushesLeft, evoBatch>>
  BY Zenon DEF ReplayBlocks, disk, IndexUsable, Rooted
<1>2. /\ TypeInv /\ Marked /\ IndexStanding /\ Standing /\ EvoStanding /\ ReplayCanFinish
      /\ CoinsMatchBestBlock /\ CoinsBetweenHeads
  BY Zenon DEF IInv, ControlInv, CoinInv
<1>3. new \in Block /\ old \in Block BY <1>1, <1>2 DEF TypeInv
<1>4. fork \in Ancestors(old) \cap Ancestors(new) BY Zenon, <1>3, CommonAncestor
<1> HIDE DEF fork
<1>5. /\ c \in Caches
      /\ (\A o \in Outpoint : dbCoins[o] \in {Utxo[new][o], Utxo[old][o]}) => Shown(c) = Utxo[new]
  BY Zenon, <1>2, <1>3, <1>4, ReplayShows
<1> HIDE DEF c
<1>6. "coins" \notin spoiled => Shown(c) = Utxo[new]
  BY Zenon, <1>1, <1>2, <1>5 DEF CoinsBetweenHeads
<1>7. dbBest = Null BY Zenon, <1>1, <1>2 DEF Marked
<1>8. TypeInv' BY Zenon, <1>1, <1>2, <1>3, <1>5 DEF TypeInv
<1>9. Marked' BY Zenon, <1>1, <1>2 DEF Marked
<1>10. IndexStanding' BY Zenon, <1>1, <1>2 DEF IndexStanding, Rooted
<1>11. Standing' BY Zenon, <1>1, <1>2, <1>7 DEF Standing
<1>12. EvoStanding' /\ ReplayCanFinish' BY Zenon, <1>1, <1>2 DEF EvoStanding, ReplayCanFinish
<1>13. CacheMatchesTip' BY Zenon, <1>1, <1>6 DEF CacheMatchesTip, Shown
<1>14. CoinsMatchBestBlock' /\ CoinsBetweenHeads'
  BY Zenon, <1>1, <1>2 DEF CoinsMatchBestBlock, CoinsBetweenHeads
<1> QED BY Zenon, <1>8, <1>9, <1>10, <1>11, <1>12, <1>13, <1>14 DEF IInv, ControlInv, CoinInv

\* VerifyDB leaves the coins as they were loaded.
LEMMA VerifyDBInv ==
  ASSUME IInv, VerifyDB
  PROVE  IInv'
<1>1. /\ mode = "verify"
      /\ \/ mode' = "up" /\ evoRoot' = Null
         \/ mode' = "reindex" /\ UNCHANGED evoRoot
      /\ UNCHANGED <<dbCoins, dbBest, dbHeads, evoDisk, diskIndex, spoiled, flushesLeft, tip, cache,
                     evoBatch, index, lostCoins>>
  BY Zenon DEF VerifyDB, disk
<1>2. TypeInv /\ Marked /\ IndexStanding /\ Standing /\ EvoStanding /\ ReplayCanFinish
  BY Zenon DEF IInv, ControlInv
<1>3. dbBest = tip /\ dbBest # Null /\ dbHeads = <<>> /\ cache = NoChanges
  BY Zenon, <1>1, <1>2, BaseFacts DEF Standing, Marked, TypeInv
<1>4. TypeInv' BY Zenon, <1>1, <1>2 DEF TypeInv
<1>5. Marked' /\ IndexStanding' /\ Standing' /\ ReplayCanFinish'
  BY Zenon, <1>1, <1>2, <1>3 DEF Marked, IndexStanding, Standing, ReplayCanFinish
<1>6. EvoStanding' BY Zenon, <1>1, <1>2, <1>3 DEF EvoStanding, EvoPending, EvoBest
<1>7. Shown(cache)' = dbCoins
  <2>1. dbCoins \in Coins BY Zenon, <1>2 DEF TypeInv
  <2>2. Shown(cache)' = Shown(NoChanges) BY Zenon, <1>1, <1>3 DEF Shown
  <2> QED BY Zenon, <2>1, <2>2, NoChangesShow
<1>8. CoinInv'
  BY ZenonT(30), <1>1, <1>3, <1>7 DEF IInv, CoinInv, CoinsMatchBestBlock, CoinsBetweenHeads, CacheMatchesTip
<1> QED BY Zenon, <1>4, <1>5, <1>6, <1>8 DEF IInv, ControlInv

\* A reindex starts from Base again.
LEMMA ReindexInv ==
  ASSUME IInv, Reindex
  PROVE  IInv'
<1>1. dbCoins' \in Coins BY Zenon, BaseFacts DEF Reindex
<1>2. NoChanges \in Caches /\ Shown(cache)' = dbCoins'
  BY Zenon, <1>1 DEF Reindex, Shown, Coins, NoChanges, Caches
<1>3. TypeInv' /\ Marked' BY SMTT(30), BaseFacts, <1>1, <1>2 DEF Reindex, TypeInv, Marked
<1>4. IndexStanding' /\ Standing' BY Zenon, BaseFacts DEF Reindex, IndexStanding, Rooted, Standing
<1>5. EvoStanding' /\ ReplayCanFinish'
  BY Zenon, BaseFacts DEF Reindex, EvoStanding, EvoPending, EvoBest, ReplayCanFinish
<1>6. CoinInv'
  BY Zenon, BaseFacts, <1>2
  DEF Reindex, CoinInv, CoinsMatchBestBlock, CoinsBetweenHeads, CacheMatchesTip
<1> QED BY Zenon, <1>3, <1>4, <1>5, <1>6 DEF IInv, ControlInv

\* Every step keeps the inductive invariant.
LEMMA NextInv == IInv /\ [Next]_vars => IInv'
<1> SUFFICES ASSUME IInv, [Next]_vars PROVE IInv' BY Zenon
<1>1. ASSUME NEW b \in Block \ {Base}, AcceptBlock(b) PROVE IInv' BY Zenon, <1>1, AcceptBlockInv
<1>2. ASSUME NEW b \in Block \ {Base}, ConnectTip(b) PROVE IInv' BY Zenon, <1>2, ConnectTipInv
<1>3. CASE DisconnectTip BY Zenon, <1>3, DisconnectTipInv
<1>4. CASE WriteBlockIndex BY Zenon, <1>4, WriteBlockIndexInv
<1>5. CASE WriteBlockIndexFails \/ DiskSpaceIsLow BY Zenon, <1>5, EarlyAbortInv
<1>6. ASSUME NEW S \in SUBSET Dirty, WritePartialBatch(S) PROVE IInv' BY Zenon, <1>6, WritePartialBatchInv
<1>7. ASSUME NEW S \in SUBSET Dirty, WriteBatchFails(S, FALSE) PROVE IInv'
  BY Zenon, <1>7, WriteBatchFailsInv
<1>8. CASE WriteLastBatch BY Zenon, <1>8, WriteLastBatchInv
<1>9. CASE WriteBatchFails(Dirty, TRUE)
  <2>1. Dirty \in SUBSET Dirty BY Zenon
  <2> QED BY Zenon, <1>9, <2>1, WriteBatchFailsInv
<1>10. CASE CommitRootTransaction \/ CommitRootTransactionFails BY Zenon, <1>10, CommitInv
<1>11. CASE RequestShutdown BY Zenon, <1>11, AbortInv DEF RequestShutdown
<1>12. CASE Shutdown
  <2>1. mode = "up" /\ flushesLeft' = 2 BY Zenon, <1>12 DEF Shutdown
  <2>2. flushesLeft' \in 0..Running BY <2>1
  <2> QED BY Zenon, <1>12, <2>1, <2>2, OnlyFlushesLeft DEF Shutdown, disk, memory
<1>13. CASE BatchWriteAsserts \/ ShutdownEnds \/ Crash \/ ReplayFails
  BY Zenon, <1>13, ExitInv DEF BatchWriteAsserts, ShutdownEnds, Crash, ReplayFails
<1>14. CASE Start BY Zenon, <1>14, StartInv
<1>15. CASE ReplayBlocks BY Zenon, <1>15, ReplayBlocksInv
<1>16. CASE VerifyDB BY Zenon, <1>16, VerifyDBInv
<1>17. CASE Reindex BY Zenon, <1>17, ReindexInv
<1>18. CASE UNCHANGED vars
  <2>1. ControlInv'
    BY ZenonT(90), <1>18
    DEF IInv, ControlInv, TypeInv, Marked, IndexStanding, Standing, EvoStanding, EvoPending, EvoBest,
        ReplayCanFinish, vars, disk, memory
  <2>2. CoinInv' BY Zenon, <1>18, CoinsUnchanged DEF IInv, vars, disk, memory
  <2> QED BY Zenon, <2>1, <2>2 DEF IInv
<1> QED
  BY ZenonT(30), <1>1, <1>2, <1>3, <1>4, <1>5, <1>6, <1>7, <1>8, <1>9, <1>10, <1>11, <1>12, <1>13, <1>14,
     <1>15, <1>16, <1>17, <1>18 DEF Next

\* The inductive invariant holds in every reachable state.
LEMMA Invariant == Spec => []IInv
  BY InitInv, NextInv, PTL DEF Spec

-----------------------------------------------------------------------------
(* What follows for the chain state. *)

\* Whatever batches, crashes, replays and reorganisations came before: a coin database that
\* names a best block holds the unspent outputs after it, unless BatchWrite was called again
\* by a process one of whose batches had failed.
THEOREM DatabaseMatchesBestBlock == Spec => []CoinsMatchBestBlock
<1>1. IInv => CoinsMatchBestBlock BY Zenon DEF IInv, CoinInv
<1> QED BY <1>1, Invariant, PTL

\* ConnectTip, DisconnectTip, the flush and every recovery leave pcoinsTip showing the
\* unspent outputs after its best block, as long as no batch of this process has failed.
THEOREM TipIsExact == Spec => []TipMatchesUtxo
<1>1. IInv => TipMatchesUtxo BY Zenon DEF IInv, CoinInv, CacheMatchesTip, TipMatchesUtxo
<1> QED BY <1>1, Invariant, PTL

\* However often it is interrupted, and whatever writes fail, FlushStateToDisk leaves the EvoDB
\* at the old head ReplayBlocks starts from; and the blocks the database names are indexed
\* unless a flush went on after it had lost dirty entries of the index.
THEOREM RecoveryCanFinish == Spec => []ReplayCanFinish
<1>1. IInv => ReplayCanFinish BY ZenonT(30) DEF IInv, ControlInv
<1> QED BY <1>1, Invariant, PTL

\* While the EvoDB does not show the tip, also after a commit that failed, ConnectTip and
\* DisconnectTip leave the tip at the best block of the coin database, and nothing is to be
\* flushed.
THEOREM StaleEvoStops == Spec => []StaleEvoStopsChain
<1>1. IInv => StaleEvoStopsChain
  BY Zenon DEF IInv, ControlInv, EvoStanding, StaleEvoStopsChain, Dirty, NoChanges
<1> QED BY <1>1, Invariant, PTL

\* When the assertion of BatchWrite fails, a batch of the same process has failed before; it
\* never fails in a replay, however often the replay was interrupted itself.
THEOREM BatchWriteAssertion == Spec => []ReplayTargetAgrees
<1>1. IInv => ReplayTargetAgrees
  BY Zenon DEF IInv, ControlInv, Standing, ReplayTargetAgrees, InBatchWrite
<1> QED BY <1>1, Invariant, PTL

-----------------------------------------------------------------------------
(* When a start ends in a reindex. *)

\* The i-th block of a chain has height i.
LEMMA HeightAt ==
  ASSUME NEW b \in Block, NEW i \in 0..Height(b)
  PROVE  At(b, i) \in Block /\ Height(At(b, i)) = i
<1> DEFINE n == Height(b)
           T == {j \in 0..n : Height(At(b, j)) = j}
<1>1. n \in Nat /\ LineFacts(b) BY ZenonT(30), Lines, HeightDef
<1>2. 0 \in T BY <1>1, HeightDef DEF At
<1>3. ASSUME NEW j \in 1..n, j - 1 \in T PROVE j \in T
  <2>1. At(b, j) \in Block \ {Base} /\ Parent[At(b, j)] = At(b, j - 1)
    BY <1>1 DEF LineFacts
  <2>2. Height(At(b, j)) = Height(At(b, j - 1)) + 1 BY Zenon, <2>1, HeightDef
  <2>3. Height(At(b, j - 1)) = j - 1 BY Zenon, <1>3
  <2> QED BY SMTT(30), <1>1, <2>2, <2>3
<1>4. \A j \in 0..n : j \in T
  <2> HIDE DEF T, n
  <2> QED BY Zenon, <1>1, <1>2, <1>3, RangeInduction
<1> QED BY ZenonT(30), <1>1, <1>4 DEF LineFacts

\* A database that holds the unspent outputs after b passes the checks of VerifyDB: every
\* block down to Base disconnects cleanly.
LEMMA ConsistentDisconnects ==
  ASSUME TypeInv, NEW b \in Block, dbCoins = Utxo[b], NEW n \in 0..Height(b)
  PROVE  ChainDisconnectsCleanly(b, n)
<1>0. Height(b) \in Nat BY Zenon, HeightDef
<1> SUFFICES ASSUME NEW i \in 1..Height(b)
             PROVE  DisconnectsCleanly(
                      RollBack(NoChanges, SubSeq(Chain[b], i + 1, Height(b))), Chain[b][i])
  <2>1. \A i \in (Height(b) - n + 1)..Height(b) : i \in 1..Height(b) BY <1>0
  <2> QED BY Zenon, <2>1 DEF ChainDisconnectsCleanly
<1> DEFINE x == At(b, i)
           c == RollBack(NoChanges, Path(x, b))
<1>1. LineFacts(b) /\ Height(b) \in Nat BY Zenon, Lines, HeightDef
<1>2. i \in 0..Height(b) /\ i # 0 BY SMTT(30), <1>1
<1>3. x = Chain[b][i] /\ x \in Block \ {Base} /\ Height(x) = i
  BY Zenon, <1>1, <1>2, HeightAt DEF At, LineFacts
<1>4. x \in Ancestors(b)
  <2>1. Chain[b] \in Seq(Block) /\ i \in 1..Len(Chain[b]) BY Zenon, ChainDef DEF Height
  <2> QED BY SMTT(30), <1>3, <2>1 DEF Ancestors, Range
<1>5. c = RollBack(NoChanges, SubSeq(Chain[b], i + 1, Height(b))) BY Zenon, <1>3 DEF Path
<1> HIDE DEF x
<1>6. c \in Caches /\ Tracks(c, x, b) BY Zenon, <1>4, RollBackTracks
<1> HIDE DEF c
<1>7. \A o \in Outpoint : Shown(c)[o] = Utxo[x][o] BY Zenon, <1>6 DEF Tracks
<1>8. \A o \in Outpoint : Utxo[x][o] = IF o \in Creates[x] THEN Height(x)
                                       ELSE IF o \in Spends[x] THEN NoCoin ELSE Utxo[Parent[x]][o]
  <2>1. Utxo[x] = Applied(Utxo[Parent[x]], x) BY Zenon, <1>3, UtxoDef
  <2> QED BY Zenon, <2>1 DEF Applied
<1>9. Height(x) # NoCoin /\ Creates[x] \subseteq Outpoint /\ Spends[x] \subseteq Outpoint
  BY ZenonT(30), <1>3, HeightDef, ChainstateAssumption
<1>10. \A o \in Creates[x] : Shown(c)[o] # NoCoin BY Zenon, <1>7, <1>8, <1>9
<1>11. ASSUME NEW o \in Spends[x] PROVE Shown(SpendCoins(c, Creates[x]))[o] = NoCoin
  <2>1. o \in Outpoint BY Zenon, <1>9
  <2>2. CASE o \in Creates[x]
    BY Zenon, <1>10, <2>1, <2>2, ChainstateAssumption DEF Shown, SpendCoins
  <2>3. CASE o \notin Creates[x]
    <3>1. Shown(c)[o] = NoCoin BY Zenon, <1>7, <1>8, <2>1, <2>3
    <3> QED BY Zenon, <2>1, <2>3, <3>1 DEF Shown, SpendCoins
  <2> QED BY Zenon, <2>2, <2>3
<1> QED BY Zenon, <1>3, <1>5, <1>10, <1>11 DEF DisconnectsCleanly

\* As long as no flush went on with a part of the block index lost, a reindex is asked for only
\* by VerifyDB, and as long as no batch was written after a failed one, only when the EvoDB does
\* not show the tip.
ReindexHasCause ==
  [][mode # "reindex" /\ mode' = "reindex" /\ "index" \notin spoiled
       => mode = "verify" /\ ("coins" \notin spoiled => EvoBest # tip)]_vars

\* LoadChainTip and ReplayBlocks find the blocks and the EvoDB they need, however the node was
\* stopped, and VerifyDB finds the coins right, unless a database was written to after a failed
\* write: all else that sends the node into a reindex is an EvoDB behind the coin database.
THEOREM ReindexOnlyForEvo == Spec => ReindexHasCause
<1> DEFINE Cause == mode # "reindex" /\ mode' = "reindex" /\ "index" \notin spoiled
                      => mode = "verify" /\ ("coins" \notin spoiled => EvoBest # tip)
<1>1. IInv /\ [Next]_vars => [Cause]_vars
  <2> SUFFICES ASSUME IInv, Next, mode # "reindex", mode' = "reindex", "index" \notin spoiled
               PROVE  mode = "verify" /\ ("coins" \notin spoiled => EvoBest # tip)
    BY Zenon
  <2>1. IndexUsable BY Zenon DEF IInv, ControlInv, IndexStanding, Rooted, IndexUsable
  <2>2. CASE Start
    BY Zenon, <2>1, <2>2 DEF IInv, ControlInv, Marked, ReplayCanFinish, Start
  <2>3. CASE ReplayBlocks
    BY Zenon, <2>1, <2>3 DEF IInv, ControlInv, ReplayCanFinish, ReplayBlocks
  <2>4. CASE VerifyDB
    <3>1. PICK n \in 0..Height(tip) : mode = "verify" /\ ~(EvoBest = tip /\ ChainDisconnectsCleanly(tip, n))
      BY Zenon, <2>4 DEF VerifyDB
    <3>2. ASSUME "coins" \notin spoiled PROVE ChainDisconnectsCleanly(tip, n)
      <4>1. TypeInv /\ tip \in Block /\ dbBest = tip
        BY Zenon, <3>1 DEF IInv, ControlInv, TypeInv, Standing
      <4>2. dbCoins = Utxo[tip]
        BY Zenon, <3>2, <4>1, BaseFacts DEF IInv, CoinInv, CoinsMatchBestBlock
      <4> QED BY Zenon, <4>1, <4>2, ConsistentDisconnects
    <3> QED BY Zenon, <3>1, <3>2
  <2>5. CASE ~(Start \/ ReplayBlocks \/ VerifyDB)
    BY ZenonT(30), <2>5
    DEF Next, AcceptBlock, ConnectTip, InvalidBlockFound, DisconnectTip, AbortNode, WriteBlockIndex,
        WriteBlockIndexFails, DiskSpaceIsLow, AbortFlush, WritePartialBatch, WriteBatchFails,
        WriteLastBatch, BatchWriteAsserts, CommitRootTransaction, CommitRootTransactionFails,
        EndFlush, RequestShutdown, Shutdown, ShutdownEnds, Crash, Exit, ReplayFails, Reindex
  <2> QED BY Zenon, <2>2, <2>3, <2>4, <2>5
<1> QED BY <1>1, Invariant, PTL DEF Spec, ReindexHasCause

=============================================================================
