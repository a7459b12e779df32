------------------------ MODULE ChainSelectionProofs ------------------------
(***************************************************************************)
(* Proofs about ChainSelection, for every block tree: the tree itself, the *)
(* order of the candidates, what a turn of ActivateBestChain does, that    *)
(* nChainTx and mapBlocksUnlinked are always exact, what CheckBlockIndex   *)
(* asserts of failure flags and candidates, that the active chain is valid *)
(* and is the best one, and that ActivateBestChain always makes progress.  *)
(***************************************************************************)
EXTENDS ChainSelection, RecursionTheorems

-----------------------------------------------------------------------------
(* The block tree. *)

\* The blocks form a tree.
LEMMA BlockTree == Tree(Block, Genesis, Parent)
  BY Zenon, ChainSelectionAssumption DEF Tree

\* What the assumption says of single blocks.
LEMMA Basics ==
  /\ Genesis \in Block /\ Null \notin Block
  /\ \A b \in Block \ {Genesis} : Parent[b] \in Block
  /\ \A b \in Block : Proof[b] \in Nat \ {0}
  BY Zenon, ChainSelectionAssumption

\* The ancestors of a block satisfy the equation that defines them.
LEMMA AncestorsDef ==
  /\ Ancestors \in [Block -> SUBSET Block]
  /\ Ancestors[Genesis] = {Genesis}
  /\ \A b \in Block \ {Genesis} : Ancestors[b] = {b} \cup Ancestors[Parent[b]]
<1> DEFINE V == SUBSET Block
           G == [b \in Block \ {Genesis} |-> [s \in V |-> {b} \cup s]]
           Eq(f) == f = [b \in Block |-> IF b = Genesis THEN {b} ELSE {b} \cup f[Parent[b]]]
<1>1. G \in Steps(Block, Genesis, V) /\ {Genesis} \in V BY Zenon, Basics DEF Steps
<1>2. PICK f : Solution(f, Block, Genesis, Parent, V, {Genesis}, G)
  <2> HIDE DEF V, G
  <2> QED BY Zenon, <1>1, BlockTree, TreeRecursion
<1>3. f \in [Block -> V] BY Zenon, <1>2 DEF Solution
<1>4. Eq(f)
  <2>1. ASSUME NEW b \in Block PROVE f[b] = IF b = Genesis THEN {b} ELSE {b} \cup f[Parent[b]]
    <3>1. f[b] = IF b = Genesis THEN {Genesis} ELSE G[b][f[Parent[b]]] BY Zenon, <1>2 DEF Solution
    <3>2. b # Genesis => f[Parent[b]] \in V BY Zenon, <1>3, Basics
    <3> HIDE DEF V
    <3> QED BY Zenon, <3>1, <3>2
  <2> QED BY Zenon, <1>3, <2>1
<1>5. Ancestors = CHOOSE g : Eq(g) BY Zenon DEF Ancestors
<1>6. Eq(Ancestors)
  <2> HIDE DEF Eq
  <2> QED BY Zenon, <1>4, <1>5
<1>7. /\ Ancestors[Genesis] = {Genesis}
      /\ \A b \in Block \ {Genesis} : Ancestors[b] = {b} \cup Ancestors[Parent[b]]
  BY Zenon, <1>6, Basics
<1> DEFINE T == {b \in Block : Ancestors[b] \in SUBSET Block}
<1>8. Inductive(T, Block, Genesis, Parent) BY ZenonT(30), <1>7, Basics DEF Inductive
<1>9. \A b \in Block : b \in T
  <2> HIDE DEF T
  <2> QED BY Zenon, <1>8, BlockTree, TreeInduction
<1>10. Ancestors \in [Block -> SUBSET Block]
  <2>1. \A b \in Block : Ancestors[b] \in SUBSET Block BY Zenon, <1>9
  <2> QED BY Zenon, <1>6, <2>1
<1> QED BY Zenon, <1>7, <1>10

\* So does the work of a chain.
LEMMA ChainWorkDef ==
  /\ ChainWork \in [Block -> Nat]
  /\ \A b \in Block \ {Genesis} : ChainWork[b] = Proof[b] + ChainWork[Parent[b]]
<1> DEFINE G == [b \in Block \ {Genesis} |-> [w \in Nat |-> Proof[b] + w]]
           Eq(f) == f = [b \in Block |-> Proof[b] + (IF b = Genesis THEN 0 ELSE f[Parent[b]])]
<1>1. G \in Steps(Block, Genesis, Nat) /\ Proof[Genesis] \in Nat BY Basics DEF Steps
<1>2. PICK f : Solution(f, Block, Genesis, Parent, Nat, Proof[Genesis], G)
  <2> HIDE DEF G
  <2> QED BY Zenon, <1>1, BlockTree, TreeRecursion
<1>3. f \in [Block -> Nat] BY Zenon, <1>2 DEF Solution
<1>4. Eq(f)
  <2>1. ASSUME NEW b \in Block PROVE f[b] = Proof[b] + (IF b = Genesis THEN 0 ELSE f[Parent[b]])
    <3>1. f[b] = IF b = Genesis THEN Proof[Genesis] ELSE G[b][f[Parent[b]]] BY Zenon, <1>2 DEF Solution
    <3>2. b # Genesis => f[Parent[b]] \in Nat BY Zenon, <1>3, Basics
    <3> QED BY <3>1, <3>2, Basics
  <2> QED BY Zenon, <1>3, <2>1
<1>5. ChainWork = CHOOSE g : Eq(g) BY Zenon DEF ChainWork
<1>6. Eq(ChainWork)
  <2> HIDE DEF Eq
  <2> QED BY Zenon, <1>4, <1>5
<1>7. /\ ChainWork[Genesis] = Proof[Genesis] + 0
      /\ \A b \in Block \ {Genesis} : ChainWork[b] = Proof[b] + ChainWork[Parent[b]]
  BY Zenon, <1>6, Basics
<1> DEFINE T == {b \in Block : ChainWork[b] \in Nat}
<1>8. Inductive(T, Block, Genesis, Parent)
  <2>1. Genesis \in T BY <1>7, Basics
  <2>2. ASSUME NEW b \in Block \ {Genesis}, Parent[b] \in T PROVE b \in T BY <1>7, <2>2, Basics
  <2> HIDE DEF T
  <2> QED BY Zenon, <2>1, <2>2 DEF Inductive
<1>9. \A b \in Block : b \in T
  <2> HIDE DEF T
  <2> QED BY Zenon, <1>8, BlockTree, TreeInduction
<1>10. ChainWork \in [Block -> Nat]
  <2>1. \A b \in Block : ChainWork[b] \in Nat BY Zenon, <1>9
  <2> QED BY Zenon, <1>6, <2>1
<1> QED BY Zenon, <1>7, <1>10

\* A block is its own ancestor and descends from Genesis, its ancestors form one line, and
\* each of them has less work than the block.
LineFacts(b) ==
  /\ Ancestors[b] \subseteq Block /\ b \in Ancestors[b] /\ Genesis \in Ancestors[b]
  /\ \A a \in Ancestors[b] : Ancestors[a] \subseteq Ancestors[b]
  /\ \A a, c \in Ancestors[b] : a \in Ancestors[c] \/ c \in Ancestors[a]
  /\ \A a \in Ancestors[b] : a # b => ChainWork[a] < ChainWork[b]

\* Every block has the facts of LineFacts.
LEMMA Lines == \A b \in Block : LineFacts(b)
<1> DEFINE T == {b \in Block : LineFacts(b)}
<1>1. LineFacts(Genesis) BY Zenon, Basics, AncestorsDef DEF LineFacts
<1>2. ASSUME NEW b \in Block \ {Genesis}, LineFacts(Parent[b]) PROVE LineFacts(b)
  <2> DEFINE p == Parent[b]
  <2>1. p \in Block /\ Ancestors[b] = {b} \cup Ancestors[p] /\ Ancestors[p] \subseteq Block
    BY Zenon, Basics, AncestorsDef
  <2>2. ChainWork[p] < ChainWork[b] /\ ChainWork[p] \in Nat /\ ChainWork[b] \in Nat
    <3>1. ChainWork[p] \in Nat /\ ChainWork[b] \in Nat BY Zenon, <2>1, ChainWorkDef
    <3>2. ChainWork[b] = Proof[b] + ChainWork[p] /\ Proof[b] \in Nat \ {0} BY Zenon, Basics, ChainWorkDef
    <3> HIDE DEF p
    <3> QED BY <3>1, <3>2
  <2> HIDE DEF p
  <2>3. LineFacts(p) BY Zenon, <1>2 DEF p
  <2>4. ASSUME NEW a \in Ancestors[b], a # b PROVE ChainWork[a] < ChainWork[b]
    <3>1. a \in Ancestors[p] /\ ChainWork[a] \in Nat BY Zenon, <2>1, <2>4, ChainWorkDef
    <3>2. a = p \/ ChainWork[a] < ChainWork[p] BY Zenon, <2>3, <3>1 DEF LineFacts
    <3> QED BY <2>2, <3>1, <3>2
  <2>5. ASSUME NEW a \in Ancestors[b] PROVE Ancestors[a] \subseteq Ancestors[b]
    BY Zenon, <2>1, <2>3 DEF LineFacts
  <2>6. ASSUME NEW a \in Ancestors[b], NEW c \in Ancestors[b]
        PROVE  a \in Ancestors[c] \/ c \in Ancestors[a]
    BY Zenon, <2>1, <2>3 DEF LineFacts
  <2> QED BY Zenon, <2>1, <2>3, <2>4, <2>5, <2>6 DEF LineFacts
<1>3. Inductive(T, Block, Genesis, Parent)
  <2>1. Genesis \in T BY Zenon, <1>1, Basics
  <2>2. ASSUME NEW b \in Block \ {Genesis}, Parent[b] \in T PROVE b \in T BY Zenon, <1>2, <2>2
  <2> HIDE DEF T
  <2> QED BY Zenon, <2>1, <2>2 DEF Inductive
<1>4. \A b \in Block : b \in T
  <2> HIDE DEF T
  <2> QED BY Zenon, <1>3, BlockTree, TreeInduction
<1> QED BY Zenon, <1>4

\* Of two different blocks, only one can descend from the other.
LEMMA NoCycle ==
  ASSUME NEW a \in Block, NEW b \in Block, a \in Ancestors[b], b \in Ancestors[a]
  PROVE  a = b
<1>1. a # b => ChainWork[a] < ChainWork[b] /\ ChainWork[b] < ChainWork[a] BY Zenon, Lines DEF LineFacts
<1>2. ChainWork[a] \in Nat /\ ChainWork[b] \in Nat BY Zenon, ChainWorkDef
<1> QED BY <1>1, <1>2

\* A nonempty part of a chain has a highest and a lowest block.
LEMMA LineEnds ==
  ASSUME NEW b \in Block, NEW C \in SUBSET Ancestors[b], C # {}
  PROVE  /\ \E f \in C : \A g \in C : g \in Ancestors[f]
         /\ \E f \in C : \A g \in C : f \in Ancestors[g]
<1> DEFINE W == {ChainWork[c] : c \in C}
<1>1. LineFacts(b) BY Zenon, Lines
<1>2. C \subseteq Block BY Zenon, <1>1 DEF LineFacts
<1>3. ChainWork[b] \in Nat /\ \A c \in C : ChainWork[c] \in 0..ChainWork[b]
  <2>1. ChainWork[b] \in Nat /\ \A c \in C : ChainWork[c] \in Nat BY Zenon, <1>2, ChainWorkDef
  <2>2. \A c \in C : c = b \/ ChainWork[c] < ChainWork[b] BY Zenon, <1>1 DEF LineFacts
  <2> QED BY <2>1, <2>2
<1>4. W \subseteq 0..ChainWork[b] /\ W \subseteq Nat /\ W # {} BY <1>2, <1>3
<1>5. ASSUME NEW f \in C, NEW g \in C, ChainWork[g] <= ChainWork[f] PROVE g \in Ancestors[f]
  <2>1. g \in Ancestors[f] \/ f \in Ancestors[g] BY Zenon, <1>1 DEF LineFacts
  <2>2. CASE f \in Ancestors[g] /\ f # g
    <3>1. ChainWork[f] < ChainWork[g] BY Zenon, <1>2, <2>2, Lines DEF LineFacts
    <3>2. ChainWork[f] \in Nat /\ ChainWork[g] \in Nat BY Zenon, <1>2, ChainWorkDef
    <3> QED BY <1>5, <3>1, <3>2
  <2>3. CASE f = g BY Zenon, <1>2, <2>3, Lines DEF LineFacts
  <2> QED BY Zenon, <2>1, <2>2, <2>3
<1>6. PICK w \in W : \A v \in W : v <= w
  <2> HIDE DEF W
  <2> QED BY Zenon, <1>3, <1>4, GreatestExists
<1>7. PICK u \in W : \A v \in W : u <= v
  <2> HIDE DEF W
  <2> QED BY Zenon, <1>4, LeastExists
<1>8. PICK f \in C : w = ChainWork[f] BY Zenon, <1>6
<1>9. PICK l \in C : u = ChainWork[l] BY Zenon, <1>7
<1> QED BY <1>5, <1>6, <1>7, <1>8, <1>9

\* Two blocks have a last common ancestor.
LEMMA ForkFacts ==
  ASSUME NEW t \in Block, NEW b \in Block
  PROVE  /\ FindFork(t, b) \in Ancestors[t] \cap Ancestors[b]
         /\ Ancestors[t] \cap Ancestors[b] \subseteq Ancestors[FindFork(t, b)]
<1> DEFINE C == Ancestors[t] \cap Ancestors[b]
<1>1. C \in SUBSET Ancestors[t] /\ C # {} BY Zenon, Lines DEF LineFacts
<1>2. FindFork(t, b) = CHOOSE x \in C : \A g \in C : g \in Ancestors[x] BY Zenon DEF FindFork
<1> HIDE DEF C
<1>3. FindFork(t, b) \in C /\ \A g \in C : g \in Ancestors[FindFork(t, b)]
  BY <1>1, <1>2, LineEnds
<1> QED BY Zenon, <1>3 DEF C

-----------------------------------------------------------------------------
(* The order of the candidates. *)

\* CBlockIndexWorkComparator is a total order of the blocks in which a block comes after
\* its ancestors.
WorseFacts(s) ==
  /\ \A a, b \in Block : ~(Worse(s, a, b) /\ Worse(s, b, a))
  /\ \A a, b \in Block : a # b => Worse(s, a, b) \/ Worse(s, b, a)
  /\ \A a, b, c \in Block : Worse(s, a, b) /\ Worse(s, b, c) => Worse(s, a, c)
  /\ \A b \in Block : \A a \in Ancestors[b] : a # b => Worse(s, a, b)

\* The same in terms of blocks that are not worse than others.
NoWorseFacts(s) ==
  /\ \A a \in Block : ~Worse(s, a, a)
  /\ \A a, b, c \in Block : ~Worse(s, a, b) /\ ~Worse(s, b, c) => ~Worse(s, a, c)
  /\ \A b \in Block : \A a \in Ancestors[b] : ~Worse(s, b, a)
  /\ \A a, b \in Block : ~Worse(s, a, b) => ChainWork[b] <= ChainWork[a]

\* Worse has these facts, whatever the sequence numbers are.
LEMMA WorseOrder ==
  ASSUME addr \in Addresses, NEW s \in [Block -> Nat]
  PROVE  WorseFacts(s) /\ NoWorseFacts(s)
<1>1. addr \in [Block -> Nat] /\ \A x, y \in Block : addr[x] = addr[y] => x = y
  BY Zenon, ChainSelectionAssumption
<1>2. \A a \in Block : ChainWork[a] \in Nat /\ s[a] \in Nat /\ addr[a] \in Nat
  BY Zenon, <1>1, ChainWorkDef
<1>3. \A a, b \in Block : ~(Worse(s, a, b) /\ Worse(s, b, a)) BY <1>2 DEF Worse
<1>4. \A a, b \in Block : a # b => Worse(s, a, b) \/ Worse(s, b, a) BY <1>1, <1>2 DEF Worse
<1>5. \A a, b, c \in Block : Worse(s, a, b) /\ Worse(s, b, c) => Worse(s, a, c)
  BY <1>2 DEF Worse
<1>6. \A b \in Block : \A a \in Ancestors[b] : a # b => Worse(s, a, b)
  BY Zenon, Lines DEF LineFacts, Worse
<1>7. WorseFacts(s) BY Zenon, <1>3, <1>4, <1>5, <1>6 DEF WorseFacts
<1>8. \A a, b \in Block : ~Worse(s, a, b) => ChainWork[b] <= ChainWork[a] BY <1>2 DEF Worse
<1>9. /\ \A a \in Block : ~Worse(s, a, a)
      /\ \A a, b, c \in Block : ~Worse(s, a, b) /\ ~Worse(s, b, c) => ~Worse(s, a, c)
  BY Zenon, <1>3, <1>4, <1>5
<1>10. ASSUME NEW b \in Block, NEW a \in Ancestors[b] PROVE ~Worse(s, b, a)
  <2>1. a \in Block BY Zenon, Lines DEF LineFacts
  <2> QED BY Zenon, <1>3, <1>6, <1>9, <2>1
<1> QED BY Zenon, <1>7, <1>8, <1>9, <1>10 DEF NoWorseFacts

\* A nonempty set of blocks has a best one.
LEMMA BestExists ==
  ASSUME addr \in Addresses, seq \in [Block -> Nat], NEW S \in SUBSET Block, S # {}
  PROVE  Best(S) \in S /\ \A c \in S : ~Worse(seq, Best(S), c)
<1> DEFINE R == {p \in Block \X Block : Worse(seq, p[1], p[2])}
<1>1. WorseFacts(seq) BY Zenon, WorseOrder
<1>2. \A x, y \in Block : <<x, y>> \in R <=> Worse(seq, x, y) BY Zenon
<1>3. Orders(R, Block)
  <2> HIDE DEF R
  <2> QED BY Zenon, <1>1, <1>2 DEF WorseFacts, Orders
<1>4. IsFiniteSet(Block) BY Zenon, ChainSelectionAssumption
<1>5. HasGreatest(R, S)
  <2> HIDE DEF R
  <2> QED BY Zenon, <1>3, <1>4, FiniteGreatest
<1>6. PICK b \in S : \A c \in S \ {b} : Worse(seq, c, b)
  <2> HIDE DEF R
  <2> QED BY Zenon, <1>2, <1>5 DEF HasGreatest
<1>7. Best(S) \in S /\ \A c \in S \ {Best(S)} : Worse(seq, c, Best(S)) BY Zenon, <1>6 DEF Best
<1> HIDE DEF R
<1> QED BY Zenon, <1>1, <1>7 DEF WorseFacts

-----------------------------------------------------------------------------
(* The first invariant: the variables have their types, the index holds the  *)
(* parents of its blocks, nChainTx and mapBlocksUnlinked are exact, and the  *)
(* tip, the candidates and the target are blocks whose chains have data.     *)

TypeInv ==
  /\ index \in SUBSET Block /\ data \in SUBSET Block
  /\ invalid \in SUBSET Block /\ child \in SUBSET Block /\ unsaved \in SUBSET Block
  /\ seq \in [Block -> Nat] /\ addr \in Addresses
  /\ tip \in Block /\ mostWork \in Block \cup {Null} /\ starting \in Block
  /\ phase \in {"idle", "released", "held", "aborted"} /\ owed \in BOOLEAN

IndexInv ==
  /\ data \subseteq index /\ \A x \in index : Ancestors[x] \subseteq index
  /\ LinksMatchTree
  /\ {tip, starting} \subseteq linked /\ candidates \subseteq linked
  /\ mostWork # Null => mostWork \in linked

TreeInv == TypeInv /\ IndexInv

\* The initial state.
LEMMA InitTree == Init => TreeInv
<1>1. SUFFICES ASSUME Init PROVE TreeInv BY Zenon
<1>2. TypeInv
  <2>1. seq \in [Block -> Nat] BY Zenon, <1>1 DEF Init
  <2> QED BY Zenon, <1>1, <2>1, Basics DEF Init, TypeInv
<1>3. IndexInv BY Zenon, <1>1, Basics, AncestorsDef DEF Init, IndexInv, LinksMatchTree
<1> QED BY Zenon, <1>2, <1>3 DEF TreeInv

\* The first free sequence number.
LEMMA NextSeqType == ASSUME seq \in [Block -> Nat] PROVE NextSeq \in Nat \ {0}
<1> DEFINE S == {seq[b] : b \in Block}
           Q == {p \in Block \X Block : seq[p[1]] <= seq[p[2]]}
<1>1. \A x, y \in Block : <<x, y>> \in Q <=> seq[x] <= seq[y] BY Zenon
<1>2. \A x \in Block : seq[x] \in Nat BY Zenon
<1> HIDE DEF Q
<1>3. Orders(Q, Block) BY <1>1, <1>2 DEF Orders
<1>4. Block # {} /\ IsFiniteSet(Block) BY Zenon, ChainSelectionAssumption
<1>5. HasGreatest(Q, Block) BY Zenon, <1>3, <1>4, FiniteGreatest
<1>6. PICK m \in Block : \A x \in Block \ {m} : <<x, m>> \in Q BY Zenon, <1>5 DEF HasGreatest
<1>7. ASSUME NEW x \in Block PROVE seq[x] <= seq[m]
  <2>1. CASE x = m BY <1>2, <2>1
  <2>2. CASE x # m BY Zenon, <1>1, <1>6, <2>2
  <2> QED BY Zenon, <2>1, <2>2
<1>8. \E n \in S : \A b \in Block : seq[b] <= n BY Zenon, <1>7
<1> DEFINE n == CHOOSE n \in S : \A b \in Block : seq[b] <= n
<1>9. n \in S BY Zenon, <1>8
<1>10. n \in Nat BY Zenon, <1>2, <1>9
<1>11. NextSeq = 1 + n BY Zenon DEF NextSeq
<1> HIDE DEF n
<1> QED BY <1>10, <1>11

\* Numbering the newly linked blocks leaves the other numbers alone.
LEMMA LinkSequenceFacts ==
  ASSUME seq \in [Block -> Nat], NEW b \in Block, NEW q \in LinkOrders(b)
  PROVE  /\ LinkSequence(q) \in [Block -> Nat]
         /\ \A x \in Block \ NowLinked(b) : LinkSequence(q)[x] = seq[x]
<1>1. NextSeq \in Nat \ {0} BY Zenon, NextSeqType
<1>2. DOMAIN q = NowLinked(b) /\ \A x \in NowLinked(b) : q[x] \in Nat \ {0} BY DEF LinkOrders
<1>3. ASSUME NEW x \in Block
      PROVE  /\ (IF x \in DOMAIN q THEN NextSeq + q[x] - 1 ELSE seq[x]) \in Nat
             /\ x \notin NowLinked(b) => x \notin DOMAIN q
  <2>1. CASE x \in DOMAIN q
    <3>1. q[x] \in Nat \ {0} BY Zenon, <1>2, <2>1
    <3> QED BY <1>1, <1>2, <2>1, <3>1
  <2>2. CASE x \notin DOMAIN q BY Zenon, <1>2, <2>2
  <2> QED BY Zenon, <2>1, <2>2
<1> QED BY Zenon, <1>3 DEF LinkSequence

\* When the transactions of b arrive, NowLinked(b) is exactly what becomes linked.
LEMMA NowLinkedExact ==
  ASSUME TreeInv, NEW b \in Block \ {Genesis}, b \notin data, Parent[b] \in index
  PROVE  /\ Parent[b] \in linked =>
              {x \in index \cup {b} : Ancestors[x] \subseteq data \cup {b}} = linked \cup NowLinked(b)
         /\ Parent[b] \notin linked =>
              {x \in index \cup {b} : Ancestors[x] \subseteq data \cup {b}} = linked
         /\ NowLinked(b) \cap linked = {} /\ NowLinked(b) \subseteq data \cup {b}
         /\ b \notin linked
<1> DEFINE p == Parent[b]
<1>1. /\ index \subseteq Block /\ data \subseteq index /\ \A x \in index : Ancestors[x] \subseteq index
      /\ \A x \in index : x \in linked <=> Ancestors[x] \subseteq data
      /\ linked \subseteq index /\ unlinked = data \ linked
  BY Zenon DEF TreeInv, TypeInv, IndexInv, LinksMatchTree
<1>2. p \in Block /\ Ancestors[b] = {b} \cup Ancestors[p] BY Zenon, Basics, AncestorsDef
<1>3. b \in Ancestors[b] /\ b \notin linked BY Zenon, <1>1, Lines DEF LineFacts
<1>4. b \notin Ancestors[p]
  <2>1. p \in Ancestors[b] /\ (b \in Ancestors[p] => b = p) BY Zenon, <1>2, Lines, NoCycle DEF LineFacts
  <2>2. b = p => ChainWork[b] = Proof[b] + ChainWork[b] BY Zenon, ChainWorkDef
  <2>3. ChainWork[b] \in Nat /\ Proof[b] \in Nat \ {0} BY Zenon, Basics, ChainWorkDef
  <2> QED BY <2>1, <2>2, <2>3
<1>5. \A x \in Block : b \in Ancestors[x] => p \in Ancestors[x] /\ Ancestors[p] \subseteq Ancestors[x]
  BY Zenon, <1>2, Lines DEF LineFacts
<1>6. NowLinked(b) \cap linked = {} /\ NowLinked(b) \subseteq data \cup {b}
  BY Zenon, <1>1, <1>3 DEF NowLinked
<1>7. ASSUME NEW x \in index \cup {b}, Ancestors[x] \subseteq data \cup {b}, x \notin linked
      PROVE  p \in linked /\ x \in NowLinked(b)
  <2>1. b \in Ancestors[x] BY Zenon, <1>1, <1>3, <1>7
  <2>2. x \in Block /\ LineFacts(x) BY Zenon, <1>1, Lines
  <2>3. p \in linked BY <1>1, <1>2, <1>4, <1>5, <1>7, <2>1, <2>2
  <2>4. CASE x = b BY Zenon, <2>3, <2>4 DEF NowLinked
  <2>5. CASE x # b
    <3>1. x \in unlinked BY Zenon, <1>1, <1>7, <2>2, <2>5 DEF LineFacts
    <3>2. ASSUME NEW y \in Above(b, x) PROVE y \in unlinked
      <4>1. y \in Ancestors[x] /\ y \notin Ancestors[b] BY Zenon, <3>2 DEF Above
      <4>2. y \in data /\ y \in index BY Zenon, <1>1, <1>3, <1>7, <4>1
      <4>3. b \in Ancestors[y] BY Zenon, <2>1, <2>2, <4>1 DEF LineFacts
      <4> QED BY Zenon, <1>1, <4>2, <4>3
    <3> QED BY Zenon, <2>1, <2>3, <3>1, <3>2 DEF NowLinked
  <2> QED BY Zenon, <2>3, <2>4, <2>5
<1>8. ASSUME p \in linked, NEW x \in NowLinked(b)
      PROVE  x \in index \cup {b} /\ Ancestors[x] \subseteq data \cup {b}
  <2>1. CASE x = b BY Zenon, <1>1, <1>2, <1>8, <2>1
  <2>2. CASE x # b
    <3>1. x \in data /\ b \in Ancestors[x] /\ Above(b, x) \subseteq data BY Zenon, <1>1, <2>2 DEF NowLinked
    <3>2. Ancestors[x] \subseteq Above(b, x) \cup Ancestors[b] BY Zenon DEF Above
    <3>3. Ancestors[b] \subseteq data \cup {b} BY Zenon, <1>1, <1>2, <1>8
    <3> QED BY Zenon, <1>1, <3>1, <3>2, <3>3
  <2> QED BY Zenon, <2>1, <2>2
<1>9. \A x \in linked : x \in index \cup {b} /\ Ancestors[x] \subseteq data \cup {b} BY Zenon, <1>1
<1> QED BY Zenon, <1>3, <1>6, <1>7, <1>8, <1>9

\* AcceptBlock links NowLinked(b) or nothing, and the new blocks that are not worse than the
\* tip become candidates.  What was linked keeps its sequence number.
LEMMA AcceptEffect ==
  ASSUME TreeInv, NEW b \in Block \ {Genesis}, AcceptBlock(b)
  PROVE  /\ TreeInv'
         /\ linked \subseteq linked' /\ \A x \in linked : seq'[x] = seq[x]
         /\ candidates' = candidates \cup {x \in linked' \ linked : ~Worse(seq', x, tip)}
<1>1. /\ b \notin data /\ Parent[b] \in index
      /\ index' = index \cup {b} /\ data' = data \cup {b} /\ owed' = TRUE
      /\ UNCHANGED <<addr, invalid, child, unsaved, tip, phase, mostWork, starting>>
  BY Zenon DEF AcceptBlock, HeaderAcceptable, ReceivedBlockTransactions, flags, abc
<1>2. TypeInv /\ IndexInv BY Zenon DEF TreeInv
<1>3. /\ index \subseteq Block /\ data \subseteq index /\ \A x \in index : Ancestors[x] \subseteq index
      /\ linked \subseteq index /\ unlinked = data \ linked
  BY Zenon, <1>2 DEF TypeInv, IndexInv, LinksMatchTree
<1>4. \A x \in index' : Ancestors[x] \subseteq index'
  <2>1. Ancestors[b] = {b} \cup Ancestors[Parent[b]] BY Zenon, AncestorsDef
  <2> QED BY Zenon, <1>1, <1>3, <2>1
<1> DEFINE L == {x \in index' : Ancestors[x] \subseteq data'}
<1>5. /\ Parent[b] \in linked => L = linked \cup NowLinked(b)
      /\ Parent[b] \notin linked => L = linked
      /\ NowLinked(b) \cap linked = {} /\ NowLinked(b) \subseteq data \cup {b} /\ b \notin linked
  BY <1>1, NowLinkedExact
<1>6. /\ linked' = L /\ linked \subseteq linked' /\ unlinked' = data' \ linked'
      /\ seq' \in [Block -> Nat] /\ \A x \in linked : seq'[x] = seq[x]
      /\ candidates' = candidates \cup {x \in linked' \ linked : ~Worse(seq', x, tip)}
  <2> HIDE DEF L
  <2>1. CASE Parent[b] \in linked
    <3>1. PICK q \in LinkOrders(b) : seq' = LinkSequence(q)
      BY Zenon, <2>1 DEF AcceptBlock, ReceivedBlockTransactions
    <3>2. /\ linked' = linked \cup NowLinked(b) /\ unlinked' = unlinked \ NowLinked(b)
          /\ candidates' = candidates \cup {x \in NowLinked(b) : ~Worse(seq', x, tip)}
      BY Zenon, <2>1 DEF AcceptBlock, ReceivedBlockTransactions
    <3>3. seq' \in [Block -> Nat] /\ \A x \in Block \ NowLinked(b) : seq'[x] = seq[x]
      BY ZenonT(30), <1>2, <3>1, LinkSequenceFacts DEF TypeInv
    <3>4. linked' \ linked = NowLinked(b) BY Zenon, <1>5, <3>2
    <3>5. b \in NowLinked(b) BY Zenon DEF NowLinked
    <3> QED BY <1>1, <1>3, <1>5, <2>1, <3>2, <3>3, <3>4, <3>5
  <2>2. CASE Parent[b] \notin linked
    <3>1. unlinked' = unlinked \cup {b} /\ UNCHANGED <<linked, seq, candidates>>
      BY Zenon, <2>2 DEF AcceptBlock, ReceivedBlockTransactions
    <3> QED BY Zenon, <1>1, <1>2, <1>3, <1>5, <2>2, <3>1 DEF TypeInv
  <2> QED BY Zenon, <2>1, <2>2
<1>7. TypeInv' BY ZenonT(30), <1>1, <1>2, <1>6 DEF TypeInv
<1>8. IndexInv'
  <2>1. LinksMatchTree' BY Zenon, <1>6 DEF LinksMatchTree
  <2> HIDE DEF L
  <2>2. candidates' \subseteq linked' BY Zenon, <1>2, <1>6 DEF IndexInv
  <2> QED BY Zenon, <1>1, <1>2, <1>3, <1>4, <1>6, <2>1, <2>2 DEF IndexInv
<1> QED BY Zenon, <1>6, <1>7, <1>8 DEF TreeInv

-----------------------------------------------------------------------------
(* FindMostWorkChain and ActivateBestChainStep. *)

\* FindMostWorkChain finds the best usable candidate, and every block that it drops has a
\* failed ancestor above the active chain.
LEMMA FoundFacts ==
  ASSUME TreeInv
  PROVE  /\ FoundMostWork = Null => \A c \in candidates : Unusable(c)
         /\ FoundMostWork # Null =>
              /\ FoundMostWork \in candidates /\ ~Unusable(FoundMostWork)
              /\ \A c \in candidates : ~Unusable(c) => ~Worse(seq, FoundMostWork, c)
         /\ \A x \in DroppedPaths :
              /\ x \in Block /\ x \notin Ancestors[tip]
              /\ \E f \in Failed : f \in Ancestors[x] /\ f \notin Ancestors[tip]
<1> DEFINE usable == {c \in candidates : ~Unusable(c)}
<1>1. TypeInv /\ candidates \subseteq Block /\ tip \in Block
  BY Zenon DEF TreeInv, TypeInv, IndexInv, LinksMatchTree
<1>2. FoundMostWork = IF usable = {} THEN Null ELSE Best(usable) BY Zenon DEF FoundMostWork
<1>3. usable # {} => Best(usable) \in usable /\ \A c \in usable : ~Worse(seq, Best(usable), c)
  BY Zenon, <1>1, BestExists DEF TypeInv
<1>4. ASSUME NEW x \in DroppedPaths
      PROVE  /\ x \in Block /\ x \notin Ancestors[tip]
             /\ \E f \in Failed : f \in Ancestors[x] /\ f \notin Ancestors[tip]
  <2>1. PICK c \in Dropped : x \in DownToFailed(c) BY Zenon, <1>4 DEF DroppedPaths
  <2>2. c \in Block /\ LineFacts(c) /\ Unusable(c) BY Zenon, <1>1, <2>1, Lines DEF Dropped
  <2>3. x \in Ancestors[c] /\ x \notin Ancestors[tip] /\ (Ancestors[c] \ Ancestors[x]) \cap Failed = {}
    BY Zenon, <2>1 DEF DownToFailed, Above
  <2>4. PICK f \in Failed : f \in Ancestors[c] /\ f \notin Ancestors[tip] BY Zenon, <2>2 DEF Unusable, Above
  <2>5. f \in Ancestors[x] BY Zenon, <2>3, <2>4
  <2> QED BY Zenon, <2>2, <2>3, <2>4, <2>5 DEF LineFacts
<1>5. usable # {} => Best(usable) # Null BY Zenon, <1>1, <1>3, Basics
<1> HIDE DEF usable
<1>6. FoundMostWork = Null => usable = {} BY Zenon, <1>2, <1>5
<1>7. FoundMostWork # Null => FoundMostWork \in usable /\ \A c \in usable : ~Worse(seq, FoundMostWork, c)
  BY Zenon, <1>2, <1>3
<1> QED BY Zenon, <1>4, <1>6, <1>7 DEF usable

\* The tip after a step towards m.
NewTip(m) == IF Connected(m) = {} THEN FindFork(tip, m)
             ELSE CHOOSE x \in Connected(m) : Connected(m) \subseteq Ancestors[x]

\* A step disconnects down to the fork or connects blocks of m's chain that are valid.  The
\* block it finds invalid is above the new tip.  A step that finds none connects some.
LEMMA StepFacts ==
  ASSUME tip \in Block, NEW m \in Block
  PROVE  /\ NewTip(m) \in Ancestors[m]
         /\ Connected(m) = {} => NewTip(m) \in Ancestors[tip]
         /\ Connected(m) # {} => NewTip(m) \notin Ancestors[tip]
         /\ Above(tip, NewTip(m)) \cap BadConnect = {}
         /\ \A x \in FoundInvalid(m) : /\ x \in Above(tip, m) \cap BadConnect
                                       /\ x \notin Ancestors[NewTip(m)]
         /\ FoundInvalid(m) = {} /\ m \notin Ancestors[tip] => Connected(m) # {}
<1> DEFINE C == Connected(m)
           new == NewTip(m)
<1>1. LineFacts(m) /\ LineFacts(tip) BY Zenon, Lines
<1>2. C \subseteq Ancestors[m] /\ \A x \in C : x \notin Ancestors[tip] /\ Above(tip, x) \cap BadConnect = {}
  BY Zenon DEF Connected, Above
<1>3. C # {} => new \in C /\ C \subseteq Ancestors[new]
  <2>1. C # {} => \E x \in C : \A y \in C : y \in Ancestors[x] BY <1>2, LineEnds
  <2>2. C # {} => \E x \in C : C \subseteq Ancestors[x] BY Zenon, <2>1
  <2> QED BY Zenon, <2>2 DEF NewTip
<1>4. C = {} => new \in Ancestors[tip] /\ new \in Ancestors[m] BY Zenon, ForkFacts DEF NewTip
<1>5. C = {} => Above(tip, new) = {} BY Zenon, <1>1, <1>4 DEF LineFacts, Above
<1>6. ASSUME NEW x \in FoundInvalid(m)
      PROVE  x \in Above(tip, m) \cap BadConnect /\ x \notin Ancestors[new]
  <2>1. x \in Above(tip, m) \cap BadConnect /\ x \notin Ancestors[tip]
    BY Zenon, <1>6 DEF FoundInvalid, Above
  <2>2. C # {} => x \notin Ancestors[new] BY Zenon, <1>2, <1>3, <2>1 DEF Above
  <2>3. C = {} => x \notin Ancestors[new] BY Zenon, <1>1, <1>4, <2>1 DEF LineFacts
  <2> QED BY Zenon, <2>1, <2>2, <2>3
<1>7. ASSUME FoundInvalid(m) = {}, m \notin Ancestors[tip], C = {} PROVE FALSE
  <2>1. Above(tip, m) \in SUBSET Ancestors[m] /\ m \in Above(tip, m)
    BY Zenon, <1>1, <1>7 DEF Above, LineFacts
  <2>2. PICK x \in Above(tip, m) : \A y \in Above(tip, m) : x \in Ancestors[y] BY <2>1, LineEnds
  <2>3. x \in Block /\ LineFacts(x) BY Zenon, <1>1, <2>1, <2>2, Lines DEF LineFacts
  <2>4. Above(tip, x) = {x}
    <3>1. x \in Above(tip, x) BY Zenon, <2>2, <2>3 DEF Above, LineFacts
    <3>2. ASSUME NEW y \in Above(tip, x) PROVE y = x
      <4>1. y \in Above(tip, m) BY Zenon, <1>1, <2>1, <2>2, <3>2 DEF Above, LineFacts
      <4>2. x \in Ancestors[y] /\ y \in Ancestors[x] /\ y \in Block
        BY Zenon, <2>2, <2>3, <3>2, <4>1 DEF Above, LineFacts
      <4> QED BY Zenon, <2>3, <4>2, NoCycle
    <3> QED BY Zenon, <3>1, <3>2
  <2>5. CASE x \in BadConnect
    <3>1. Above(tip, x) \ {x} = C BY Zenon, <1>7, <2>4
    <3>2. ~\E y \in C : ChainWork[y] > ChainWork[tip] BY Zenon, <1>7
    <3> QED BY Zenon, <1>7, <2>2, <2>5, <3>1, <3>2 DEF FoundInvalid
  <2>6. CASE x \notin BadConnect
    <3>1. Above(tip, x) \cap BadConnect = {} /\ Above(tip, x) \ {x} = {} BY Zenon, <2>4, <2>6
    <3>2. x \in C BY Zenon, <2>2, <3>1 DEF Connected
    <3> QED BY Zenon, <1>7, <3>2
  <2> QED BY Zenon, <2>5, <2>6
<1> HIDE DEF C, new
<1>8. /\ new \in Ancestors[m]
      /\ C = {} => new \in Ancestors[tip]
      /\ C # {} => new \notin Ancestors[tip]
      /\ Above(tip, new) \cap BadConnect = {}
  BY Zenon, <1>2, <1>3, <1>4, <1>5
<1> QED BY Zenon, <1>6, <1>7, <1>8 DEF C, new

\* The ancestors of a linked block are linked.
LEMMA LinkedDown ==
  ASSUME TreeInv, NEW x \in linked, NEW a \in Ancestors[x]
  PROVE  a \in linked /\ a \in Block /\ x \in Block
<1>1. x \in index /\ x \in Block /\ Ancestors[x] \subseteq data /\ Ancestors[x] \subseteq index
  BY Zenon DEF TreeInv, TypeInv, IndexInv, LinksMatchTree
<1>2. Ancestors[a] \subseteq Ancestors[x] /\ a \in Block BY Zenon, <1>1, Lines DEF LineFacts
<1> QED BY Zenon, <1>1, <1>2 DEF TreeInv, IndexInv, LinksMatchTree

\* What a turn of the loop aims at: the target m, the candidates S that FindMostWorkChain
\* leaves and the blocks it marks.
Target(m, S, mark) ==
  \/ mostWork # Null /\ m = mostWork /\ S = candidates /\ mark = {}
  \/ mostWork = Null /\ m = FoundMostWork /\ S = candidates \ DroppedPaths /\ mark = MarkedChild

\* The turn ends the loop, or the iteration,
Quiet(m, S) ==
  /\ m \in {Null, tip}
  /\ phase' = IF phase = "held" /\ m = Null THEN "released" ELSE "idle"
  /\ mostWork' = m /\ candidates' = S /\ UNCHANGED <<tip, invalid>>

\* or it makes a step towards m.
Step(m, S) ==
  /\ m \in linked \ {tip}
  /\ tip' = NewTip(m) /\ invalid' = invalid \cup FoundInvalid(m)
  /\ candidates' = (IF Connected(m) = {} THEN S ELSE Prune(S, tip')) \ FoundInvalid(m)
  /\ mostWork' = IF FoundInvalid(m) = {} THEN m ELSE Null
  /\ phase' = IF Connected(m) # {} /\ Prune(S, tip') = {} THEN "aborted"
              ELSE IF Worse(seq, tip', starting') THEN "held"
              ELSE IF mostWork' = tip' THEN "idle" ELSE "released"

\* Every turn is one of the two.
LEMMA ActivateEffect ==
  ASSUME TreeInv, Activate
  PROVE  /\ phase \in {"released", "held"}
         /\ starting' = IF phase = "released" THEN tip ELSE starting
         /\ UNCHANGED <<index, data, linked, seq, addr, unlinked, owed>>
         /\ \E m, S, mark : /\ Target(m, S, mark) /\ (Quiet(m, S) \/ Step(m, S))
                            /\ child' = child \cup mark
                            /\ unsaved' \in SUBSET (unsaved \cup mark)
<1> DEFINE m == IF mostWork = Null THEN FoundMostWork ELSE mostWork
           S == IF mostWork = Null THEN candidates \ DroppedPaths ELSE candidates
           mark == IF mostWork = Null THEN MarkedChild ELSE {}
<1>1. /\ phase \in {"released", "held"} /\ child' = child \cup mark
      /\ starting' = IF phase = "released" THEN tip ELSE starting
      /\ UNCHANGED <<index, data, linked, seq, addr, unlinked, owed>>
  BY Zenon DEF Activate, tree
<1>2. Target(m, S, mark) BY Zenon DEF Target
<1>3. m = Null \/ m \in linked BY Zenon, FoundFacts DEF TreeInv, IndexInv
<1>4. /\ m \in {Null, tip} => Quiet(m, S) /\ unsaved' = unsaved \cup mark
      /\ m \notin {Null, tip} => ActivateBestChainStep(m, S, mark)
  BY Zenon DEF Activate, Quiet
<1> HIDE DEF m, S, mark
<1>5. ASSUME m \notin {Null, tip} PROVE Step(m, S) /\ unsaved' \subseteq unsaved \cup mark
  <2>1. ActivateBestChainStep(m, S, mark) BY ZenonT(30), <1>4, <1>5
  <2>2. /\ tip' = NewTip(m) /\ invalid' = invalid \cup FoundInvalid(m)
        /\ unsaved' = (unsaved \cup mark) \ FoundInvalid(m)
        /\ mostWork' = IF FoundInvalid(m) = {} THEN m ELSE Null
    BY Zenon, <2>1 DEF ActivateBestChainStep, NewTip
  <2>3. candidates' = (IF Connected(m) = {} THEN S ELSE Prune(S, NewTip(m))) \ FoundInvalid(m)
    BY Zenon, <2>1 DEF ActivateBestChainStep, NewTip
  <2>4. phase' = IF Connected(m) # {} /\ Prune(S, NewTip(m)) = {} THEN "aborted"
                 ELSE IF Worse(seq, NewTip(m), starting') THEN "held"
                 ELSE IF mostWork' = NewTip(m) THEN "idle" ELSE "released"
    BY Zenon, <2>1 DEF ActivateBestChainStep, NewTip
  <2> QED BY ZenonT(30), <1>3, <1>5, <2>2, <2>3, <2>4 DEF Step
<1> QED BY ZenonT(30), <1>1, <1>2, <1>4, <1>5

\* A turn of the loop keeps the first invariant.
LEMMA ActivateTree == ASSUME TreeInv, Activate PROVE TreeInv'
<1>1. PICK m, S, mark : /\ Target(m, S, mark) /\ (Quiet(m, S) \/ Step(m, S))
                        /\ child' = child \cup mark /\ unsaved' \in SUBSET (unsaved \cup mark)
  BY Zenon, ActivateEffect
<1>2. /\ starting' \in {tip, starting}
      /\ UNCHANGED <<index, data, linked, seq, addr, unlinked, owed>>
  BY Zenon, ActivateEffect
<1>3. TypeInv /\ IndexInv BY Zenon DEF TreeInv
<1>4. S \subseteq candidates /\ mark \subseteq Block
  BY Zenon, <1>1, FoundFacts DEF Target, MarkedChild
<1>5. linked \subseteq Block BY Zenon, <1>3 DEF TypeInv, IndexInv, LinksMatchTree
<1>6. /\ tip' \in linked /\ mostWork' \in linked \cup {Null} /\ candidates' \subseteq candidates
      /\ invalid' \subseteq Block /\ phase' \in {"idle", "released", "held", "aborted"}
  <2>1. CASE Quiet(m, S) BY Zenon, <1>3, <1>4, <2>1 DEF Quiet, TypeInv, IndexInv
  <2>2. CASE Step(m, S)
    <3>1. m \in linked /\ m \in Block BY Zenon, <1>5, <2>2 DEF Step
    <3>2. NewTip(m) \in Ancestors[m] /\ FoundInvalid(m) \subseteq Ancestors[m]
      BY Zenon, <1>3, <3>1, StepFacts DEF TypeInv, Above
    <3>3. NewTip(m) \in linked /\ FoundInvalid(m) \subseteq Block BY Zenon, <3>1, <3>2, LinkedDown
    <3>4. /\ phase' \in {"idle", "released", "held", "aborted"} /\ mostWork' \in linked \cup {Null}
          /\ tip' = NewTip(m) /\ invalid' = invalid \cup FoundInvalid(m)
      BY Zenon, <2>2 DEF Step
    <3>5. candidates' \subseteq S BY Zenon, <2>2 DEF Step, Prune
    <3> QED BY Zenon, <1>3, <1>4, <3>3, <3>4, <3>5 DEF TypeInv
  <2> QED BY Zenon, <1>1, <2>1, <2>2
<1>7. TypeInv' BY ZenonT(30), <1>1, <1>2, <1>3, <1>4, <1>5, <1>6 DEF TypeInv
<1>8. IndexInv' BY Zenon, <1>2, <1>3, <1>6 DEF IndexInv, LinksMatchTree
<1> QED BY Zenon, <1>7, <1>8 DEF TreeInv

\* A block and its parent.
LEMMA ParentFacts ==
  ASSUME NEW b \in Block \ {Genesis}
  PROVE  /\ Parent[b] \in Block /\ Ancestors[b] = {b} \cup Ancestors[Parent[b]]
         /\ Parent[b] \in Ancestors[b] /\ b \notin Ancestors[Parent[b]]
<1>1. Parent[b] \in Block /\ Ancestors[b] = {b} \cup Ancestors[Parent[b]] BY Zenon, Basics, AncestorsDef
<1>2. Parent[b] \in Ancestors[b] BY Zenon, <1>1, Lines DEF LineFacts
<1>3. b \in Ancestors[Parent[b]] => b = Parent[b] BY Zenon, <1>1, <1>2, NoCycle
<1>4. b = Parent[b] => ChainWork[b] = Proof[b] + ChainWork[b] BY Zenon, ChainWorkDef
<1>5. ChainWork[b] \in Nat /\ Proof[b] \in Nat \ {0} BY Zenon, Basics, ChainWorkDef
<1> QED BY <1>1, <1>2, <1>3, <1>4, <1>5

\* A header enters the index.
LEMMA HeaderTree ==
  ASSUME TreeInv, NEW b \in Block \ {Genesis}, HeaderAcceptable(b), index' = index \cup {b},
         invalid' \in {invalid, invalid \cup {b}}, unsaved' \in SUBSET unsaved,
         UNCHANGED <<data, linked, seq, addr, child, candidates, unlinked, tip, abc, owed>>
  PROVE  TreeInv'
<1>1. TypeInv /\ IndexInv BY Zenon DEF TreeInv
<1>2. b \notin data /\ Parent[b] \in index BY Zenon DEF HeaderAcceptable
<1>3. Ancestors[b] = {b} \cup Ancestors[Parent[b]] BY Zenon, ParentFacts
<1>4. TypeInv' BY Zenon, <1>1 DEF TypeInv, abc
<1>5. \A x \in index' : Ancestors[x] \subseteq index' BY Zenon, <1>1, <1>2, <1>3 DEF IndexInv
<1>6. LinksMatchTree' BY Zenon, <1>1, <1>2, <1>3 DEF IndexInv, LinksMatchTree
<1>7. IndexInv' BY Zenon, <1>1, <1>5, <1>6 DEF IndexInv, abc
<1> QED BY Zenon, <1>4, <1>7 DEF TreeInv

\* invalidateblock moves the tip to the parent of b if b is in the active chain.
LEMMA InvalidateTree ==
  ASSUME TreeInv, NEW b \in Block, InvalidateBlock(b)
  PROVE  TreeInv' /\ b \in Block \ {Genesis} /\ tip' \in Ancestors[tip]
<1> DEFINE walk == IF b \in Ancestors[tip] THEN {x \in Ancestors[tip] : b \in Ancestors[x]} ELSE {}
<1>1. TypeInv /\ IndexInv BY Zenon DEF TreeInv
<1>2. /\ b \in Block \ {Genesis} /\ owed' = TRUE
      /\ invalid' = invalid \cup {b} /\ child' = child \cup walk /\ unsaved' \subseteq unsaved
      /\ tip' = (IF walk = {} THEN tip ELSE Parent[b]) /\ candidates' \subseteq candidates \cup linked
      /\ UNCHANGED <<index, data, linked, seq, addr, unlinked, phase, mostWork, starting>>
  BY Zenon DEF InvalidateBlock, Call, tree, abc
<1>3. walk \subseteq Block BY Zenon, <1>1, Lines DEF TypeInv, LineFacts
<1>4. tip' \in Ancestors[tip]
  <2>1. walk # {} => b \in Ancestors[tip] BY Zenon
  <2>2. tip \in Block /\ LineFacts(tip) BY Zenon, <1>1, Lines DEF TypeInv
  <2> HIDE DEF walk
  <2> QED BY Zenon, <1>2, <2>1, <2>2, ParentFacts DEF LineFacts
<1>5. tip' \in linked /\ tip' \in Block
  <2>1. tip \in linked BY Zenon, <1>1 DEF IndexInv
  <2> QED BY Zenon, <1>4, <2>1, LinkedDown
<1> HIDE DEF walk
<1>6. TypeInv' BY Zenon, <1>1, <1>2, <1>3, <1>5 DEF TypeInv
<1>7. IndexInv' BY Zenon, <1>1, <1>2, <1>5 DEF IndexInv, LinksMatchTree
<1> QED BY Zenon, <1>2, <1>4, <1>6, <1>7 DEF TreeInv

\* A restart computes nChainTx and mapBlocksUnlinked again and gets the same.
LEMMA RestartTree ==
  ASSUME TreeInv, Restart
  PROVE  TreeInv' /\ UNCHANGED <<linked, unlinked>>
<1>1. TypeInv /\ IndexInv BY Zenon DEF TreeInv
<1>2. /\ addr' \in Addresses /\ seq' = [b \in Block |-> 0] /\ child' \subseteq child /\ unsaved' = {}
      /\ linked' = {b \in data : Ancestors[b] \subseteq data} /\ unlinked' = data \ linked'
      /\ candidates' \subseteq linked' /\ phase' \in {"aborted", "idle"}
      /\ mostWork' = Null /\ starting' = tip /\ owed' = TRUE
      /\ UNCHANGED <<index, data, invalid, tip>>
  BY Zenon DEF Restart
<1>3. linked' = linked
  <2>1. \A x \in index : x \in Ancestors[x] BY Zenon, <1>1, Lines DEF TypeInv, LineFacts
  <2>2. linked = {x \in index : Ancestors[x] \subseteq data} /\ data \subseteq index
    BY Zenon, <1>1 DEF IndexInv, LinksMatchTree
  <2> QED BY Zenon, <1>2, <2>1, <2>2
<1>4. unlinked' = unlinked BY ZenonT(30), <1>1, <1>2, <1>3 DEF IndexInv, LinksMatchTree
<1>5. TypeInv'
  <2>1. seq' \in [Block -> Nat] BY Zenon, <1>2
  <2> QED BY Zenon, <1>1, <1>2, <2>1 DEF TypeInv
<1>6. IndexInv' BY <1>1, <1>2, <1>3, <1>4 DEF IndexInv, LinksMatchTree
<1> QED BY Zenon, <1>3, <1>4, <1>5, <1>6 DEF TreeInv

\* Every step keeps the first invariant.
LEMMA NextTree == TreeInv /\ [Next]_vars => TreeInv'
<1> SUFFICES ASSUME TreeInv, [Next]_vars PROVE TreeInv' BY Zenon
<1>1. CASE UNCHANGED vars
  BY Zenon, <1>1 DEF vars, tree, flags, abc, TreeInv, TypeInv, IndexInv, LinksMatchTree
<1>2. ASSUME NEW b \in Block \ {Genesis}, AcceptHeaderOnly(b) PROVE TreeInv'
  <2>1. /\ HeaderAcceptable(b) /\ index' = index \cup {b} /\ invalid' = invalid /\ unsaved' = unsaved
        /\ UNCHANGED <<data, linked, seq, addr, child, candidates, unlinked, tip, abc, owed>>
    BY Zenon, <1>2 DEF AcceptHeaderOnly, flags
  <2> QED BY Zenon, <2>1, HeaderTree
<1>3. ASSUME NEW b \in Block \ {Genesis}, AcceptBadContext(b) PROVE TreeInv'
  <2>1. /\ HeaderAcceptable(b) /\ index' = index \cup {b} /\ invalid' = invalid \cup {b}
        /\ unsaved' \subseteq unsaved
        /\ UNCHANGED <<data, linked, seq, addr, child, candidates, unlinked, tip, abc, owed>>
    BY Zenon, <1>3 DEF AcceptBadContext
  <2> QED BY Zenon, <2>1, HeaderTree
<1>4. ASSUME NEW b \in Block \ {Genesis}, AcceptBlock(b) PROVE TreeInv' BY Zenon, <1>4, AcceptEffect
<1>5. CASE BeginActivate
  BY Zenon, <1>5 DEF BeginActivate, tree, flags, TreeInv, TypeInv, IndexInv, LinksMatchTree
<1>6. CASE Activate BY Zenon, <1>6, ActivateTree
<1>7. ASSUME NEW b \in Block, InvalidateBlock(b) PROVE TreeInv' BY Zenon, <1>7, InvalidateTree
<1>8. ASSUME NEW b \in Block, ReconsiderBlock(b) PROVE TreeInv'
  <2>1. /\ invalid' \subseteq invalid /\ child' \subseteq child /\ unsaved' \subseteq unsaved
        /\ candidates' \subseteq candidates \cup linked /\ owed' = TRUE
        /\ UNCHANGED <<index, data, linked, seq, addr, unlinked, tip, phase, mostWork, starting>>
    BY Zenon, <1>8 DEF ReconsiderBlock, Call, tree, abc
  <2>2. TypeInv' BY Zenon, <2>1 DEF TreeInv, TypeInv
  <2>3. IndexInv' BY Zenon, <2>1 DEF TreeInv, IndexInv, LinksMatchTree
  <2> QED BY Zenon, <2>2, <2>3 DEF TreeInv
<1>9. CASE Restart BY Zenon, <1>9, RestartTree
<1> QED BY Zenon, <1>1, <1>2, <1>3, <1>4, <1>5, <1>6, <1>7, <1>8, <1>9 DEF Next

\* In every behaviour.
LEMMA TreeInvariant == Spec => []TreeInv
  BY InitTree, NextTree, PTL DEF Spec

\* ReceivedBlockTransactions and LoadBlockIndexDB keep nChainTx and mapBlocksUnlinked exact,
\* in whatever order headers, blocks, calls and restarts come: CheckBlockIndex's assertions
\* about them hold.
THEOREM LinksExact == Spec => []LinksMatchTree
<1>1. TreeInv => LinksMatchTree BY Zenon DEF TreeInv, IndexInv
<1> QED BY <1>1, TreeInvariant, PTL


-----------------------------------------------------------------------------
(* Failure flags. *)

\* The operator reconsiders a block only if none of its ancestors is marked
\* BLOCK_FAILED_VALID.  reconsiderblock clears the flags of all ancestors but reaches no
\* other descendant of theirs.
ReconsiderLowest ==
  \A b \in Block : ReconsiderBlock(b) => Ancestors[b] \cap invalid \subseteq {b}

CauseInv == \A x \in Failed : Ancestors[x] \cap invalid # {}

\* Every step keeps the causes of failures.
LEMMA NextCause ==
  ASSUME TreeInv, CauseInv, [Next]_vars, [ReconsiderLowest]_vars
  PROVE  CauseInv'
<1>1. TypeInv BY Zenon DEF TreeInv
<1>2. CASE UNCHANGED vars BY Zenon, <1>2 DEF vars, flags, CauseInv, Failed
<1>3. ASSUME NEW b \in Block \ {Genesis}, AcceptHeaderOnly(b) \/ AcceptBlock(b) PROVE CauseInv'
  <2>1. UNCHANGED <<invalid, child>> BY Zenon, <1>3 DEF AcceptHeaderOnly, AcceptBlock, flags
  <2> QED BY Zenon, <2>1 DEF CauseInv, Failed
<1>4. ASSUME NEW b \in Block \ {Genesis}, AcceptBadContext(b) PROVE CauseInv'
  <2>1. invalid' = invalid \cup {b} /\ child' = child BY Zenon, <1>4 DEF AcceptBadContext
  <2>2. b \in Ancestors[b] BY Zenon, Lines DEF LineFacts
  <2> QED BY Zenon, <2>1, <2>2 DEF CauseInv, Failed
<1>5. CASE BeginActivate BY Zenon, <1>5 DEF BeginActivate, flags, CauseInv, Failed
<1>6. CASE Activate
  <2>1. PICK m, S, mark : /\ Target(m, S, mark) /\ (Quiet(m, S) \/ Step(m, S))
                          /\ child' = child \cup mark
    BY Zenon, <1>6, ActivateEffect
  <2>2. ASSUME NEW x \in mark PROVE Ancestors[x] \cap invalid # {}
    <3>1. x \in DroppedPaths BY Zenon, <2>1, <2>2 DEF Target, MarkedChild
    <3>2. PICK f \in Failed : x \in Block /\ f \in Ancestors[x] BY Zenon, <3>1, FoundFacts
    <3>3. Ancestors[f] \subseteq Ancestors[x] BY Zenon, <3>2, Lines DEF LineFacts
    <3> QED BY Zenon, <3>2, <3>3 DEF CauseInv
  <2>3. invalid \subseteq invalid' /\ \A x \in invalid' : x \in invalid \/ x \in Ancestors[x]
    <3>1. CASE Quiet(m, S) BY Zenon, <3>1 DEF Quiet
    <3>2. CASE Step(m, S)
      <4>1. invalid' = invalid \cup FoundInvalid(m) /\ m \in Block
        BY Zenon, <1>1, <3>2 DEF Step, TreeInv, TypeInv, IndexInv, LinksMatchTree
      <4>2. \A x \in FoundInvalid(m) : x \in Ancestors[m] BY Zenon, <1>1, <4>1, StepFacts DEF TypeInv, Above
      <4>3. \A x \in FoundInvalid(m) : x \in Ancestors[x] BY Zenon, <4>1, <4>2, Lines DEF LineFacts
      <4> QED BY Zenon, <4>1, <4>3
    <3> QED BY Zenon, <2>1, <3>1, <3>2
  <2> QED BY Zenon, <2>1, <2>2, <2>3 DEF CauseInv, Failed
<1>7. ASSUME NEW b \in Block, InvalidateBlock(b) PROVE CauseInv'
  <2>1. /\ invalid' = invalid \cup {b}
        /\ child' \subseteq child \cup {x \in Ancestors[tip] : b \in Ancestors[x]}
    BY Zenon, <1>7 DEF InvalidateBlock
  <2>2. b \in Ancestors[b] BY Zenon, Lines DEF LineFacts
  <2> QED BY Zenon, <2>1, <2>2 DEF CauseInv, Failed
<1>8. ASSUME NEW b \in Block, ReconsiderBlock(b) PROVE CauseInv'
  <2> DEFINE cleared == {x \in Failed : b \in Ancestors[x]} \cup Ancestors[b]
  <2>1. invalid' = invalid \ cleared /\ child' = child \ cleared BY Zenon, <1>8 DEF ReconsiderBlock
  <2>2. SUFFICES ASSUME ReconsiderLowest PROVE CauseInv' BY Zenon, <1>2
  <2>3. Ancestors[b] \cap invalid \subseteq {b} BY Zenon, <1>8, <2>2 DEF ReconsiderLowest
  <2>4. ASSUME NEW x \in Failed, x \notin cleared, NEW y \in Ancestors[x], y \in invalid
        PROVE  y \notin cleared
    <3>1. x \in Block /\ y \in Block BY Zenon, <1>1, <2>4, Lines DEF Failed, TypeInv, LineFacts
    <3>2. b \in Ancestors[y] => b \in Ancestors[x] BY Zenon, <2>4, <3>1, Lines DEF LineFacts
    <3>3. y = b => b \in Ancestors[y] BY Zenon, Lines DEF LineFacts
    <3> QED BY ZenonT(30), <2>3, <2>4, <3>2, <3>3
  <2>5. Failed' = Failed \ cleared BY Zenon, <2>1 DEF Failed
  <2> HIDE DEF cleared
  <2> QED BY Zenon, <2>1, <2>4, <2>5 DEF CauseInv
<1>9. CASE Restart
  <2>1. invalid' = invalid /\ child' \subseteq child BY Zenon, <1>9 DEF Restart
  <2> QED BY Zenon, <2>1 DEF CauseInv, Failed
<1> QED BY Zenon, <1>2, <1>3, <1>4, <1>5, <1>6, <1>7, <1>8, <1>9 DEF Next

\* In every behaviour in which the operator reconsiders the lowest invalid block.
LEMMA CauseInvariant == Spec /\ [][ReconsiderLowest]_vars => []CauseInv
<1>1. Init => CauseInv BY Zenon DEF Init, CauseInv, Failed
<1>2. TreeInv /\ CauseInv /\ [Next]_vars /\ [ReconsiderLowest]_vars => CauseInv' BY Zenon, NextCause
<1> QED BY <1>1, <1>2, TreeInvariant, PTL DEF Spec

\* CheckBlockIndex: a block is marked as failed only if it or an ancestor of it was found
\* invalid, also when FindMostWorkChain marks paths and calls of invalidateblock come between
\* two iterations.
THEOREM FailuresHaveCauses == Spec /\ [][ReconsiderLowest]_vars => []FailureHasCause
<1>1. CauseInv => FailureHasCause BY Zenon DEF CauseInv, FailureHasCause
<1> QED BY <1>1, CauseInvariant, PTL

-----------------------------------------------------------------------------
(* The active chain, when no RPC call comes between two iterations. *)

Good(x) == Ancestors[x] \cap (Failed \cup BadConnect) = {}

\* The active chain is valid, and so is what lies between it and the target.  While cs_main
\* is held, the chain the iteration started from is valid as well.
ValidInv ==
  /\ Good(tip)
  /\ phase \in {"released", "held"} /\ mostWork # Null => Above(tip, mostWork) \cap Failed = {}
  /\ phase = "held" => Good(starting)

\* The path to the target of a turn holds no failed block, and neither FindMostWorkChain nor
\* ConnectTip marks a block of a chain that is valid.
LEMMA TargetValid ==
  ASSUME TreeInv, ValidInv, phase \in {"released", "held"},
         NEW m, NEW S, NEW mark, Target(m, S, mark)
  PROVE  /\ m # Null => m \in linked /\ Above(tip, m) \cap (Failed \cup mark) = {}
         /\ mark \subseteq Block
         /\ \A x \in Block : Ancestors[x] \cap Failed = {} => Ancestors[x] \cap mark = {}
<1>1. ASSUME NEW x \in mark
      PROVE  /\ x \in Block /\ x \notin Ancestors[tip]
             /\ \E f \in Failed : f \in Ancestors[x] /\ f \notin Ancestors[tip]
  <2>1. x \in DroppedPaths BY Zenon, <1>1 DEF Target, MarkedChild
  <2> QED BY Zenon, <2>1, FoundFacts
<1>2. m # Null => m \in linked /\ Above(tip, m) \cap Failed = {}
  <2>1. CASE mostWork # Null BY Zenon, <2>1 DEF Target, ValidInv, TreeInv, IndexInv
  <2>2. CASE mostWork = Null
    <3>1. m = FoundMostWork BY Zenon, <2>2 DEF Target
    <3> QED BY Zenon, <3>1, FoundFacts DEF Unusable, TreeInv, IndexInv
  <2> QED BY Zenon, <2>1, <2>2
<1>3. ASSUME NEW x \in Block, NEW y \in Ancestors[x] \cap mark
      PROVE  \E f \in Failed : f \in Ancestors[x] /\ f \notin Ancestors[tip]
  <2>1. PICK f \in Failed : f \in Ancestors[y] /\ f \notin Ancestors[tip] BY Zenon, <1>1, <1>3
  <2>2. Ancestors[y] \subseteq Ancestors[x] BY Zenon, <1>3, Lines DEF LineFacts
  <2> QED BY Zenon, <2>1, <2>2
<1>4. m \in linked => m \in Block BY Zenon DEF TreeInv, TypeInv, IndexInv, LinksMatchTree
<1>5. m # Null => Above(tip, m) \cap mark = {} BY ZenonT(30), <1>2, <1>3, <1>4 DEF Above
<1> QED BY Zenon, <1>1, <1>2, <1>3, <1>5

\* A turn of the loop keeps the active chain valid.
LEMMA ActivateValid == ASSUME TreeInv, ValidInv, Activate PROVE ValidInv'
<1>1. PICK m, S, mark : /\ Target(m, S, mark) /\ (Quiet(m, S) \/ Step(m, S))
                        /\ child' = child \cup mark
  BY Zenon, ActivateEffect
<1>2. /\ phase \in {"released", "held"}
      /\ starting' = IF phase = "released" THEN tip ELSE starting
  BY Zenon, ActivateEffect
<1>3. tip \in Block /\ starting \in Block /\ linked \subseteq Block
  BY Zenon DEF TreeInv, TypeInv, IndexInv, LinksMatchTree
<1>4. /\ m # Null => m \in linked /\ Above(tip, m) \cap (Failed \cup mark) = {}
      /\ \A x \in Block : Ancestors[x] \cap Failed = {} => Ancestors[x] \cap mark = {}
  BY Zenon, <1>1, <1>2, TargetValid
<1>5. ASSUME NEW x \in Block, Good(x), Failed' \subseteq Failed \cup mark \cup BadConnect PROVE Good(x)'
  BY Zenon, <1>4, <1>5 DEF Good
<1>6. CASE Quiet(m, S)
  <2>1. Failed' = Failed \cup mark /\ tip' = tip BY Zenon, <1>1, <1>6 DEF Quiet, Failed
  <2>2. phase' \in {"released", "idle"} /\ (phase' = "released" => mostWork' = Null)
    BY Zenon, <1>6 DEF Quiet
  <2> QED BY Zenon, <1>3, <1>5, <2>1, <2>2 DEF ValidInv
<1>7. CASE Step(m, S)
  <2>1. /\ m \in linked /\ m \in Block /\ m # Null /\ tip' = NewTip(m)
        /\ mostWork' = IF FoundInvalid(m) = {} THEN m ELSE Null
    BY Zenon, <1>3, <1>7, Basics DEF Step
  <2>2. Failed' = Failed \cup mark \cup FoundInvalid(m) BY Zenon, <1>1, <1>7 DEF Step, Failed
  <2>3. /\ NewTip(m) \in Ancestors[m] /\ Above(tip, NewTip(m)) \cap BadConnect = {}
        /\ FoundInvalid(m) \subseteq BadConnect /\ FoundInvalid(m) \cap Ancestors[NewTip(m)] = {}
    BY Zenon, <1>3, <2>1, StepFacts
  <2>4. Above(tip, m) \cap (Failed \cup mark) = {} BY Zenon, <1>4, <2>1
  <2>5. Good(tip) /\ Ancestors[tip] \cap mark = {} BY Zenon, <1>3, <1>4 DEF ValidInv, Good
  <2>6. Good(tip)'
    <3>1. Ancestors[NewTip(m)] \subseteq Ancestors[m] BY Zenon, <2>1, <2>3, Lines DEF LineFacts
    <3>2. Ancestors[NewTip(m)] \subseteq Ancestors[tip] \cup Above(tip, m) BY Zenon, <3>1 DEF Above
    <3>3. Ancestors[NewTip(m)] \subseteq Ancestors[tip] \cup Above(tip, NewTip(m)) BY Zenon DEF Above
    <3> QED BY ZenonT(30), <2>1, <2>2, <2>3, <2>4, <2>5, <3>2, <3>3 DEF Good
  <2>7. mostWork' # Null => Above(tip', mostWork') \cap Failed' = {}
    <3>1. SUFFICES ASSUME FoundInvalid(m) = {}, mostWork' = m PROVE Above(tip', m) \cap Failed' = {}
      BY Zenon, <2>1
    <3>2. Above(tip', m) \subseteq Ancestors[tip] \cup Above(tip, m) BY Zenon DEF Above
    <3> QED BY Zenon, <2>2, <2>4, <2>5, <3>1, <3>2 DEF Good
  <2>8. phase' = "held" => Good(starting)'
    <3>1. Good(starting') /\ starting' \in Block BY Zenon, <1>2, <1>3 DEF ValidInv
    <3>2. Failed' \subseteq Failed \cup mark \cup BadConnect BY Zenon, <2>2, <2>3
    <3> QED BY Zenon, <1>4, <3>1, <3>2 DEF Good
  <2> QED BY Zenon, <2>6, <2>7, <2>8 DEF ValidInv
<1> QED BY Zenon, <1>1, <1>6, <1>7

\* Every step keeps the active chain valid.
LEMMA NextValid ==
  ASSUME ~RpcDuringActivation, TreeInv, ValidInv, [Next]_vars
  PROVE  ValidInv'
<1>1. TypeInv /\ {tip, starting} \subseteq linked /\ (mostWork # Null => mostWork \in linked)
  BY Zenon DEF TreeInv, IndexInv
<1>2. \A x \in linked : Ancestors[x] \subseteq data BY Zenon DEF TreeInv, IndexInv, LinksMatchTree
<1>3. CASE UNCHANGED vars BY Zenon, <1>3 DEF vars, flags, abc, ValidInv, Good, Failed
<1>4. ASSUME NEW b \in Block \ {Genesis}, AcceptHeaderOnly(b) \/ AcceptBlock(b) PROVE ValidInv'
  <2>1. UNCHANGED <<invalid, child, tip, phase, mostWork, starting>>
    BY Zenon, <1>4 DEF AcceptHeaderOnly, AcceptBlock, flags, abc
  <2> QED BY Zenon, <2>1 DEF ValidInv, Good, Failed
<1>5. ASSUME NEW b \in Block \ {Genesis}, AcceptBadContext(b) PROVE ValidInv'
  <2>1. Failed' = Failed \cup {b} /\ b \notin data /\ UNCHANGED <<tip, phase, mostWork, starting>>
    BY Zenon, <1>5 DEF AcceptBadContext, HeaderAcceptable, Failed, abc
  <2>2. b \notin Ancestors[tip] /\ b \notin Ancestors[starting]
    BY Zenon, <1>1, <1>2, <2>1
  <2>3. mostWork # Null => b \notin Above(tip, mostWork) BY Zenon, <1>1, <1>2, <2>1 DEF Above
  <2> QED BY Zenon, <2>1, <2>2, <2>3 DEF ValidInv, Good
<1>6. CASE BeginActivate BY Zenon, <1>6 DEF BeginActivate, flags, ValidInv, Good, Failed
<1>7. CASE Activate BY Zenon, <1>7, ActivateValid
<1>8. ASSUME NEW b \in Block, InvalidateBlock(b) PROVE ValidInv'
  <2> DEFINE walk == IF b \in Ancestors[tip] THEN {x \in Ancestors[tip] : b \in Ancestors[x]} ELSE {}
  <2>1. /\ b \in Block \ {Genesis} /\ phase' = "idle"
        /\ Failed' = Failed \cup walk \cup {b}
        /\ tip' = IF walk = {} THEN tip ELSE Parent[b]
    BY Zenon, <1>8 DEF InvalidateBlock, Call, abc, Failed
  <2>2. tip \in Block /\ tip' \in Ancestors[tip] BY Zenon, <1>1, <1>8, InvalidateTree DEF TypeInv
  <2>3. Ancestors[tip'] \subseteq Ancestors[tip] BY Zenon, <2>2, Lines DEF LineFacts
  <2>4. \A x \in walk \cup {b} : x \notin Ancestors[tip']
    <3>1. CASE b \in Ancestors[tip]
      <4>1. tip \in walk BY Zenon, <2>2, <3>1, Lines DEF LineFacts
      <4>2. tip' = Parent[b] BY Zenon, <2>1, <4>1
      <4>3. b \notin Ancestors[Parent[b]] /\ Parent[b] \in Block BY Zenon, <2>1, ParentFacts
      <4>4. \A x \in Ancestors[Parent[b]] : Ancestors[x] \subseteq Ancestors[Parent[b]]
        BY Zenon, <4>3, Lines DEF LineFacts
      <4> QED BY Zenon, <4>2, <4>3, <4>4
    <3>2. CASE b \notin Ancestors[tip] BY Zenon, <2>3, <3>2
    <3> QED BY Zenon, <3>1, <3>2
  <2> HIDE DEF walk
  <2>5. Good(tip)' BY ZenonT(30), <2>1, <2>3, <2>4 DEF ValidInv, Good
  <2> QED BY Zenon, <2>1, <2>5 DEF ValidInv
<1>9. ASSUME NEW b \in Block, ReconsiderBlock(b) PROVE ValidInv'
  <2>1. Failed' \subseteq Failed /\ phase' = "idle" /\ tip' = tip
    BY Zenon, <1>9 DEF ReconsiderBlock, Call, abc, Failed
  <2> QED BY Zenon, <2>1 DEF ValidInv, Good
<1>10. CASE Restart
  <2>1. Failed' \subseteq Failed /\ phase' \in {"idle", "aborted"} /\ tip' = tip
    BY Zenon, <1>10 DEF Restart, Failed
  <2> QED BY Zenon, <2>1 DEF ValidInv, Good
<1> QED BY Zenon, <1>3, <1>4, <1>5, <1>6, <1>7, <1>8, <1>9, <1>10 DEF Next

\* The initial state.
LEMMA InitValid == Init => ValidInv
  BY ChainSelectionAssumption, AncestorsDef DEF Init, ValidInv, Good, Failed

\* In every behaviour.
LEMMA ValidInvariant == ASSUME ~RpcDuringActivation PROVE Spec => []ValidInv
<1>1. TreeInv /\ ValidInv /\ [Next]_vars => ValidInv' BY Zenon, NextValid
<1> QED BY <1>1, InitValid, TreeInvariant, PTL DEF Spec

\* No block of the active chain is marked as failed, as long as the RPC calls wait for
\* ActivateBestChain to end.  The run stale_most_work shows that the condition is needed.
THEOREM ActiveChainIsValid == ASSUME ~RpcDuringActivation PROVE Spec => []ActiveChainValid
<1>1. ValidInv => ActiveChainValid BY Zenon DEF ValidInv, ActiveChainValid, Good
<1> QED BY <1>1, ValidInvariant, PTL

-----------------------------------------------------------------------------
(* The candidates and the best chain. *)

\* The tip that the candidates must cover: while cs_main is held, the one from which the
\* iteration started.
Floor == IF phase = "held" THEN starting ELSE tip

\* No candidate is worse than the tip, every linked block that is neither marked as failed
\* nor worse than the floor is a candidate, and so is the target.
CandInv ==
  /\ phase # "aborted" /\ (phase = "held" => Worse(seq, tip, starting))
  /\ \A c \in candidates : ~Worse(seq, c, tip)
  /\ \A x \in linked \ Failed : ~Worse(seq, x, Floor) => x \in candidates
  /\ phase \in {"released", "held"} /\ mostWork # Null =>
       mostWork \in candidates /\ mostWork # tip /\ ~Worse(seq, mostWork, Floor)

\* Unless another call of ActivateBestChain is due, no good chain has more work than the tip
\* on which the loop ended or than the target it is heading for.
Covers(b) == \A x \in linked : Good(x) => ChainWork[x] <= ChainWork[b]

BestInv ==
  ~owed => /\ phase = "idle" => Covers(tip)
           /\ phase \in {"released", "held"} /\ mostWork # Null => Covers(mostWork)

SelectInv == CandInv /\ BestInv

\* What a turn of the loop aims at: the floor is a usable candidate, so that there is a
\* target, and it is no worse than the floor.
LEMMA TargetBest ==
  ASSUME TreeInv, ValidInv, SelectInv, phase \in {"released", "held"},
         NEW m, NEW S, NEW mark, Target(m, S, mark), child' = child \cup mark, invalid \subseteq invalid'
  PROVE  /\ m # Null /\ m \in S /\ m \in linked /\ S \subseteq candidates
         /\ ~Worse(seq, m, Floor) /\ (m = tip => mostWork = Null)
         /\ ~owed \/ mostWork = Null => Covers(m)
         /\ \A x \in linked \ Failed' : ~Worse(seq, x, Floor) => x \in S
<1>1. /\ TypeInv /\ tip \in linked /\ starting \in linked /\ linked \subseteq Block
      /\ candidates \subseteq linked
  BY Zenon DEF TreeInv, TypeInv, IndexInv, LinksMatchTree
<1>2. WorseFacts(seq) /\ NoWorseFacts(seq) BY Zenon, <1>1, WorseOrder DEF TypeInv
<1>3. Floor \in linked /\ Floor \in Block /\ Good(Floor) BY Zenon, <1>1 DEF Floor, ValidInv
<1>4. CandInv /\ BestInv BY Zenon DEF SelectInv
<1>5. Floor \in candidates /\ ~Unusable(Floor)
  <2>1. Floor \notin Failed BY Zenon, <1>3, Lines DEF Good, LineFacts
  <2>2. ~Worse(seq, Floor, Floor) BY Zenon, <1>2, <1>3 DEF NoWorseFacts
  <2> QED BY Zenon, <1>3, <1>4, <2>1, <2>2 DEF CandInv, Good, Unusable, Above
<1>6. CASE mostWork # Null
  <2>1. m = mostWork /\ S = candidates /\ mark = {} BY Zenon, <1>6 DEF Target
  <2>2. m \in candidates /\ m # tip /\ ~Worse(seq, m, Floor) BY Zenon, <1>4, <1>6, <2>1 DEF CandInv
  <2>3. ~owed => Covers(m) BY Zenon, <1>4, <1>6, <2>1 DEF BestInv
  <2>4. \A x \in linked \ Failed' : ~Worse(seq, x, Floor) => x \in S
    BY ZenonT(30), <1>4, <2>1 DEF CandInv, Failed
  <2> QED BY Zenon, <1>1, <1>6, <2>1, <2>2, <2>3, <2>4
<1>7. CASE mostWork = Null
  <2>1. m = FoundMostWork /\ S = candidates \ DroppedPaths /\ mark = MarkedChild
    BY Zenon, <1>7 DEF Target
  <2>2. /\ m # Null /\ m \in candidates /\ ~Unusable(m)
        /\ \A c \in candidates : ~Unusable(c) => ~Worse(seq, m, c)
    BY Zenon, <1>5, <2>1, FoundFacts
  <2>3. m \in S
    <3>1. m \in DroppedPaths => \E f \in Failed : f \in Ancestors[m] /\ f \notin Ancestors[tip]
      BY Zenon, FoundFacts
    <3>2. m \in DroppedPaths => Unusable(m) BY Zenon, <3>1 DEF Unusable, Above
    <3> QED BY Zenon, <2>1, <2>2, <3>2
  <2>4. ~Worse(seq, m, Floor) BY Zenon, <1>5, <2>2
  <2>5. ASSUME NEW x \in linked, Good(x) PROVE ChainWork[x] <= ChainWork[m]
    <3>1. x \in Block /\ m \in Block /\ x \notin Failed /\ ~Unusable(x)
      BY Zenon, <1>1, <2>2, <2>5, Lines DEF Good, LineFacts, Unusable, Above
    <3>2. CASE ~Worse(seq, x, Floor)
      <4>1. ~Worse(seq, m, x) BY ZenonT(30), <1>4, <2>2, <2>5, <3>1, <3>2 DEF CandInv
      <4> QED BY Zenon, <1>2, <3>1, <4>1 DEF NoWorseFacts
    <3>3. CASE Worse(seq, x, Floor)
      <4>1. ~Worse(seq, Floor, x) BY Zenon, <1>2, <1>3, <3>1, <3>3 DEF WorseFacts
      <4>2. ~Worse(seq, m, x) BY Zenon, <1>2, <1>3, <2>4, <3>1, <4>1 DEF NoWorseFacts
      <4> QED BY Zenon, <1>2, <3>1, <4>2 DEF NoWorseFacts
    <3> QED BY Zenon, <3>2, <3>3
  <2>6. ASSUME NEW x \in linked \ Failed', ~Worse(seq, x, Floor) PROVE x \in S
    <3>1. x \notin Failed /\ x \notin mark BY Zenon, <2>6 DEF Failed
    <3>2. x \in candidates BY ZenonT(30), <1>4, <2>6, <3>1 DEF CandInv
    <3> QED BY Zenon, <2>1, <3>1, <3>2 DEF MarkedChild
  <2> QED BY ZenonT(30), <1>1, <1>7, <2>1, <2>2, <2>3, <2>4, <2>5, <2>6 DEF Covers
<1> QED BY Zenon, <1>6, <1>7

\* A turn of the loop keeps the candidates and never aborts, and it gives cs_main back only
\* on a tip that is no worse than the one the iteration started from.
LEMMA ActivateSelect ==
  ASSUME TreeInv, ValidInv, SelectInv, Activate
  PROVE  SelectInv' /\ (phase' # "held" => ~Worse(seq, tip', Floor))
<1>1. PICK m, S, mark : /\ Target(m, S, mark) /\ (Quiet(m, S) \/ Step(m, S))
                        /\ child' = child \cup mark
  BY Zenon, ActivateEffect
<1>2. /\ phase \in {"released", "held"} /\ starting' = Floor
      /\ UNCHANGED <<index, data, linked, seq, addr, owed>>
  BY Zenon, ActivateEffect DEF Floor
<1>3. /\ TypeInv /\ tip \in linked /\ starting \in linked /\ linked \subseteq Block
      /\ candidates \subseteq linked /\ Floor \in Block /\ tip \in Block
  BY Zenon DEF TreeInv, TypeInv, IndexInv, LinksMatchTree, Floor
<1>4. WorseFacts(seq) /\ NoWorseFacts(seq) BY Zenon, <1>3, WorseOrder DEF TypeInv
<1>5. CandInv /\ BestInv BY Zenon DEF SelectInv
<1>6. invalid \subseteq invalid' BY Zenon, <1>1 DEF Quiet, Step
<1>7. /\ m # Null /\ m \in S /\ m \in linked /\ m \in Block /\ S \subseteq candidates
      /\ ~Worse(seq, m, Floor) /\ (m = tip => mostWork = Null)
      /\ ~owed \/ mostWork = Null => Covers(m)
      /\ \A x \in linked \ Failed' : ~Worse(seq, x, Floor) => x \in S
  BY ZenonT(30), <1>1, <1>2, <1>3, <1>6, TargetBest
<1>8. \A x, y \in Block : Worse(seq, x, y)' <=> Worse(seq, x, y) BY Zenon, <1>2 DEF Worse
<1>9. ~owed' => Covers(m)'
  <2>1. Failed \subseteq Failed' BY Zenon, <1>1, <1>6 DEF Failed
  <2>2. \A x \in linked : Good(x)' => Good(x) BY Zenon, <2>1 DEF Good
  <2> QED BY Zenon, <1>2, <1>7, <2>2 DEF Covers
<1>10. CASE Quiet(m, S)
  <2>1. m = tip /\ tip' = tip /\ candidates' = S /\ mostWork' = m BY Zenon, <1>7, <1>10 DEF Quiet
  <2>2. phase = "released" /\ phase' = "idle" /\ Floor = tip
    <3>1. phase # "held" BY Zenon, <1>5, <1>7, <2>1 DEF CandInv, Floor
    <3> QED BY Zenon, <1>2, <1>10, <3>1 DEF Quiet, Floor
  <2>3. Floor' = tip BY Zenon, <2>1, <2>2 DEF Floor
  <2>4. \A c \in S : ~Worse(seq, c, tip)' BY Zenon, <1>2, <1>3, <1>5, <1>7, <1>8, <2>1 DEF CandInv
  <2>5. \A x \in linked' \ Failed' : ~Worse(seq, x, Floor)' => x \in S
    BY ZenonT(30), <1>2, <1>3, <1>7, <1>8, <2>2, <2>3 DEF Worse
  <2>6. CandInv' BY Zenon, <2>1, <2>2, <2>4, <2>5 DEF CandInv
  <2>7. BestInv' BY Zenon, <1>9, <2>1, <2>2 DEF BestInv
  <2> QED BY ZenonT(30), <1>3, <1>4, <2>1, <2>2, <2>6, <2>7 DEF SelectInv, NoWorseFacts
<1>11. CASE Step(m, S)
  <2> DEFINE new == NewTip(m)
             K == IF Connected(m) = {} THEN S ELSE Prune(S, new)
  <2>1. /\ tip' = new /\ candidates' = K \ FoundInvalid(m) /\ invalid' = invalid \cup FoundInvalid(m)
        /\ mostWork' = (IF FoundInvalid(m) = {} THEN m ELSE Null)
        /\ phase' = IF Connected(m) # {} /\ Prune(S, new) = {} THEN "aborted"
                    ELSE IF Worse(seq, new, starting') THEN "held"
                    ELSE IF mostWork' = new THEN "idle" ELSE "released"
    BY Zenon, <1>11 DEF Step
  <2>2. /\ new \in Ancestors[m] /\ (Connected(m) = {} => new \in Ancestors[tip])
        /\ FoundInvalid(m) = {} /\ m \notin Ancestors[tip] => Connected(m) # {}
    BY Zenon, <1>3, <1>7, StepFacts
  <2>3. new \in Block /\ ~Worse(seq, m, new) BY Zenon, <1>4, <1>7, <2>2, Lines DEF NoWorseFacts, LineFacts
  <2>4. \A c \in K : c \in S /\ ~Worse(seq, c, new)
    <3>1. CASE Connected(m) = {}
      <4>1. ~Worse(seq, tip, new) BY Zenon, <1>3, <1>4, <2>2, <3>1 DEF NoWorseFacts
      <4>2. \A c \in S : c \in Block /\ ~Worse(seq, c, tip) BY Zenon, <1>3, <1>5, <1>7 DEF CandInv
      <4> QED BY Zenon, <1>3, <1>4, <2>3, <3>1, <4>1, <4>2 DEF NoWorseFacts
    <3>2. CASE Connected(m) # {} BY Zenon, <3>2 DEF Prune
    <3> QED BY Zenon, <3>1, <3>2
  <2>5. \A c \in S : ~Worse(seq, c, new) => c \in K BY Zenon DEF Prune
  <2>6. phase' = IF Worse(seq, new, Floor) THEN "held" ELSE IF mostWork' = new THEN "idle" ELSE "released"
    <3>1. m \in Prune(S, new) BY Zenon, <1>7, <2>3 DEF Prune
    <3> QED BY Zenon, <1>2, <2>1, <3>1
  <2> HIDE DEF new, K
  <2>7. Floor' = IF Worse(seq, new, Floor) THEN Floor ELSE new
    BY Zenon, <1>2, <2>1, <2>6 DEF Floor
  <2>8. ASSUME NEW x \in Block, ~Worse(seq, x, Floor') PROVE ~Worse(seq, x, Floor) /\ ~Worse(seq, x, new)
    <3>1. CASE Worse(seq, new, Floor)
      <4>1. ~Worse(seq, x, Floor) BY Zenon, <2>7, <2>8, <3>1
      <4> QED BY ZenonT(30), <1>3, <1>4, <2>3, <2>8, <3>1, <4>1 DEF WorseFacts
    <3>2. CASE ~Worse(seq, new, Floor)
      <4>1. ~Worse(seq, x, new) BY ZenonT(30), <2>7, <2>8, <3>2
      <4> QED BY ZenonT(30), <1>3, <1>4, <2>3, <3>2, <4>1 DEF NoWorseFacts
    <3> QED BY Zenon, <3>1, <3>2
  <2>9. Floor' \in Block BY Zenon, <1>3, <2>3, <2>7
  <2>10. ASSUME NEW x \in linked \ Failed', ~Worse(seq, x, Floor') PROVE x \in candidates'
    <3>1. x \in Block /\ x \notin FoundInvalid(m) BY Zenon, <1>3, <2>1, <2>10 DEF Failed
    <3>2. ~Worse(seq, x, Floor) /\ ~Worse(seq, x, new) BY Zenon, <2>8, <2>10, <3>1
    <3>3. x \in S BY Zenon, <1>7, <2>10, <3>2
    <3> QED BY ZenonT(30), <2>1, <2>5, <3>1, <3>2, <3>3
  <2>11. ~Worse(seq, m, Floor') BY Zenon, <1>7, <2>3, <2>7
  <2>12. mostWork' # Null => mostWork' = m /\ m \in candidates' /\ FoundInvalid(m) = {}
    BY Zenon, <1>7, <2>1, <2>3, <2>5
  <2>13. phase' \in {"released", "held"} /\ mostWork' # Null => mostWork' # tip'
    <3>1. phase' = "released" => mostWork' # tip' BY Zenon, <2>1, <2>6
    <3>2. phase' = "held" => Worse(seq, new, Floor) BY Zenon, <2>6
    <3> QED BY ZenonT(30), <1>7, <2>1, <2>12, <3>1, <3>2
  <2>14. CandInv'
    <3>1. phase' # "aborted" /\ (phase' = "held" => Worse(seq, tip, starting)')
      BY Zenon, <1>2, <1>3, <1>8, <2>1, <2>3, <2>6
    <3>2. \A c \in candidates' : ~Worse(seq, c, tip)'
      BY Zenon, <1>3, <1>7, <1>8, <2>1, <2>3, <2>4
    <3>3. \A x \in Block : Worse(seq, x, Floor)' <=> Worse(seq, x, Floor') BY Zenon, <1>2 DEF Worse
    <3>4. \A x \in linked' \ Failed' : ~Worse(seq, x, Floor)' => x \in candidates'
      BY Zenon, <1>2, <1>3, <2>10, <3>3
    <3>5. mostWork' # Null => ~Worse(seq, mostWork, Floor)'
      BY ZenonT(30), <1>2, <1>7, <2>11, <2>12 DEF Worse
    <3> QED BY Zenon, <2>12, <2>13, <3>1, <3>2, <3>4, <3>5 DEF CandInv
  <2>15. BestInv'
    <3>1. phase' = "idle" => tip' = m
      BY ZenonT(30), <2>1, <2>3, <2>6, <2>12, Basics
    <3> QED BY Zenon, <1>9, <2>12, <3>1 DEF BestInv, Covers
  <2> QED BY ZenonT(30), <2>1, <2>6, <2>14, <2>15 DEF SelectInv
<1> QED BY ZenonT(30), <1>1, <1>10, <1>11

\* A new block becomes a candidate if it is no worse than the tip; the order of the blocks
\* that were linked before does not change.
LEMMA AcceptSelect ==
  ASSUME TreeInv, SelectInv, NEW b \in Block \ {Genesis}, AcceptBlock(b)
  PROVE  SelectInv'
<1>1. /\ owed' = TRUE /\ Unlocked
      /\ UNCHANGED <<addr, invalid, child, tip, phase, mostWork, starting>>
  BY Zenon DEF AcceptBlock, HeaderAcceptable, flags, abc
<1>2. /\ linked \subseteq linked' /\ \A x \in linked : seq'[x] = seq[x]
      /\ candidates' = candidates \cup {x \in linked' \ linked : ~Worse(seq', x, tip)}
  BY Zenon, AcceptEffect
<1>3. tip \in linked /\ candidates \subseteq linked BY Zenon DEF TreeInv, IndexInv
<1>4. \A x, y \in linked : Worse(seq', x, y) <=> Worse(seq, x, y)
  <2> SUFFICES ASSUME NEW x \in linked, NEW y \in linked PROVE Worse(seq', x, y) <=> Worse(seq, x, y)
    BY Zenon
  <2>1. seq'[x] = seq[x] /\ seq'[y] = seq[y] BY Zenon, <1>2
  <2> QED BY Zenon, <2>1 DEF Worse
<1>5. \A x \in Block : Worse(seq, x, tip)' <=> Worse(seq', x, tip) BY Zenon, <1>1 DEF Worse
<1>6. linked' \subseteq Block
  <2>1. TreeInv' BY Zenon, AcceptEffect
  <2> QED BY Zenon, <2>1 DEF TreeInv, TypeInv, IndexInv, LinksMatchTree
<1>7. phase \in {"idle", "released"} /\ Floor = tip /\ Floor' = tip
  BY Zenon, <1>1 DEF Unlocked, Floor
<1>8. \A c \in candidates' : ~Worse(seq, c, tip)'
  <2>1. \A c \in candidates : ~Worse(seq', c, tip) BY Zenon, <1>3, <1>4 DEF SelectInv, CandInv
  <2>2. candidates \subseteq Block BY Zenon, <1>2, <1>3, <1>6
  <2> QED BY ZenonT(30), <1>2, <1>5, <1>6, <2>1, <2>2
<1>9. ASSUME NEW x \in linked' \ Failed', ~Worse(seq, x, tip)' PROVE x \in candidates'
  <2>1. CASE x \in linked
    <3>1. x \notin Failed BY Zenon, <1>1, <1>9 DEF Failed
    <3>2. ~Worse(seq, x, Floor) BY Zenon, <1>3, <1>4, <1>5, <1>6, <1>7, <1>9, <2>1
    <3> QED BY Zenon, <1>2, <2>1, <3>1, <3>2 DEF SelectInv, CandInv
  <2>2. CASE x \notin linked BY Zenon, <1>2, <1>5, <1>6, <1>9, <2>2
  <2> QED BY Zenon, <2>1, <2>2
<1>10. ASSUME phase = "released", mostWork # Null
       PROVE  mostWork \in candidates' /\ mostWork # tip /\ ~Worse(seq, mostWork, tip)'
  <2>1. mostWork \in candidates /\ mostWork # tip /\ ~Worse(seq, mostWork, tip)
    BY Zenon, <1>7, <1>10 DEF SelectInv, CandInv
  <2>2. Worse(seq, mostWork, tip)' <=> Worse(seq', mostWork, tip) BY Zenon, <1>1 DEF Worse
  <2>3. Worse(seq', mostWork, tip) <=> Worse(seq, mostWork, tip) BY Zenon, <1>2, <1>3, <2>1 DEF Worse
  <2> QED BY Zenon, <1>2, <2>1, <2>2, <2>3
<1>11. /\ \A x \in linked' \ Failed' : ~Worse(seq, x, Floor)' => x \in candidates'
       /\ phase = "released" /\ mostWork # Null => ~Worse(seq, mostWork, Floor)'
  <2>1. \A x \in linked' : Worse(seq, x, Floor)' <=> Worse(seq, x, tip)' BY Zenon, <1>1, <1>7 DEF Worse
  <2>2. Worse(seq, mostWork, Floor)' <=> Worse(seq, mostWork, tip)' BY Zenon, <1>1, <1>7 DEF Worse
  <2> QED BY Zenon, <1>9, <1>10, <2>1, <2>2
<1>12. CandInv'
  <2>1. phase' \in {"idle", "released"} BY Zenon, <1>1, <1>7
  <2> QED BY Zenon, <1>1, <1>8, <1>10, <1>11, <2>1 DEF CandInv
<1>13. BestInv' BY Zenon, <1>1 DEF BestInv
<1> QED BY Zenon, <1>12, <1>13 DEF SelectInv

\* invalidateblock looks for candidates among all blocks again.
LEMMA InvalidateSelect ==
  ASSUME ~RpcDuringActivation, TreeInv, SelectInv, NEW b \in Block, InvalidateBlock(b)
  PROVE  SelectInv'
<1>1. /\ phase = "idle" /\ owed' = TRUE
      /\ UNCHANGED <<index, data, linked, seq, addr, phase, mostWork, starting>>
  BY Zenon DEF InvalidateBlock, Call, tree, abc
<1>2. /\ TypeInv /\ tip \in Block /\ linked \subseteq Block /\ linked \subseteq data /\ candidates \subseteq linked
  <2>1. linked \subseteq data
    <3>1. \A x \in linked : x \in Block /\ Ancestors[x] \subseteq data
      BY Zenon DEF TreeInv, TypeInv, IndexInv, LinksMatchTree
    <3> QED BY ZenonT(30), <3>1, Lines DEF LineFacts
  <2> QED BY Zenon, <2>1 DEF TreeInv, TypeInv, IndexInv, LinksMatchTree
<1> DEFINE add == {x \in (data \cap linked) \ (invalid' \cup child') : ~Worse(seq, x, tip')}
<1>3. candidates' \subseteq candidates \cup add /\ add \subseteq candidates'
  BY ZenonT(30) DEF InvalidateBlock
<1>4. tip' \in Ancestors[tip] /\ tip' \in Block /\ ~Worse(seq, tip, tip')
  <2>1. tip' \in Ancestors[tip] BY Zenon, InvalidateTree
  <2> QED BY Zenon, <1>2, <2>1, Lines, WorseOrder DEF LineFacts, NoWorseFacts, TypeInv
<1>5. NoWorseFacts(seq) BY Zenon, <1>2, WorseOrder DEF TypeInv
<1>6. \A c \in candidates' : ~Worse(seq, c, tip')
  <2>1. \A c \in candidates : c \in Block /\ ~Worse(seq, c, tip) BY Zenon, <1>2 DEF SelectInv, CandInv
  <2>2. \A c \in candidates : ~Worse(seq, c, tip') BY ZenonT(30), <1>2, <1>4, <1>5, <2>1 DEF NoWorseFacts
  <2> QED BY Zenon, <1>3, <2>2
<1>7. \A x \in linked \ Failed' : ~Worse(seq, x, tip') => x \in candidates' BY Zenon, <1>2, <1>3 DEF Failed
<1>8. Floor' = tip' BY Zenon, <1>1 DEF Floor
<1>9. \A x \in Block : Worse(seq, x, tip)' <=> Worse(seq, x, tip') BY ZenonT(30), <1>1 DEF Worse
<1> HIDE DEF add
<1>10. CandInv' BY ZenonT(30), <1>1, <1>2, <1>6, <1>7, <1>8, <1>9 DEF CandInv, Worse
<1>11. BestInv' BY Zenon, <1>1 DEF BestInv
<1> QED BY Zenon, <1>10, <1>11 DEF SelectInv

\* reconsiderblock makes candidates of the blocks it clears, if the operator names the lowest
\* invalid block.
LEMMA ReconsiderSelect ==
  ASSUME ~RpcDuringActivation, TreeInv, CauseInv, ValidInv, SelectInv,
         NEW b \in Block, ReconsiderBlock(b), ReconsiderLowest
  PROVE  SelectInv'
<1> DEFINE up == {x \in Failed : b \in Ancestors[x]}
           cleared == up \cup Ancestors[b]
<1>1. /\ phase = "idle" /\ owed' = TRUE
      /\ invalid' = invalid \ cleared /\ child' = child \ cleared
      /\ candidates' = candidates \cup {x \in up \cap data \cap linked : Worse(seq, tip, x)}
      /\ UNCHANGED <<index, data, linked, seq, addr, tip, phase, mostWork, starting>>
  BY ZenonT(30) DEF ReconsiderBlock, Call, tree, abc
<1>2. /\ TypeInv /\ tip \in Block /\ linked \subseteq Block /\ linked \subseteq data /\ candidates \subseteq linked
  <2>1. linked \subseteq data
    <3>1. \A x \in linked : x \in Block /\ Ancestors[x] \subseteq data
      BY Zenon DEF TreeInv, TypeInv, IndexInv, LinksMatchTree
    <3> QED BY ZenonT(30), <3>1, Lines DEF LineFacts
  <2> QED BY Zenon, <2>1 DEF TreeInv, TypeInv, IndexInv, LinksMatchTree
<1>3. WorseFacts(seq) /\ NoWorseFacts(seq) BY Zenon, <1>2, WorseOrder DEF TypeInv
<1>4. ASSUME NEW x \in Failed, x \notin Failed' PROVE x \in up
  <2>1. x \in cleared BY Zenon, <1>1, <1>4 DEF Failed
  <2>2. CASE x \in Ancestors[b]
    <3>1. PICK z \in Ancestors[x] : z \in invalid BY Zenon, <1>4 DEF CauseInv
    <3>2. x \in Block /\ z \in Ancestors[b] BY Zenon, <2>2, <3>1, Lines DEF LineFacts
    <3>3. z = b BY Zenon, <3>1, <3>2 DEF ReconsiderLowest
    <3> QED BY Zenon, <1>4, <3>1, <3>3
  <2> QED BY ZenonT(30), <2>1, <2>2
<1>5. tip \notin Failed BY Zenon, <1>2, Lines DEF ValidInv, Good, LineFacts
<1> HIDE DEF up, cleared
<1>6. \A c \in candidates' : ~Worse(seq, c, tip)
  <2>1. \A c \in candidates : ~Worse(seq, c, tip) BY Zenon DEF SelectInv, CandInv
  <2> QED BY Zenon, <1>1, <1>2, <1>3, <2>1 DEF WorseFacts
<1>7. ASSUME NEW x \in linked \ Failed', ~Worse(seq, x, tip) PROVE x \in candidates'
  <2>1. CASE x \in Failed
    <3>1. x \in up /\ x # tip BY Zenon, <1>4, <1>5, <1>7, <2>1
    <3>2. Worse(seq, tip, x) BY Zenon, <1>2, <1>3, <1>7, <3>1 DEF WorseFacts
    <3> QED BY ZenonT(30), <1>1, <1>2, <1>7, <3>1, <3>2
  <2>2. CASE x \notin Failed
    <3>1. Floor = tip BY Zenon, <1>1 DEF Floor
    <3> QED BY Zenon, <1>1, <1>7, <2>2, <3>1 DEF SelectInv, CandInv
  <2> QED BY Zenon, <2>1, <2>2
<1>8. Floor' = tip BY Zenon, <1>1 DEF Floor
<1>9. CandInv' BY ZenonT(30), <1>1, <1>2, <1>6, <1>7, <1>8 DEF CandInv, Worse
<1>10. BestInv' BY Zenon, <1>1 DEF BestInv
<1> QED BY Zenon, <1>9, <1>10 DEF SelectInv

\* LoadBlockIndexDB and LoadChainTip find the candidates again, in the new order.
LEMMA RestartSelect ==
  ASSUME TreeInv, ValidInv, Restart
  PROVE  SelectInv'
<1> DEFINE loaded == linked' \ (invalid \cup child')
<1>1. /\ seq' = [x \in Block |-> 0] /\ addr' \in Addresses /\ child' \subseteq child /\ owed' = TRUE
      /\ candidates' = {c \in loaded : ChainWork[c] > ChainWork[tip]
                          \/ (ChainWork[c] = ChainWork[tip] /\ addr'[c] <= addr'[tip])}
      /\ phase' = (IF candidates' = {} THEN "aborted" ELSE "idle")
      /\ UNCHANGED <<invalid, tip>>
  BY Zenon DEF Restart
<1>2. linked' = linked BY Zenon, RestartTree
<1>3. tip \in linked /\ tip \in Block /\ linked \subseteq Block
  BY Zenon DEF TreeInv, TypeInv, IndexInv, LinksMatchTree
<1>4. addr' \in [Block -> Nat] BY Zenon, <1>1, ChainSelectionAssumption
<1>5. tip \notin Failed BY Zenon, <1>3, Lines DEF ValidInv, Good, LineFacts
<1>6. Failed' = invalid \cup child' /\ Failed' \subseteq Failed BY Zenon, <1>1 DEF Failed
<1>7. \A x \in Block : Worse(seq, x, tip)' <=> \/ ChainWork[x] < ChainWork[tip]
                                               \/ ChainWork[x] = ChainWork[tip] /\ addr'[x] > addr'[tip]
  BY SMTT(30), <1>1, <1>3 DEF Worse
<1>8. \A x \in Block : ChainWork[x] \in Nat /\ addr'[x] \in Nat BY Zenon, <1>4, ChainWorkDef
<1>9. \A x \in loaded : x \in candidates' <=> ~Worse(seq, x, tip)'
  <2>1. loaded \subseteq Block BY Zenon, <1>2, <1>3
  <2> HIDE DEF loaded
  <2> QED BY <1>1, <1>3, <1>7, <1>8, <2>1
<1>10. tip \in candidates'
  <2>1. tip \in loaded BY Zenon, <1>2, <1>3, <1>5, <1>6
  <2> HIDE DEF loaded
  <2> QED BY <1>1, <1>3, <1>8, <2>1
<1>11. phase' = "idle" /\ Floor' = tip' BY Zenon, <1>1, <1>10 DEF Floor
<1>12. \A x \in linked' \ Failed' : ~Worse(seq, x, tip)' => x \in candidates' BY Zenon, <1>6, <1>9
<1>13. \A c \in candidates' : ~Worse(seq, c, tip)' BY ZenonT(30), <1>1, <1>9
<1>14. \A x \in linked' : Worse(seq, x, Floor)' <=> Worse(seq, x, tip)' BY Zenon, <1>11 DEF Worse
<1> HIDE DEF loaded
<1>15. CandInv' BY ZenonT(30), <1>11, <1>12, <1>13, <1>14 DEF CandInv
<1>16. BestInv' BY Zenon, <1>1 DEF BestInv
<1> QED BY Zenon, <1>15, <1>16 DEF SelectInv

\* Every step keeps the candidates and the best chain, and gives cs_main back only with
\* forward progress.
LEMMA NextSelect ==
  ASSUME ~RpcDuringActivation, TreeInv, CauseInv, ValidInv, SelectInv,
         [Next]_vars, [ReconsiderLowest]_vars
  PROVE  /\ SelectInv'
         /\ phase = "held" /\ phase' # "held" => ~Worse(seq, tip', starting)
<1>1. CASE UNCHANGED vars
  BY Zenon, <1>1 DEF vars, tree, flags, abc, SelectInv, CandInv, BestInv, Covers, Good, Floor, Worse, Failed
<1>2. ASSUME NEW b \in Block \ {Genesis}, AcceptHeaderOnly(b) \/ AcceptBadContext(b)
      PROVE  SelectInv' /\ phase # "held"
  <2>1. /\ Failed \subseteq Failed' /\ phase # "held"
        /\ UNCHANGED <<linked, seq, addr, candidates, tip, phase, mostWork, starting, owed>>
    BY ZenonT(30), <1>2 DEF AcceptHeaderOnly, AcceptBadContext, HeaderAcceptable, Unlocked, Failed,
       flags, abc
  <2>2. CandInv' BY ZenonT(30), <2>1 DEF SelectInv, CandInv, Floor, Worse
  <2>3. BestInv' BY ZenonT(30), <2>1 DEF SelectInv, BestInv, Covers, Good
  <2> QED BY Zenon, <2>1, <2>2, <2>3 DEF SelectInv
<1>3. ASSUME NEW b \in Block \ {Genesis}, AcceptBlock(b) PROVE SelectInv' /\ phase # "held"
  BY Zenon, <1>3, AcceptSelect DEF AcceptBlock, HeaderAcceptable, Unlocked
<1>4. CASE BeginActivate
  <2>1. /\ phase = "idle" /\ phase' = "released" /\ mostWork' = Null
        /\ UNCHANGED <<linked, seq, addr, invalid, child, candidates, tip, starting>>
    BY Zenon, <1>4 DEF BeginActivate, tree, flags
  <2>2. CandInv' BY Zenon, <2>1 DEF SelectInv, CandInv, Floor, Worse, Failed
  <2>3. BestInv' BY Zenon, <2>1 DEF BestInv
  <2> QED BY Zenon, <2>1, <2>2, <2>3 DEF SelectInv
<1>5. CASE Activate BY Zenon, <1>5, ActivateSelect DEF Floor
<1>6. ASSUME NEW b \in Block, InvalidateBlock(b) PROVE SelectInv' /\ phase # "held"
  BY ZenonT(30), <1>6, InvalidateSelect DEF InvalidateBlock, Call
<1>7. ASSUME NEW b \in Block, ReconsiderBlock(b), ReconsiderLowest PROVE SelectInv' /\ phase # "held"
  <2>1. SelectInv' BY Zenon, <1>7, ReconsiderSelect
  <2>2. phase # "held" BY ZenonT(30), <1>7 DEF ReconsiderBlock, Call
  <2> QED BY Zenon, <2>1, <2>2
<1>8. CASE Restart BY Zenon, <1>8, RestartSelect DEF Restart, Unlocked
<1> QED BY ZenonT(30), <1>1, <1>2, <1>3, <1>4, <1>5, <1>6, <1>7, <1>8 DEF Next

\* The remaining theorems are about behaviours in which no RPC call comes between two
\* iterations of ActivateBestChain and the operator reconsiders the lowest invalid block.
\* The runs stale_most_work and reconsider_best_chain show what happens otherwise.
OrderlySpec == Spec /\ [][ReconsiderLowest]_vars

\* All four invariants.
IInv == TreeInv /\ CauseInv /\ ValidInv /\ SelectInv

\* They hold in every such behaviour.
LEMMA SelectInvariant == ASSUME ~RpcDuringActivation PROVE OrderlySpec => []IInv
<1>1. Init => SelectInv
  <2>1. SUFFICES ASSUME Init PROVE SelectInv BY Zenon
  <2>2. TreeInv BY Zenon, <2>1, InitTree
  <2>3. NoWorseFacts(seq) BY Zenon, <2>2, WorseOrder DEF TreeInv, TypeInv
  <2>4. ~Worse(seq, Genesis, Genesis) BY Zenon, <2>3, Basics DEF NoWorseFacts
  <2>5. ChainWork[Genesis] <= ChainWork[Genesis] BY Basics, ChainWorkDef
  <2> QED BY Zenon, <2>1, <2>4, <2>5 DEF Init, SelectInv, CandInv, BestInv, Covers, Floor
<1>2. IInv /\ [Next]_vars /\ [ReconsiderLowest]_vars => SelectInv' BY Zenon, NextSelect DEF IInv
<1> QED BY <1>1, <1>2, TreeInvariant, CauseInvariant, ValidInvariant, PTL DEF Spec, OrderlySpec, IInv

\* CheckBlockIndex: whenever cs_main is free, setBlockIndexCandidates holds every block that
\* could be the tip and nothing that is worse than it or lacks data.
THEOREM CandidatesExact ==
  ASSUME ~RpcDuringActivation PROVE OrderlySpec => []CandidatesMatchTree
<1>1. IInv => CandidatesMatchTree
  <2> SUFFICES ASSUME IInv, Unlocked, NEW x \in index
               PROVE  IF ~Worse(seq, x, tip) /\ Ancestors[x] \subseteq data
                      THEN Ancestors[x] \cap invalid = {} => x \in candidates
                      ELSE x \notin candidates
    BY ZenonT(30) DEF CandidatesMatchTree
  <2>1. x \in linked <=> Ancestors[x] \subseteq data BY Zenon DEF IInv, TreeInv, IndexInv, LinksMatchTree
  <2>2. candidates \subseteq linked /\ \A c \in candidates : ~Worse(seq, c, tip)
    BY Zenon DEF IInv, TreeInv, IndexInv, SelectInv, CandInv
  <2>3. x \in Failed => Ancestors[x] \cap invalid # {} BY Zenon DEF IInv, CauseInv
  <2>4. x \in linked \ Failed /\ ~Worse(seq, x, tip) => x \in candidates
    BY Zenon DEF IInv, SelectInv, CandInv, Unlocked, Floor
  <2>5. CASE ~Worse(seq, x, tip) /\ Ancestors[x] \subseteq data
    BY Zenon, <2>1, <2>3, <2>4, <2>5
  <2>6. CASE ~(~Worse(seq, x, tip) /\ Ancestors[x] \subseteq data)
    BY Zenon, <2>1, <2>2, <2>6
  <2> QED BY Zenon, <2>5, <2>6
<1> QED BY <1>1, SelectInvariant, PTL

\* The assertions that some candidate is left after PruneBlockIndexCandidates and in
\* LoadChainTip never fail.
THEOREM NeverAborts ==
  ASSUME ~RpcDuringActivation PROVE OrderlySpec => []PruneLeavesCandidate
<1>1. IInv => PruneLeavesCandidate BY Zenon DEF IInv, SelectInv, CandInv, PruneLeavesCandidate
<1> QED BY <1>1, SelectInvariant, PTL

\* When no call of ActivateBestChain is running or due, the active chain has the most work of
\* all chains that are present, valid and not marked as failed.
THEOREM BestChainActive ==
  ASSUME ~RpcDuringActivation PROVE OrderlySpec => []TipIsBest
<1>1. IInv => TipIsBest BY Zenon DEF IInv, SelectInv, BestInv, Covers, Good, TipIsBest
<1> QED BY <1>1, SelectInvariant, PTL

\* An iteration gives cs_main back only on a tip that is no worse than the one it started
\* from, even if it found an invalid block after disconnecting.
THEOREM NeverBackwards ==
  ASSUME ~RpcDuringActivation PROVE OrderlySpec => ForwardProgress
<1>1. IInv /\ [Next]_vars /\ [ReconsiderLowest]_vars =>
        [phase = "held" /\ phase' # "held" => ~Worse(seq, tip', starting)]_vars
  BY Zenon, NextSelect DEF IInv
<1> QED BY <1>1, SelectInvariant, PTL DEF Spec, OrderlySpec, ForwardProgress

=============================================================================
