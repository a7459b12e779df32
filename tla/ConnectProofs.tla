--------------------------- MODULE ConnectProofs ----------------------------
(***************************************************************************)
(* Proofs about what ConnectBlock works with.  SaplingCache: pcoinsTip and *)
(* the database show the anchors and nullifiers of their chains, for any   *)
(* leaves, nullifiers, tree sizes and chain lengths.  CheckQueue: the      *)
(* result of Wait and the assertion of CCheckQueueControl, for any number  *)
(* of workers and checks and any batch size.                               *)
(***************************************************************************)
EXTENDS SaplingCache, CheckQueue, TLAPS

-----------------------------------------------------------------------------
(* SaplingCache: types and the invariant. *)

SaplingCaches == [anchors : [Root -> AnchorEntry \cup {NoRecord}],
                  nullifiers : [Nullifier -> NullifierEntry \cup {NoRecord}],
                  best : Root \cup {NullRoot}]
SaplingBlock  == [root : Root, nullifiers : SUBSET Nullifier]

SaplingTypes ==
  /\ saplingDb \in [anchors : [Root -> Root \cup {NoRecord}],
                    nullifiers : SUBSET Nullifier, best : Root \cup {NullRoot}]
  /\ saplingTip \in SaplingCaches /\ saplingView \in SaplingCaches
  /\ phase \in {"idle", "connect"} /\ spent \in SUBSET Nullifier
  /\ chain \in Seq(SaplingBlock) /\ flushed \in Seq(SaplingBlock)
  /\ failed \in BOOLEAN

\* The entries of a cache over the database: every tree is filed under its root, and an entry
\* that is not DIRTY says what the database says.
SoundAnchors(cache) ==
  \A r \in Root : cache.anchors[r] # NoRecord =>
    /\ cache.anchors[r].tree = r
    /\ ~cache.anchors[r].dirty => cache.anchors[r].entered /\ DbAnchor(r) = r
SoundNullifiers(cache) ==
  \A n \in Nullifier : cache.nullifiers[n] # NoRecord =>
    (~cache.nullifiers[n].dirty => (cache.nullifiers[n].entered <=> n \in saplingDb.nullifiers))

\* What a cache over the database shows.
ShownAnchor(cache, r) == Anchor(cache, r, DbAnchor(r))
ShownSpent(cache, n)  == Spent(cache, n, n \in saplingDb.nullifiers)

\* A chain whose trees only grow, and in which no nullifier is spent twice.
Grows(c) ==
  \A i, j \in 1..Len(c) : i < j =>
    /\ Len(c[i].root) <= Len(c[j].root)
    /\ Len(c[i].root) = Len(c[j].root) => c[i].root = c[j].root
SpentOnce(c) == \A i, j \in 1..Len(c) : i # j => c[i].nullifiers \cap c[j].nullifiers = {}

\* The view of ConnectBlock: no anchor is changed before the end, a DIRTY nullifier is one
\* that this block spends, and the others say what pcoinsTip says.
ViewStands ==
  phase = "connect" =>
    /\ saplingView.best = LastRoot(chain)
    /\ \A r \in Root : saplingView.anchors[r] # NoRecord =>
         /\ ~saplingView.anchors[r].dirty /\ saplingView.anchors[r].entered
         /\ saplingView.anchors[r].tree = r /\ r \in Roots(chain)
    /\ \A n \in Nullifier : n \in spent =>
         /\ n \notin Nullifiers(chain)
         /\ saplingView.nullifiers[n] # NoRecord
         /\ saplingView.nullifiers[n].dirty /\ saplingView.nullifiers[n].entered
    /\ \A n \in Nullifier : n \notin spent /\ saplingView.nullifiers[n] # NoRecord =>
         /\ ~saplingView.nullifiers[n].dirty
         /\ saplingView.nullifiers[n].entered <=> n \in Nullifiers(chain)

\* pcoinsTip and the database, each with the chain it shows.
TipStands ==
  /\ SoundAnchors(saplingTip) /\ SoundNullifiers(saplingTip)
  /\ Grows(chain) /\ SpentOnce(chain) /\ TipShowsChain /\ AssertionsHold
DbStands == Grows(flushed) /\ SpentOnce(flushed) /\ DbShowsFlushedChain

SaplingInv == SaplingTypes /\ TipStands /\ DbStands /\ ViewStands

-----------------------------------------------------------------------------
\* A root is a sequence of at most MaxLeaves leaves.
LEMMA RootIsSeq == \A r : r \in Root <=> r \in Seq(Leaf) /\ Len(r) <= MaxLeaves
<1>1. MaxLeaves \in Nat BY Zenon, SaplingAssumption
<1>2. ASSUME NEW r \in Root PROVE r \in Seq(Leaf) /\ Len(r) <= MaxLeaves
  <2>1. PICK n \in 0..MaxLeaves : r \in [1..n -> Leaf] BY Zenon DEF Root
  <2> QED BY <1>1, <2>1
<1>3. ASSUME NEW r \in Seq(Leaf), Len(r) <= MaxLeaves PROVE r \in Root
  <2>1. Len(r) \in 0..MaxLeaves /\ r \in [1..Len(r) -> Leaf] BY <1>1, <1>3
  <2> QED BY Zenon, <2>1 DEF Root
<1> QED BY Zenon, <1>2, <1>3

\* The empty tree is a root.
LEMMA EmptyIsRoot == EmptyTree \in Root /\ EmptyTree # NoRecord /\ EmptyTree # NullRoot
<1>1. <<>> \in Seq(Leaf) /\ Len(<<>>) <= MaxLeaves BY SaplingAssumption
<1>2. <<>> \in Root BY Zenon, <1>1, RootIsSeq
<1> QED BY Zenon, <1>2, SaplingAssumption DEF EmptyTree

\* The lookup of an anchor brings at most one entry into a cache.
LEMMA FetchAnchorDef ==
  ASSUME NEW cache \in SaplingCaches, NEW r \in Root, NEW got \in Root \cup {NoRecord}
  PROVE  LET c == FetchAnchor(cache, r, got)
             e == [entered |-> TRUE, tree |-> got, dirty |-> FALSE]
         IN /\ c \in SaplingCaches /\ c.best = cache.best /\ c.nullifiers = cache.nullifiers
            /\ \A q \in Root : c.anchors[q] = IF q = r /\ cache.anchors[r] = NoRecord /\ got # NoRecord
                                              THEN e ELSE cache.anchors[q]
<1>1. got # NoRecord => [entered |-> TRUE, tree |-> got, dirty |-> FALSE] \in AnchorEntry
  BY Zenon DEF AnchorEntry
<1> QED BY Zenon, <1>1 DEF FetchAnchor, SaplingCaches

\* The lookup of a nullifier brings at most one entry into a cache.
LEMMA FetchNullifierDef ==
  ASSUME NEW cache \in SaplingCaches, NEW n \in Nullifier, NEW got \in BOOLEAN
  PROVE  LET c == FetchNullifier(cache, n, got)
             e == [entered |-> got, dirty |-> FALSE]
         IN /\ c \in SaplingCaches /\ c.best = cache.best /\ c.anchors = cache.anchors
            /\ \A m \in Nullifier : c.nullifiers[m] = IF m = n /\ cache.nullifiers[n] = NoRecord
                                                      THEN e ELSE cache.nullifiers[m]
<1>1. [entered |-> got, dirty |-> FALSE] \in NullifierEntry BY Zenon DEF NullifierEntry
<1> QED BY Zenon, <1>1 DEF FetchNullifier, SaplingCaches

\* A lookup in the database finds a tree under its root, or nothing.
LEMMA DbAnchorType ==
  ASSUME SaplingTypes, NEW r \in Root
  PROVE  DbAnchor(r) \in Root \cup {NoRecord}
  BY Zenon, EmptyIsRoot DEF SaplingTypes, DbAnchor

\* Looking an anchor up on pcoinsTip changes nothing of what is shown.
LEMMA FetchAnchorKeeps ==
  ASSUME SaplingTypes, DbShowsFlushedChain, NEW cache \in SaplingCaches,
         SoundAnchors(cache), SoundNullifiers(cache), NEW r \in Root
  PROVE  LET c == FetchAnchor(cache, r, DbAnchor(r))
         IN /\ c \in SaplingCaches /\ c.best = cache.best
            /\ SoundAnchors(c) /\ SoundNullifiers(c)
            /\ \A q \in Root : ShownAnchor(c, q) = ShownAnchor(cache, q)
            /\ \A n \in Nullifier : ShownSpent(c, n) <=> ShownSpent(cache, n)
            /\ DbAnchor(r) # NoRecord => c.anchors[r] # NoRecord
<1> DEFINE c == FetchAnchor(cache, r, DbAnchor(r))
           e == [entered |-> TRUE, tree |-> DbAnchor(r), dirty |-> FALSE]
<1>1. /\ c \in SaplingCaches /\ c.best = cache.best /\ c.nullifiers = cache.nullifiers
      /\ \A q \in Root : c.anchors[q] = IF q = r /\ cache.anchors[r] = NoRecord /\ DbAnchor(r) # NoRecord
                                        THEN e ELSE cache.anchors[q]
  BY ZenonT(30), DbAnchorType, FetchAnchorDef
<1>2. DbAnchor(r) # NoRecord => DbAnchor(r) = r /\ e # NoRecord
  <2>1. DbAnchor(r) # NoRecord => DbAnchor(r) = r BY Zenon DEF DbShowsFlushedChain
  <2>2. [entered |-> TRUE, tree |-> r, dirty |-> FALSE] \in AnchorEntry BY Zenon DEF AnchorEntry
  <2> QED BY Zenon, <2>1, <2>2, SaplingAssumption
<1>3. e.entered = TRUE /\ e.tree = DbAnchor(r) /\ e.dirty = FALSE BY Zenon
<1> HIDE DEF c, e
<1>4. SoundAnchors(c) BY ZenonT(30), <1>1, <1>2, <1>3 DEF SoundAnchors
<1>5. SoundNullifiers(c) BY Zenon, <1>1 DEF SoundNullifiers
<1>6. \A q \in Root : ShownAnchor(c, q) = ShownAnchor(cache, q)
  BY Zenon, <1>1, <1>2, <1>3 DEF ShownAnchor, Anchor
<1>7. \A n \in Nullifier : ShownSpent(c, n) <=> ShownSpent(cache, n) BY Zenon, <1>1 DEF ShownSpent, Spent
<1>8. DbAnchor(r) # NoRecord => c.anchors[r] # NoRecord BY Zenon, <1>1, <1>2
<1> QED BY Zenon, <1>1, <1>4, <1>5, <1>6, <1>7, <1>8 DEF c

\* Neither does looking a nullifier up.
LEMMA FetchNullifierKeeps ==
  ASSUME SaplingTypes, NEW cache \in SaplingCaches,
         SoundAnchors(cache), SoundNullifiers(cache), NEW n \in Nullifier
  PROVE  LET c == FetchNullifier(cache, n, n \in saplingDb.nullifiers)
         IN /\ c \in SaplingCaches /\ c.best = cache.best
            /\ SoundAnchors(c) /\ SoundNullifiers(c)
            /\ \A q \in Root : ShownAnchor(c, q) = ShownAnchor(cache, q)
            /\ \A m \in Nullifier : ShownSpent(c, m) <=> ShownSpent(cache, m)
<1> DEFINE got == n \in saplingDb.nullifiers
           c == FetchNullifier(cache, n, got)
           e == [entered |-> got, dirty |-> FALSE]
<1>1. /\ c \in SaplingCaches /\ c.best = cache.best /\ c.anchors = cache.anchors
      /\ \A m \in Nullifier : c.nullifiers[m] = IF m = n /\ cache.nullifiers[n] = NoRecord
                                                THEN e ELSE cache.nullifiers[m]
  <2>1. got \in BOOLEAN OBVIOUS
  <2> QED BY ZenonT(30), <2>1, FetchNullifierDef
<1>2. (e.entered <=> n \in saplingDb.nullifiers) /\ e.dirty = FALSE BY Zenon
<1>3. e # NoRecord
  <2>1. \A x \in BOOLEAN : [entered |-> x, dirty |-> FALSE] \in NullifierEntry BY Zenon DEF NullifierEntry
  <2>2. got \in BOOLEAN OBVIOUS
  <2>3. e \in NullifierEntry BY Zenon, <2>1, <2>2
  <2> QED BY Zenon, <2>3, SaplingAssumption
<1> HIDE DEF c, e
<1>4. SoundAnchors(c) BY Zenon, <1>1 DEF SoundAnchors
<1>5. SoundNullifiers(c) BY Zenon, <1>1, <1>2 DEF SoundNullifiers
<1>6. \A q \in Root : ShownAnchor(c, q) = ShownAnchor(cache, q) BY Zenon, <1>1 DEF ShownAnchor, Anchor
<1>7. \A m \in Nullifier : ShownSpent(c, m) <=> ShownSpent(cache, m)
  BY Zenon, <1>1, <1>2, <1>3 DEF ShownSpent, Spent
<1> QED BY Zenon, <1>1, <1>4, <1>5, <1>6, <1>7 DEF c

\* A chain and the block added to it or taken from it.
LEMMA ChainParts ==
  ASSUME NEW c \in Seq(SaplingBlock)
  PROVE  /\ LastRoot(c) \in Roots(c) /\ Roots(c) \subseteq Root /\ Nullifiers(c) \subseteq Nullifier
         /\ \A b \in SaplingBlock : /\ Append(c, b) \in Seq(SaplingBlock)
                                    /\ Roots(Append(c, b)) = Roots(c) \cup {b.root}
                                    /\ Nullifiers(Append(c, b)) = Nullifiers(c) \cup b.nullifiers
                                    /\ LastRoot(Append(c, b)) = b.root
<1>1. Len(c) \in Nat /\ DOMAIN c = 1..Len(c) OBVIOUS
<1>2. \A i \in 1..Len(c) : c[i] \in SaplingBlock /\ c[i].root \in Root /\ c[i].nullifiers \subseteq Nullifier
  <2>1. \A b \in SaplingBlock : b.root \in Root /\ b.nullifiers \subseteq Nullifier
    BY Zenon DEF SaplingBlock
  <2> QED BY <2>1
<1>3. c # <<>> => LastBlock(c) = c[Len(c)] /\ Len(c) \in 1..Len(c) BY DEF LastBlock
<1>4. LastRoot(c) \in Roots(c) BY Zenon, <1>1, <1>3 DEF LastRoot, Roots
<1>5. Roots(c) \subseteq Root BY Zenon, <1>1, <1>2, EmptyIsRoot DEF Roots
<1>6. Nullifiers(c) \subseteq Nullifier BY Zenon, <1>1, <1>2 DEF Nullifiers
<1>7. ASSUME NEW b \in SaplingBlock
      PROVE  /\ Append(c, b) \in Seq(SaplingBlock)
             /\ Roots(Append(c, b)) = Roots(c) \cup {b.root}
             /\ Nullifiers(Append(c, b)) = Nullifiers(c) \cup b.nullifiers
             /\ LastRoot(Append(c, b)) = b.root
  <2> DEFINE d == Append(c, b)
  <2>1. /\ d \in Seq(SaplingBlock) /\ Len(d) = Len(c) + 1 /\ d[Len(c) + 1] = b /\ d # <<>>
        /\ \A i \in 1..Len(c) : d[i] = c[i]
    OBVIOUS
  <2> HIDE DEF d
  <2>2. DOMAIN d = 1..(Len(c) + 1) BY <2>1
  <2>3. \A i : i \in 1..(Len(c) + 1) <=> i \in 1..Len(c) \/ i = Len(c) + 1 BY <1>1
  <2>4. Roots(d) = Roots(c) \cup {b.root} BY ZenonT(30), <1>1, <2>1, <2>2, <2>3 DEF Roots
  <2>5. Nullifiers(d) = Nullifiers(c) \cup b.nullifiers BY Zenon, <1>1, <2>1, <2>2, <2>3 DEF Nullifiers
  <2>6. LastRoot(d) = b.root BY Zenon, <2>1 DEF LastRoot, LastBlock
  <2> QED BY Zenon, <2>1, <2>4, <2>5, <2>6 DEF d
<1> QED BY Zenon, <1>4, <1>5, <1>6, <1>7

\* A chain that is not empty is its front and its last block.
LEMMA PreviousAndLast ==
  ASSUME NEW c \in Seq(SaplingBlock), c # <<>>
  PROVE  Previous(c) \in Seq(SaplingBlock) /\ LastBlock(c) \in SaplingBlock /\ c = Append(Previous(c), LastBlock(c))
<1>1. Len(c) \in Nat /\ Len(c) > 0 OBVIOUS
<1>2. Previous(c) \in Seq(SaplingBlock) /\ LastBlock(c) \in SaplingBlock BY <1>1 DEF Previous, LastBlock
<1>3. c = Append(Previous(c), LastBlock(c)) BY <1>1, <1>2 DEF Previous, LastBlock
<1> QED BY Zenon, <1>2, <1>3

\* No nullifier is spent twice in a longer chain exactly when the new block spends none of
\* the old ones.
LEMMA SpentOnceAppend ==
  ASSUME NEW c \in Seq(SaplingBlock), NEW b \in SaplingBlock
  PROVE  SpentOnce(Append(c, b)) <=> SpentOnce(c) /\ b.nullifiers \cap Nullifiers(c) = {}
<1> DEFINE d == Append(c, b)
           k == Len(c) + 1
<1>1. /\ Len(c) \in Nat /\ Len(d) = k /\ d[k] = b /\ DOMAIN c = 1..Len(c)
      /\ \A i \in 1..Len(c) : d[i] = c[i]
  OBVIOUS
<1>2. \A i : i \in 1..k <=> i \in 1..Len(c) \/ i = k BY <1>1
<1>3. k \notin 1..Len(c) BY <1>1
<1> HIDE DEF d, k
<1>4. b.nullifiers \cap Nullifiers(c) = {} <=> \A i \in 1..Len(c) : c[i].nullifiers \cap b.nullifiers = {}
  BY <1>1 DEF Nullifiers
<1>5. SpentOnce(d) <=> SpentOnce(c) /\ \A i \in 1..Len(c) : c[i].nullifiers \cap b.nullifiers = {}
  BY ZenonT(30), <1>1, <1>2, <1>3 DEF SpentOnce
<1> QED BY Zenon, <1>4, <1>5 DEF d

\* Appending leaves to the last tree keeps the trees growing.
LEMMA GrowsAppend ==
  ASSUME NEW c \in Seq(SaplingBlock), Grows(c), NEW b \in SaplingBlock, NEW leaves \in Leaves,
         b.root = LastRoot(c) \o leaves
  PROVE  Grows(Append(c, b))
<1> DEFINE d == Append(c, b)
           k == Len(c) + 1
<1>1. /\ Len(c) \in Nat /\ Len(d) = k /\ d[k] = b /\ DOMAIN c = 1..Len(c)
      /\ \A i \in 1..Len(c) : d[i] = c[i]
  OBVIOUS
<1>2. \A i : i \in 1..k <=> i \in 1..Len(c) \/ i = k BY <1>1
<1> HIDE DEF d
<1>3. \A i \in 1..Len(c) : c[i].root \in Seq(Leaf)
  <2>1. \A x \in SaplingBlock : x.root \in Root BY Zenon DEF SaplingBlock
  <2> QED BY <2>1, RootIsSeq
<1>4. LastRoot(c) \in Seq(Leaf) BY Zenon, ChainParts, RootIsSeq
<1>5. leaves \in Seq(Leaf) /\ (leaves = <<>> \/ Len(leaves) > 0)
  <2>1. leaves = <<>> \/ \E l \in Leaf : leaves = <<l>> BY Zenon DEF Leaves
  <2>2. CASE leaves = <<>> BY <2>2
  <2>3. ASSUME NEW l \in Leaf, leaves = <<l>> PROVE leaves \in Seq(Leaf) /\ Len(leaves) > 0 BY <2>3
  <2> QED BY Zenon, <2>1, <2>2, <2>3
<1>6. /\ b.root \in Seq(Leaf) /\ Len(b.root) >= Len(LastRoot(c))
      /\ Len(b.root) = Len(LastRoot(c)) => b.root = LastRoot(c)
  <2>1. Len(LastRoot(c) \o leaves) = Len(LastRoot(c)) + Len(leaves) BY <1>4, <1>5
  <2>2. LastRoot(c) \o <<>> = LastRoot(c) BY <1>4
  <2> QED BY <1>4, <1>5, <2>1, <2>2
<1>7. ASSUME NEW i \in 1..Len(c)
      PROVE  /\ Len(c[i].root) <= Len(LastRoot(c))
             /\ Len(c[i].root) = Len(LastRoot(c)) => c[i].root = LastRoot(c)
  <2>1. LastRoot(c) = c[Len(c)].root /\ Len(c) \in 1..Len(c) BY <1>1 DEF LastRoot, LastBlock
  <2>2. i < Len(c) \/ i = Len(c) BY <1>1
  <2> QED BY <1>3, <2>1, <2>2 DEF Grows
<1>8. ASSUME NEW i \in 1..Len(c)
      PROVE  /\ Len(c[i].root) <= Len(b.root)
             /\ Len(c[i].root) = Len(b.root) => c[i].root = b.root
  <2>1. Len(c[i].root) \in Nat /\ Len(LastRoot(c)) \in Nat /\ Len(b.root) \in Nat
    BY <1>3, <1>4, <1>6
  <2> QED BY SMTT(30), <1>6, <1>7, <2>1
<1>9. SUFFICES ASSUME NEW i \in 1..k, NEW j \in 1..k, i < j
               PROVE  /\ Len(d[i].root) <= Len(d[j].root)
                      /\ Len(d[i].root) = Len(d[j].root) => d[i].root = d[j].root
  BY Zenon, <1>1 DEF Grows, d
<1>10. i \in 1..Len(c) BY <1>1, <1>9
<1>11. CASE j \in 1..Len(c) BY <1>1, <1>9, <1>10, <1>11 DEF Grows
<1>12. CASE j = k BY Zenon, <1>1, <1>8, <1>10, <1>12
<1> QED BY Zenon, <1>2, <1>11, <1>12

\* The front of a growing chain grows; when the last block changed the tree, no earlier block
\* has the tree it ended with.
LEMMA GrowsPrevious ==
  ASSUME NEW c \in Seq(SaplingBlock), NEW b \in SaplingBlock, Grows(Append(c, b))
  PROVE  Grows(c) /\ (b.root # LastRoot(c) => b.root \notin Roots(c))
<1> DEFINE d == Append(c, b)
           k == Len(c) + 1
<1>1. /\ Len(c) \in Nat /\ Len(d) = k /\ d[k] = b /\ DOMAIN c = 1..Len(c)
      /\ \A i \in 1..Len(c) : d[i] = c[i]
  OBVIOUS
<1>2. \A i \in 1..Len(c) : i \in 1..k /\ i < k BY <1>1
<1>3. k \in 1..k BY <1>1
<1> HIDE DEF d, k
<1>4. Grows(d) BY Zenon DEF d
<1>5. Grows(c) BY <1>1, <1>2, <1>4 DEF Grows
<1>6. ASSUME NEW i \in 1..Len(c), b.root = c[i].root PROVE b.root = LastRoot(c)
  <2>1. \A x \in SaplingBlock : x.root \in Root BY Zenon DEF SaplingBlock
  <2>2. \A j \in 1..Len(c) : Len(c[j].root) \in Nat BY <2>1, RootIsSeq
  <2>3. LastRoot(c) = c[Len(c)].root /\ Len(c) \in 1..Len(c) BY <1>1 DEF LastRoot, LastBlock
  <2>4. i < Len(c) \/ i = Len(c)
    <3>1. \A n \in Nat : \A j \in 1..n : j < n \/ j = n OBVIOUS
    <3> QED BY Zenon, <1>1, <3>1
  <2>5. CASE i = Len(c) BY Zenon, <1>6, <2>3, <2>5
  <2>6. CASE i < Len(c)
    <3>1. Len(c[i].root) <= Len(c[Len(c)].root) BY Zenon, <1>5, <2>3, <2>6 DEF Grows
    <3>2. /\ Len(c[Len(c)].root) <= Len(b.root)
          /\ Len(c[Len(c)].root) = Len(b.root) => c[Len(c)].root = b.root
      BY <1>1, <1>2, <1>3, <1>4, <2>3 DEF Grows
    <3>3. Len(c[Len(c)].root) = Len(b.root) BY <1>6, <2>2, <2>3, <3>1, <3>2
    <3> QED BY Zenon, <2>3, <3>2, <3>3
  <2> QED BY Zenon, <2>4, <2>5, <2>6
<1>7. ASSUME b.root = EmptyTree PROVE b.root = LastRoot(c)
  <2>1. CASE c = <<>> BY Zenon, <1>7, <2>1 DEF LastRoot
  <2>2. CASE c # <<>>
    <3>1. LastRoot(c) = c[Len(c)].root /\ Len(c) \in 1..Len(c) BY <1>1, <2>2 DEF LastRoot, LastBlock
    <3>2. Len(LastRoot(c)) <= Len(b.root) BY <1>1, <1>2, <1>3, <1>4, <3>1 DEF Grows
    <3>3. Len(b.root) = 0 BY <1>7 DEF EmptyTree
    <3>4. LastRoot(c) \in Seq(Leaf) BY Zenon, ChainParts, RootIsSeq
    <3> QED BY <1>7, <3>2, <3>3, <3>4 DEF EmptyTree
  <2> QED BY Zenon, <2>1, <2>2
<1> QED BY Zenon, <1>1, <1>5, <1>6, <1>7 DEF Roots

-----------------------------------------------------------------------------
(* The inductive invariant, action by action. *)

\* An empty cache shows what the database shows.
LEMMA EmptyCacheFacts ==
  /\ EmptySapling \in SaplingCaches /\ EmptySapling.best = NullRoot
  /\ \A r \in Root : EmptySapling.anchors[r] = NoRecord
  /\ \A n \in Nullifier : EmptySapling.nullifiers[n] = NoRecord
  BY Zenon DEF EmptySapling, SaplingCaches

\* The database stays, and so does what it shows.
LEMMA DbKept ==
  ASSUME DbStands, UNCHANGED <<saplingDb, flushed>>
  PROVE  DbStands'
  BY DEF DbStands, Grows, SpentOnce, DbShowsFlushedChain, DbAnchor, DbBestAnchor, Roots, Nullifiers,
     LastRoot

\* The first start satisfies the inductive invariant.
LEMMA SaplingInitInv == SaplingInit => SaplingInv
<1> SUFFICES ASSUME SaplingInit PROVE SaplingInv BY Zenon
<1>1. Roots(<<>>) = {EmptyTree} /\ Nullifiers(<<>>) = {} /\ LastRoot(<<>>) = EmptyTree
  BY DEF Roots, Nullifiers, LastRoot
<1>2. \A r \in Root : saplingDb.anchors[r] = NoRecord BY Zenon DEF SaplingInit
<1>3. saplingDb.nullifiers = {} /\ saplingDb.best = NullRoot BY Zenon DEF SaplingInit
<1>4. SaplingTypes
  <2>1. saplingDb \in [anchors : [Root -> Root \cup {NoRecord}],
                      nullifiers : SUBSET Nullifier, best : Root \cup {NullRoot}]
    BY Zenon DEF SaplingInit
  <2>2. <<>> \in Seq(SaplingBlock) OBVIOUS
  <2> QED BY Zenon, <2>1, <2>2, EmptyCacheFacts DEF SaplingInit, SaplingTypes
<1>5. Grows(<<>>) /\ SpentOnce(<<>>) BY DEF Grows, SpentOnce
<1>6. DbStands
  BY Zenon, <1>1, <1>2, <1>3, <1>5 DEF SaplingInit, DbStands, DbShowsFlushedChain, DbAnchor, DbBestAnchor
<1>7. SoundAnchors(saplingTip) /\ SoundNullifiers(saplingTip)
  BY Zenon, EmptyCacheFacts DEF SaplingInit, SoundAnchors, SoundNullifiers
<1>8. TipShowsChain
  BY Zenon, EmptyCacheFacts, <1>1, <1>2, <1>3
  DEF SaplingInit, TipShowsChain, TipAnchor, Anchor, TipSpent, Spent, TipBest, DbAnchor, DbBestAnchor
<1>9. ViewStands BY Zenon DEF SaplingInit, ViewStands
<1> QED BY Zenon, <1>4, <1>5, <1>6, <1>7, <1>8, <1>9 DEF SaplingInv, TipStands, SaplingInit, AssertionsHold

\* A step that only looks things up on pcoinsTip, perhaps loading the best anchor.
LEMMA TipReadKeeps ==
  ASSUME SaplingInv, UNCHANGED <<saplingDb, chain, flushed>>, failed' = FALSE,
         NEW c \in SaplingCaches, saplingTip' = c, SoundAnchors(c), SoundNullifiers(c),
         \A q \in Root : ShownAnchor(c, q) = ShownAnchor(saplingTip, q),
         \A n \in Nullifier : ShownSpent(c, n) <=> ShownSpent(saplingTip, n),
         c.best = saplingTip.best \/ c.best = LastRoot(chain)
  PROVE  TipStands' /\ DbStands'
<1>1. DbStands' BY Zenon, DbKept DEF SaplingInv
<1>2. (\A r \in Root : DbAnchor(r)' = DbAnchor(r)) /\ DbBestAnchor' = DbBestAnchor
  BY Zenon DEF DbAnchor, DbBestAnchor
<1>3. SoundAnchors(saplingTip)' BY Zenon, <1>2 DEF SoundAnchors
<1>4. SoundNullifiers(saplingTip)' BY Zenon DEF SoundNullifiers
<1>5. Grows(chain)' /\ SpentOnce(chain)' BY ZenonT(30) DEF SaplingInv, TipStands, Grows, SpentOnce
<1>6. TipShowsChain /\ chain \in Seq(SaplingBlock) BY Zenon DEF SaplingInv, TipStands, SaplingTypes
<1>7. TipShowsChain'
  <2>1. Roots(chain)' = Roots(chain) /\ Nullifiers(chain)' = Nullifiers(chain) /\ LastRoot(chain)' = LastRoot(chain)
    BY Zenon DEF Roots, Nullifiers, LastRoot
  <2>2. \A r \in Root : TipAnchor(r)' = TipAnchor(r) BY Zenon, <1>2 DEF TipAnchor, ShownAnchor, Anchor
  <2>3. \A n \in Nullifier : TipSpent(n)' <=> TipSpent(n) BY Zenon DEF TipSpent, ShownSpent, Spent
  <2>4. TipBest' = LastRoot(chain)
    <3>1. LastRoot(chain) \in Root BY Zenon, <1>6, ChainParts
    <3>2. LastRoot(chain) # NullRoot BY Zenon, <3>1, SaplingAssumption
    <3> QED BY Zenon, <1>2, <1>6, <3>2 DEF TipBest, TipShowsChain
  <2> QED BY Zenon, <1>6, <2>1, <2>2, <2>3, <2>4 DEF TipShowsChain
<1> QED BY Zenon, <1>1, <1>3, <1>4, <1>5, <1>7 DEF TipStands, AssertionsHold

\* A cache that shows what pcoinsTip shows.
LikeTip(c) ==
  /\ c \in SaplingCaches /\ SoundAnchors(c) /\ SoundNullifiers(c)
  /\ \A q \in Root : ShownAnchor(c, q) = ShownAnchor(saplingTip, q)
  /\ \A n \in Nullifier : ShownSpent(c, n) <=> ShownSpent(saplingTip, n)
  /\ c.best = saplingTip.best \/ c.best = LastRoot(chain)

\* Lookups and loading the best anchor keep a cache like pcoinsTip.
LEMMA LikeTipFacts ==
  ASSUME SaplingInv
  PROVE  /\ LikeTip(saplingTip)
         /\ \A c : LikeTip(c) =>
              /\ \A r \in Root : LikeTip(FetchAnchor(c, r, DbAnchor(r)))
              /\ \A n \in Nullifier : LikeTip(FetchNullifier(c, n, n \in saplingDb.nullifiers))
              /\ LikeTip([c EXCEPT !.best = LastRoot(chain)])
<1>1. SaplingTypes /\ DbShowsFlushedChain BY Zenon DEF SaplingInv, DbStands
<1>2. LikeTip(saplingTip) BY Zenon DEF SaplingInv, SaplingTypes, TipStands, LikeTip
<1>3. ASSUME NEW c, LikeTip(c), NEW r \in Root PROVE LikeTip(FetchAnchor(c, r, DbAnchor(r)))
  <2>1. c \in SaplingCaches /\ SoundAnchors(c) /\ SoundNullifiers(c) BY Zenon, <1>3 DEF LikeTip
  <2>2. LET d == FetchAnchor(c, r, DbAnchor(r))
        IN /\ d \in SaplingCaches /\ d.best = c.best
           /\ SoundAnchors(d) /\ SoundNullifiers(d)
           /\ \A q \in Root : ShownAnchor(d, q) = ShownAnchor(c, q)
           /\ \A n \in Nullifier : ShownSpent(d, n) <=> ShownSpent(c, n)
    BY Zenon, <1>1, <2>1, FetchAnchorKeeps
  <2> QED BY Zenon, <1>3, <2>2 DEF LikeTip
<1>4. ASSUME NEW c, LikeTip(c), NEW n \in Nullifier
      PROVE  LikeTip(FetchNullifier(c, n, n \in saplingDb.nullifiers))
  <2>1. c \in SaplingCaches /\ SoundAnchors(c) /\ SoundNullifiers(c) BY Zenon, <1>4 DEF LikeTip
  <2>2. LET d == FetchNullifier(c, n, n \in saplingDb.nullifiers)
        IN /\ d \in SaplingCaches /\ d.best = c.best
           /\ SoundAnchors(d) /\ SoundNullifiers(d)
           /\ \A q \in Root : ShownAnchor(d, q) = ShownAnchor(c, q)
           /\ \A m \in Nullifier : ShownSpent(d, m) <=> ShownSpent(c, m)
    BY Zenon, <1>1, <2>1, FetchNullifierKeeps
  <2> QED BY Zenon, <1>4, <2>2 DEF LikeTip
<1>5. ASSUME NEW c, LikeTip(c) PROVE LikeTip([c EXCEPT !.best = LastRoot(chain)])
  <2> DEFINE d == [c EXCEPT !.best = LastRoot(chain)]
  <2>1. LastRoot(chain) \in Root BY Zenon, <1>1, ChainParts DEF SaplingTypes
  <2>2. c \in SaplingCaches BY Zenon, <1>5 DEF LikeTip
  <2>3. d \in SaplingCaches /\ d.anchors = c.anchors /\ d.nullifiers = c.nullifiers /\ d.best = LastRoot(chain)
    BY Zenon, <2>1, <2>2 DEF SaplingCaches
  <2> HIDE DEF d
  <2>4. SoundAnchors(d) /\ SoundNullifiers(d)
    BY Zenon, <1>5, <2>3 DEF LikeTip, SoundAnchors, SoundNullifiers
  <2>5. \A q \in Root : ShownAnchor(d, q) = ShownAnchor(c, q) BY Zenon, <2>3 DEF ShownAnchor, Anchor
  <2>6. \A m \in Nullifier : ShownSpent(d, m) <=> ShownSpent(c, m) BY Zenon, <2>3 DEF ShownSpent, Spent
  <2>7. LikeTip(d) BY Zenon, <1>5, <2>3, <2>4, <2>5, <2>6 DEF LikeTip
  <2> QED BY Zenon, <2>7 DEF d
<1> QED BY Zenon, <1>2, <1>3, <1>4, <1>5

\* What pcoinsTip says of the chain, for use in the actions.
LEMMA TipFacts ==
  ASSUME SaplingInv
  PROVE  /\ TipBest = LastRoot(chain) /\ LastRoot(chain) \in Root /\ LastRoot(chain) \in Roots(chain)
         /\ LastRoot(chain) # NullRoot /\ LastRoot(chain) # NoRecord
         /\ \A r \in Root : /\ TipAnchor(r) \in Root \cup {NoRecord}
                            /\ TipAnchor(r) # NoRecord => TipAnchor(r) = r /\ r \in Roots(chain)
                            /\ r \in Roots(chain) => TipAnchor(r) = r
         /\ \A n \in Nullifier : TipSpent(n) \in BOOLEAN /\ (TipSpent(n) <=> n \in Nullifiers(chain))
<1>1. TipShowsChain /\ chain \in Seq(SaplingBlock) BY Zenon DEF SaplingInv, TipStands, SaplingTypes
<1>2. LastRoot(chain) \in Root /\ LastRoot(chain) \in Roots(chain) BY Zenon, <1>1, ChainParts
<1>3. TipBest = LastRoot(chain) BY Zenon, <1>1 DEF TipShowsChain
<1>4. \A r \in Root : TipAnchor(r) = IF r \in Roots(chain) THEN r ELSE NoRecord
  BY Zenon, <1>1 DEF TipShowsChain
<1>5. \A n \in Nullifier : TipSpent(n) <=> n \in Nullifiers(chain) BY Zenon, <1>1 DEF TipShowsChain
<1>6. \A n \in Nullifier : TipSpent(n) \in BOOLEAN
  <2>1. \A n \in Nullifier : saplingTip.nullifiers[n] # NoRecord => saplingTip.nullifiers[n].entered \in BOOLEAN
    BY Zenon DEF SaplingInv, SaplingTypes, SaplingCaches, NullifierEntry
  <2>2. ASSUME NEW n \in Nullifier, saplingTip.nullifiers[n] = NoRecord PROVE TipSpent(n) \in BOOLEAN
    <3>1. (n \in saplingDb.nullifiers) \in BOOLEAN OBVIOUS
    <3>2. Spent(saplingTip, n, n \in saplingDb.nullifiers) = (n \in saplingDb.nullifiers)
      BY Zenon, <2>2 DEF Spent
    <3>3. Spent(saplingTip, n, n \in saplingDb.nullifiers) \in BOOLEAN BY Zenon, <3>1, <3>2
    <3> QED BY Zenon, <3>3 DEF TipSpent
  <2>3. ASSUME NEW n \in Nullifier, saplingTip.nullifiers[n] # NoRecord PROVE TipSpent(n) \in BOOLEAN
    BY Zenon, <2>1, <2>3 DEF TipSpent, Spent
  <2> QED BY Zenon, <2>2, <2>3
<1> QED BY Zenon, <1>2, <1>3, <1>4, <1>5, <1>6, SaplingAssumption

\* ReadAnchor and ReadNullifier keep the inductive invariant.
LEMMA ReadInv ==
  ASSUME SaplingInv, failed = FALSE,
         (\E r \in Root : ReadAnchor(r)) \/ (\E n \in Nullifier : ReadNullifier(n))
  PROVE  SaplingInv'
<1>1. /\ LikeTip(saplingTip') /\ phase = "idle"
      /\ UNCHANGED <<saplingDb, saplingView, phase, spent, chain, flushed, failed>>
  BY Zenon, LikeTipFacts DEF ReadAnchor, ReadNullifier
<1>2. TipStands' /\ DbStands' BY Zenon, <1>1, TipReadKeeps DEF LikeTip
<1>3. SaplingTypes' BY Zenon, <1>1 DEF SaplingInv, SaplingTypes, LikeTip
<1>4. ViewStands' BY Zenon, <1>1 DEF ViewStands
<1> QED BY Zenon, <1>2, <1>3, <1>4 DEF SaplingInv

\* BeginConnect opens a view over pcoinsTip with the tree of the best anchor in it.
LEMMA BeginConnectInv ==
  ASSUME SaplingInv, BeginConnect
  PROVE  SaplingInv'
<1> DEFINE best == LastRoot(chain)
           fetched == FetchAnchor(EmptySapling, best, TipAnchor(best))
<1>1. /\ TipBest = best /\ best \in Root /\ TipAnchor(best) = best /\ best # NoRecord /\ best \in Roots(chain)
  BY Zenon, TipFacts
<1>2. /\ saplingTip' = [FetchAnchor(saplingTip, best, DbAnchor(best)) EXCEPT !.best = best]
      /\ saplingView' = [fetched EXCEPT !.best = best]
      /\ failed' = FALSE /\ phase' = "connect" /\ spent' = {}
      /\ UNCHANGED <<saplingDb, chain, flushed>>
  BY Zenon, <1>1 DEF BeginConnect
<1>3. LikeTip(saplingTip') BY Zenon, <1>1, <1>2, LikeTipFacts
<1>4. TipStands' /\ DbStands' BY Zenon, <1>2, <1>3, TipReadKeeps DEF LikeTip
<1>5. /\ fetched \in SaplingCaches /\ fetched.nullifiers = EmptySapling.nullifiers
      /\ \A q \in Root : fetched.anchors[q] = IF q = best THEN [entered |-> TRUE, tree |-> best, dirty |-> FALSE]
                                              ELSE NoRecord
  BY <1>1, EmptyCacheFacts, FetchAnchorDef
<1> HIDE DEF fetched, best
<1>6. /\ saplingView' \in SaplingCaches /\ saplingView'.best = best
      /\ saplingView'.anchors = fetched.anchors /\ saplingView'.nullifiers = EmptySapling.nullifiers
  BY Zenon, <1>1, <1>2, <1>5 DEF SaplingCaches
<1>7. SaplingTypes' BY Zenon, <1>2, <1>3, <1>6 DEF SaplingInv, SaplingTypes, LikeTip
<1>8. Roots(chain)' = Roots(chain) /\ LastRoot(chain)' = best BY Zenon, <1>2 DEF Roots, LastRoot, best
<1>9. \A r \in Root : saplingView'.anchors[r] # NoRecord =>
        /\ r = best /\ saplingView'.anchors[r] = [entered |-> TRUE, tree |-> best, dirty |-> FALSE]
  BY Zenon, <1>5, <1>6
<1>10. \A n \in Nullifier : saplingView'.nullifiers[n] = NoRecord BY Zenon, <1>6, EmptyCacheFacts
<1>11. ViewStands' BY <1>1, <1>2, <1>6, <1>8, <1>9, <1>10 DEF ViewStands
<1> QED BY Zenon, <1>4, <1>7, <1>11 DEF SaplingInv

\* SpendNote looks up on pcoinsTip and marks the nullifier in the view alone; the check before
\* it sees the spends of the chain and those of this block.
LEMMA SpendNoteInv ==
  ASSUME SaplingInv, failed = FALSE, NEW n \in Nullifier, NEW anchor \in Root, SpendNote(n, anchor)
  PROVE  SaplingInv'
<1> DEFINE tipN == IF saplingView.nullifiers[n] # NoRecord THEN saplingTip
                   ELSE FetchNullifier(saplingTip, n, n \in saplingDb.nullifiers)
           viewN == FetchNullifier(saplingView, n, TipSpent(n))
           viewA == FetchAnchor(viewN, anchor, TipAnchor(anchor))
           ok == ~ViewSpent(n) /\ ViewAnchor(anchor) # NoRecord
           e == [entered |-> TRUE, tree |-> TipAnchor(anchor), dirty |-> FALSE]
<1>1. /\ phase = "connect"
      /\ saplingTip' = IF ViewSpent(n) \/ saplingView.anchors[anchor] # NoRecord THEN tipN
                       ELSE FetchAnchor(tipN, anchor, DbAnchor(anchor))
      /\ saplingView' = IF ok THEN SetNullifiers(viewA, {n}, TRUE) ELSE EmptySapling
      /\ spent' = IF ok THEN spent \cup {n} ELSE {}
      /\ phase' = IF ok THEN phase ELSE "idle"
      /\ UNCHANGED <<saplingDb, chain, flushed, failed>>
  BY Zenon DEF SpendNote
<1>2. LikeTip(saplingTip')
  <2>1. LikeTip(tipN) BY Zenon, LikeTipFacts
  <2> HIDE DEF tipN
  <2> QED BY Zenon, <1>1, <2>1, LikeTipFacts
<1>3. TipStands' /\ DbStands' BY Zenon, <1>1, <1>2, TipReadKeeps DEF LikeTip
<1>4. SaplingTypes /\ ViewStands /\ saplingView \in SaplingCaches /\ spent \in SUBSET Nullifier
  BY Zenon DEF SaplingInv, SaplingTypes
<1>5. /\ viewN \in SaplingCaches /\ viewN.best = saplingView.best /\ viewN.anchors = saplingView.anchors
      /\ \A m \in Nullifier : m # n => viewN.nullifiers[m] = saplingView.nullifiers[m]
  <2>1. TipSpent(n) \in BOOLEAN BY Zenon, TipFacts
  <2> QED BY ZenonT(30), <1>4, <2>1, FetchNullifierDef
<1> HIDE DEF viewN
<1>6. /\ viewA \in SaplingCaches /\ viewA.best = viewN.best /\ viewA.nullifiers = viewN.nullifiers
      /\ \A q \in Root : viewA.anchors[q] = IF q = anchor /\ viewN.anchors[anchor] = NoRecord
                                               /\ TipAnchor(anchor) # NoRecord
                                            THEN e ELSE viewN.anchors[q]
  BY <1>5, TipFacts, FetchAnchorDef
<1> HIDE DEF viewA
<1> DEFINE v == SetNullifiers(viewA, {n}, TRUE)
<1>7. /\ v \in SaplingCaches /\ v.best = viewA.best /\ v.anchors = viewA.anchors
      /\ v.nullifiers[n] = [entered |-> TRUE, dirty |-> TRUE]
      /\ \A m \in Nullifier : m # n => v.nullifiers[m] = viewA.nullifiers[m]
  <2>1. [entered |-> TRUE, dirty |-> TRUE] \in NullifierEntry BY Zenon DEF NullifierEntry
  <2> QED BY Zenon, <1>6, <2>1 DEF SetNullifiers, SaplingCaches
<1> HIDE DEF v
<1>8. SaplingTypes'
  <2>1. saplingView' \in SaplingCaches BY Zenon, <1>1, <1>7, EmptyCacheFacts DEF v
  <2>2. spent' \in SUBSET Nullifier /\ phase' \in {"idle", "connect"} BY Zenon, <1>1, <1>4
  <2> QED BY Zenon, <1>1, <1>2, <1>4, <2>1, <2>2 DEF SaplingTypes, LikeTip
<1>9. ViewStands'
  <2>1. CASE ~ok BY Zenon, <1>1, <2>1 DEF ViewStands
  <2>2. CASE ok
    <3>1. saplingView' = v /\ spent' = spent \cup {n} BY Zenon, <1>1, <2>2 DEF v
    <3>2. Roots(chain)' = Roots(chain) /\ Nullifiers(chain)' = Nullifiers(chain) /\ LastRoot(chain)' = LastRoot(chain)
      BY Zenon, <1>1 DEF Roots, Nullifiers, LastRoot
    <3>3. v.best = LastRoot(chain) BY Zenon, <1>1, <1>4, <1>5, <1>6, <1>7 DEF ViewStands
    <3>4. ASSUME NEW r \in Root, v.anchors[r] # NoRecord
          PROVE  /\ ~v.anchors[r].dirty /\ v.anchors[r].entered
                 /\ v.anchors[r].tree = r /\ r \in Roots(chain)
      <4>1. CASE r = anchor /\ viewN.anchors[anchor] = NoRecord /\ TipAnchor(anchor) # NoRecord
        <5>1. v.anchors[r] = e /\ TipAnchor(anchor) = r /\ r \in Roots(chain)
          BY Zenon, <1>6, <1>7, <4>1, TipFacts
        <5> QED BY SMTT(30), <5>1
      <4>2. CASE v.anchors[r] = saplingView.anchors[r] BY Zenon, <1>1, <1>4, <3>4, <4>2 DEF ViewStands
      <4> QED BY ZenonT(30), <1>5, <1>6, <1>7, <4>1, <4>2
    <3>5. n \notin Nullifiers(chain)
      <4>1. ~ViewSpent(n) BY Zenon, <2>2
      <4>2. CASE saplingView.nullifiers[n] = NoRecord
        BY Zenon, <4>1, <4>2, TipFacts DEF ViewSpent, Spent
      <4>3. CASE saplingView.nullifiers[n] # NoRecord
        <5>1. ~saplingView.nullifiers[n].entered BY Zenon, <4>1, <4>3 DEF ViewSpent, Spent
        <5> QED BY Zenon, <1>1, <1>4, <4>3, <5>1 DEF ViewStands
      <4> QED BY Zenon, <4>2, <4>3
    <3>6. v.nullifiers[n] # NoRecord /\ v.nullifiers[n].dirty /\ v.nullifiers[n].entered
      <4>1. [entered |-> TRUE, dirty |-> TRUE] \in NullifierEntry BY Zenon DEF NullifierEntry
      <4>2. [entered |-> TRUE, dirty |-> TRUE] # NoRecord BY ZenonT(30), <4>1, SaplingAssumption
      <4> QED BY <1>7, <4>2
    <3>7. \A m \in Nullifier : m # n => v.nullifiers[m] = saplingView.nullifiers[m] BY <1>5, <1>6, <1>7
    <3>8. ASSUME NEW m \in Nullifier, m \in spent'
          PROVE  /\ m \notin Nullifiers(chain) /\ v.nullifiers[m] # NoRecord
                 /\ v.nullifiers[m].dirty /\ v.nullifiers[m].entered
      <4>1. CASE m = n BY Zenon, <3>5, <3>6, <4>1
      <4>2. CASE m # n
        <5>1. m \in spent /\ v.nullifiers[m] = saplingView.nullifiers[m] BY Zenon, <3>1, <3>7, <3>8, <4>2
        <5> QED BY Zenon, <1>1, <1>4, <5>1 DEF ViewStands
      <4> QED BY Zenon, <4>1, <4>2
    <3>9. ASSUME NEW m \in Nullifier, m \notin spent', v.nullifiers[m] # NoRecord
          PROVE  ~v.nullifiers[m].dirty /\ (v.nullifiers[m].entered <=> m \in Nullifiers(chain))
      <4>1. m # n /\ m \notin spent /\ v.nullifiers[m] = saplingView.nullifiers[m]
        BY Zenon, <3>1, <3>7, <3>9
      <4> QED BY Zenon, <1>1, <1>4, <3>9, <4>1 DEF ViewStands
    <3> QED BY Zenon, <3>1, <3>2, <3>3, <3>4, <3>8, <3>9 DEF ViewStands
  <2> QED BY Zenon, <2>1, <2>2
<1> QED BY Zenon, <1>3, <1>8, <1>9 DEF SaplingInv

\* AbandonConnect drops the view.
LEMMA AbandonConnectInv ==
  ASSUME SaplingInv, failed = FALSE, AbandonConnect
  PROVE  SaplingInv'
<1>1. /\ phase' = "idle" /\ saplingView' = EmptySapling /\ spent' = {}
      /\ UNCHANGED <<saplingDb, saplingTip, chain, flushed, failed>>
  BY Zenon DEF AbandonConnect
<1>2. TipStands' /\ DbStands' BY Zenon, <1>1, LikeTipFacts, TipReadKeeps DEF LikeTip
<1>3. SaplingTypes' BY Zenon, <1>1, EmptyCacheFacts DEF SaplingInv, SaplingTypes
<1>4. ViewStands' BY Zenon, <1>1 DEF ViewStands
<1> QED BY Zenon, <1>2, <1>3, <1>4 DEF SaplingInv

\* BatchWriteAnchors: only a DIRTY entry of the child changes the parent, which then has the
\* child's verdict and is DIRTY itself unless it had that verdict before.
LEMMA MergeAnchorFacts ==
  ASSUME NEW child \in AnchorEntry \cup {NoRecord}, NEW parent \in AnchorEntry \cup {NoRecord}
  PROVE  LET m == MergeAnchor(child, parent)
         IN /\ m \in AnchorEntry \cup {NoRecord}
            /\ child = NoRecord \/ ~child.dirty => m = parent
            /\ child # NoRecord /\ child.dirty =>
                 /\ m # NoRecord /\ m.entered = child.entered
                 /\ m.tree = IF parent = NoRecord THEN child.tree ELSE parent.tree
                 /\ m = parent \/ m.dirty
<1>1. NoRecord \notin AnchorEntry BY Zenon, SaplingAssumption
<1>2. \A x \in AnchorEntry : x.entered \in BOOLEAN /\ x.tree \in Root /\ x.dirty \in BOOLEAN
  BY Zenon DEF AnchorEntry
<1>3. \A x, y \in AnchorEntry : [entered |-> x.entered, tree |-> y.tree, dirty |-> TRUE] \in AnchorEntry
  BY Zenon DEF AnchorEntry
<1>4. CASE child = NoRecord BY Zenon, <1>4 DEF MergeAnchor
<1>5. CASE child # NoRecord /\ ~child.dirty BY Zenon, <1>5 DEF MergeAnchor
<1>6. CASE child # NoRecord /\ child.dirty
  <2>1. CASE parent = NoRecord BY Zenon, <1>6, <2>1 DEF MergeAnchor
  <2>2. CASE parent # NoRecord /\ parent.entered = child.entered BY Zenon, <1>6, <2>2 DEF MergeAnchor
  <2>3. CASE parent # NoRecord /\ parent.entered # child.entered
    <3>1. MergeAnchor(child, parent) = [entered |-> child.entered, tree |-> parent.tree, dirty |-> TRUE]
      BY Zenon, <1>6, <2>3 DEF MergeAnchor
    <3>2. MergeAnchor(child, parent) \in AnchorEntry BY Zenon, <1>3, <1>6, <2>3, <3>1
    <3> DEFINE m == MergeAnchor(child, parent)
    <3>3. m.entered = child.entered /\ m.tree = parent.tree /\ m.dirty = TRUE BY <3>1
    <3>4. m # NoRecord BY Zenon, <1>1, <3>2
    <3> HIDE DEF m
    <3> QED BY Zenon, <1>6, <2>3, <3>2, <3>3, <3>4 DEF m
  <2> QED BY Zenon, <2>1, <2>2, <2>3
<1> QED BY Zenon, <1>4, <1>5, <1>6

\* BatchWriteNullifiers likewise.
LEMMA MergeNullifierFacts ==
  ASSUME NEW child \in NullifierEntry \cup {NoRecord}, NEW parent \in NullifierEntry \cup {NoRecord}
  PROVE  LET m == MergeNullifier(child, parent)
         IN /\ m \in NullifierEntry \cup {NoRecord}
            /\ child = NoRecord \/ ~child.dirty => m = parent
            /\ child # NoRecord /\ child.dirty =>
                 m # NoRecord /\ m.entered = child.entered /\ (m = parent \/ m.dirty)
  BY Zenon DEF MergeNullifier

\* A view flushed into pcoinsTip: DIRTY entries decide, the others leave what was shown.
LEMMA BatchWriteFacts ==
  ASSUME SaplingTypes, NEW parent \in SaplingCaches, NEW child \in SaplingCaches,
         SoundAnchors(parent), SoundNullifiers(parent),
         \A r \in Root : child.anchors[r] # NoRecord => child.anchors[r].tree = r
  PROVE  LET c == BatchWriteSapling(parent, child)
         IN /\ c \in SaplingCaches /\ c.best = child.best /\ SoundAnchors(c) /\ SoundNullifiers(c)
            /\ \A r \in Root : ShownAnchor(c, r) =
                 IF child.anchors[r] # NoRecord /\ child.anchors[r].dirty
                 THEN IF child.anchors[r].entered THEN r ELSE NoRecord
                 ELSE ShownAnchor(parent, r)
            /\ \A n \in Nullifier : ShownSpent(c, n) <=>
                 IF child.nullifiers[n] # NoRecord /\ child.nullifiers[n].dirty
                 THEN child.nullifiers[n].entered ELSE ShownSpent(parent, n)
<1> DEFINE c == BatchWriteSapling(parent, child)
<1>1. /\ \A r \in Root : child.anchors[r] \in AnchorEntry \cup {NoRecord}
                         /\ parent.anchors[r] \in AnchorEntry \cup {NoRecord}
      /\ \A n \in Nullifier : child.nullifiers[n] \in NullifierEntry \cup {NoRecord}
                              /\ parent.nullifiers[n] \in NullifierEntry \cup {NoRecord}
      /\ child.best \in Root \cup {NullRoot}
  BY Zenon DEF SaplingCaches
<1>2. /\ c.best = child.best
      /\ c = [anchors |-> c.anchors, nullifiers |-> c.nullifiers, best |-> c.best]
      /\ c.anchors = [r \in Root |-> MergeAnchor(child.anchors[r], parent.anchors[r])]
      /\ c.nullifiers = [n \in Nullifier |-> MergeNullifier(child.nullifiers[n], parent.nullifiers[n])]
  BY Zenon DEF BatchWriteSapling
<1> HIDE DEF c
<1>3. \A r \in Root : c.anchors[r] = MergeAnchor(child.anchors[r], parent.anchors[r]) BY Zenon, <1>2
<1>4. \A n \in Nullifier : c.nullifiers[n] = MergeNullifier(child.nullifiers[n], parent.nullifiers[n])
  BY Zenon, <1>2
<1>5. ASSUME NEW r \in Root
      PROVE  /\ c.anchors[r] \in AnchorEntry \cup {NoRecord}
             /\ child.anchors[r] = NoRecord \/ ~child.anchors[r].dirty => c.anchors[r] = parent.anchors[r]
             /\ child.anchors[r] # NoRecord /\ child.anchors[r].dirty =>
                  /\ c.anchors[r] # NoRecord /\ c.anchors[r].entered = child.anchors[r].entered
                  /\ c.anchors[r].tree = r
                  /\ c.anchors[r] = parent.anchors[r] \/ c.anchors[r].dirty
  <2>1. parent.anchors[r] # NoRecord => parent.anchors[r].tree = r BY Zenon DEF SoundAnchors
  <2> QED BY SMTT(30), <1>1, <1>3, <2>1, MergeAnchorFacts
<1>6. ASSUME NEW n \in Nullifier
      PROVE  /\ c.nullifiers[n] \in NullifierEntry \cup {NoRecord}
             /\ child.nullifiers[n] = NoRecord \/ ~child.nullifiers[n].dirty => c.nullifiers[n] = parent.nullifiers[n]
             /\ child.nullifiers[n] # NoRecord /\ child.nullifiers[n].dirty =>
                  /\ c.nullifiers[n] # NoRecord /\ c.nullifiers[n].entered = child.nullifiers[n].entered
                  /\ c.nullifiers[n] = parent.nullifiers[n] \/ c.nullifiers[n].dirty
  BY <1>1, <1>4, <1>6, MergeNullifierFacts
<1>7. c \in SaplingCaches
  <2>1. c.anchors \in [Root -> AnchorEntry \cup {NoRecord}] BY Zenon, <1>2, <1>5
  <2>2. c.nullifiers \in [Nullifier -> NullifierEntry \cup {NoRecord}] BY Zenon, <1>2, <1>6
  <2> QED BY Zenon, <1>1, <1>2, <2>1, <2>2 DEF SaplingCaches
<1>8. SoundAnchors(c) BY SMTT(30), <1>5 DEF SoundAnchors
<1>9. SoundNullifiers(c) BY SMTT(30), <1>6 DEF SoundNullifiers
<1>10. \A r \in Root : ShownAnchor(c, r) =
         IF child.anchors[r] # NoRecord /\ child.anchors[r].dirty
         THEN IF child.anchors[r].entered THEN r ELSE NoRecord
         ELSE ShownAnchor(parent, r)
  BY Zenon, <1>5 DEF ShownAnchor, Anchor
<1>11. \A n \in Nullifier : ShownSpent(c, n) <=>
         IF child.nullifiers[n] # NoRecord /\ child.nullifiers[n].dirty
         THEN child.nullifiers[n].entered ELSE ShownSpent(parent, n)
  BY Zenon, <1>6 DEF ShownSpent, Spent
<1> QED BY Zenon, <1>2, <1>7, <1>8, <1>9, <1>10, <1>11 DEF c

\* When the database stays, pcoinsTip stands as soon as its entries are sound and show the chain.
LEMMA TipStandsIf ==
  ASSUME UNCHANGED saplingDb, failed' = FALSE, NEW c \in SaplingCaches, saplingTip' = c,
         SoundAnchors(c), SoundNullifiers(c), Grows(chain'), SpentOnce(chain'),
         \A r \in Root : ShownAnchor(c, r) = IF r \in Roots(chain') THEN r ELSE NoRecord,
         \A n \in Nullifier : ShownSpent(c, n) <=> n \in Nullifiers(chain'),
         c.best = LastRoot(chain'), c.best # NullRoot
  PROVE  TipStands'
<1>1. \A r \in Root : DbAnchor(r)' = DbAnchor(r) BY Zenon DEF DbAnchor
<1>2. SoundAnchors(saplingTip)' /\ SoundNullifiers(saplingTip)'
  BY Zenon, <1>1 DEF SoundAnchors, SoundNullifiers
<1>3. Grows(chain)' /\ SpentOnce(chain)' BY Zenon DEF Grows, SpentOnce
<1>4. Roots(chain)' = Roots(chain') /\ Nullifiers(chain)' = Nullifiers(chain') /\ LastRoot(chain)' = LastRoot(chain')
  BY Zenon DEF Roots, Nullifiers, LastRoot
<1>5. \A r \in Root : TipAnchor(r)' = ShownAnchor(c, r) BY Zenon, <1>1 DEF TipAnchor, ShownAnchor, Anchor
<1>6. \A n \in Nullifier : TipSpent(n)' <=> ShownSpent(c, n) BY Zenon DEF TipSpent, ShownSpent, Spent
<1>7. TipBest' = c.best BY Zenon DEF TipBest
<1>8. TipShowsChain' BY Zenon, <1>4, <1>5, <1>6, <1>7 DEF TipShowsChain
<1> QED BY Zenon, <1>2, <1>3, <1>8 DEF TipStands, AssertionsHold

\* FinishConnect adds the block's root and nullifiers to what pcoinsTip shows.
LEMMA FinishConnectInv ==
  ASSUME SaplingInv, failed = FALSE, NEW leaves \in Leaves, FinishConnect(leaves)
  PROVE  SaplingInv'
<1> DEFINE best == LastRoot(chain)
           tree == best \o leaves
           b == [root |-> tree, nullifiers |-> spent]
           v == PushAnchor(saplingView, tree)
           c == BatchWriteSapling(saplingTip, v)
<1>1. /\ best \in Root /\ best \in Roots(chain) /\ TipAnchor(best) = best
      /\ \A r \in Root : /\ TipAnchor(r) # NoRecord => TipAnchor(r) = r /\ r \in Roots(chain)
                         /\ r \in Roots(chain) => TipAnchor(r) = r
      /\ \A n \in Nullifier : TipSpent(n) <=> n \in Nullifiers(chain)
  BY Zenon, TipFacts
<1>2. /\ SaplingTypes /\ ViewStands /\ saplingView \in SaplingCaches /\ saplingTip \in SaplingCaches
      /\ spent \in SUBSET Nullifier /\ chain \in Seq(SaplingBlock)
      /\ SoundAnchors(saplingTip) /\ SoundNullifiers(saplingTip) /\ Grows(chain) /\ SpentOnce(chain)
  BY Zenon DEF SaplingInv, SaplingTypes, TipStands
<1>3. phase = "connect" BY Zenon DEF FinishConnect
<1>4. saplingView.best = best /\ ViewAnchor(saplingView.best) = best
  <2>1. saplingView.best = best BY Zenon, <1>2, <1>3 DEF ViewStands
  <2>2. CASE saplingView.anchors[best] = NoRecord BY Zenon, <1>1, <2>1, <2>2 DEF ViewAnchor, Anchor
  <2>3. CASE saplingView.anchors[best] # NoRecord
    <3>1. saplingView.anchors[best].entered /\ saplingView.anchors[best].tree = best
      BY Zenon, <1>1, <1>2, <1>3, <2>3 DEF ViewStands
    <3> QED BY Zenon, <2>1, <2>3, <3>1 DEF ViewAnchor, Anchor
  <2> QED BY Zenon, <2>1, <2>2, <2>3
<1>5. /\ Len(tree) <= MaxLeaves /\ saplingTip' = c /\ chain' = Append(chain, b)
      /\ phase' = "idle" /\ saplingView' = EmptySapling /\ spent' = {} /\ failed' = FALSE
      /\ UNCHANGED <<saplingDb, flushed>>
  BY Zenon, <1>4 DEF FinishConnect
<1>6. tree \in Root
  <2>1. best \in Seq(Leaf) BY Zenon, <1>1, RootIsSeq
  <2>2. leaves \in Seq(Leaf)
    <3>1. leaves = <<>> \/ \E l \in Leaf : leaves = <<l>> BY Zenon DEF Leaves
    <3>2. ASSUME NEW l \in Leaf, leaves = <<l>> PROVE leaves \in Seq(Leaf) BY <3>2
    <3>3. CASE leaves = <<>> BY <3>3
    <3> QED BY Zenon, <3>1, <3>2, <3>3
  <2>3. tree \in Seq(Leaf) BY <2>1, <2>2
  <2> QED BY Zenon, <1>5, <2>3, RootIsSeq
<1> HIDE DEF best, tree
<1>7. b \in SaplingBlock /\ b.root = tree /\ b.nullifiers = spent BY Zenon, <1>2, <1>6 DEF SaplingBlock
<1> HIDE DEF b
<1>8. /\ v \in SaplingCaches /\ v.best = tree /\ v.nullifiers = saplingView.nullifiers
      /\ \A r \in Root : v.anchors[r] = IF r = tree /\ best # tree
                                        THEN [entered |-> TRUE, tree |-> tree, dirty |-> TRUE]
                                        ELSE saplingView.anchors[r]
  <2>1. [entered |-> TRUE, tree |-> tree, dirty |-> TRUE] \in AnchorEntry BY Zenon, <1>6 DEF AnchorEntry
  <2>2. CASE best = tree BY Zenon, <1>2, <1>4, <2>2 DEF PushAnchor
  <2>3. CASE best # tree BY ZenonT(30), <1>2, <1>4, <1>6, <2>1, <2>3 DEF PushAnchor, SaplingCaches
  <2> QED BY Zenon, <2>2, <2>3
<1> HIDE DEF v
<1>9. /\ \A r \in Root : saplingView.anchors[r] # NoRecord =>
           saplingView.anchors[r].tree = r /\ ~saplingView.anchors[r].dirty
      /\ \A n \in Nullifier : /\ n \in spent => /\ n \notin Nullifiers(chain)
                                               /\ saplingView.nullifiers[n] # NoRecord
                                               /\ saplingView.nullifiers[n].dirty
                                               /\ saplingView.nullifiers[n].entered
                              /\ n \notin spent /\ saplingView.nullifiers[n] # NoRecord
                                   => ~saplingView.nullifiers[n].dirty
  BY Zenon, <1>2, <1>3 DEF ViewStands
<1>10. \A r \in Root : v.anchors[r] # NoRecord =>
         /\ v.anchors[r].tree = r
         /\ v.anchors[r].dirty => r = tree /\ v.anchors[r].entered
  BY <1>8, <1>9
<1>11. /\ c \in SaplingCaches /\ c.best = tree /\ SoundAnchors(c) /\ SoundNullifiers(c)
       /\ \A r \in Root : ShownAnchor(c, r) =
            IF v.anchors[r] # NoRecord /\ v.anchors[r].dirty
            THEN IF v.anchors[r].entered THEN r ELSE NoRecord
            ELSE ShownAnchor(saplingTip, r)
       /\ \A n \in Nullifier : ShownSpent(c, n) <=>
            IF v.nullifiers[n] # NoRecord /\ v.nullifiers[n].dirty
            THEN v.nullifiers[n].entered ELSE ShownSpent(saplingTip, n)
  BY <1>2, <1>8, <1>10, BatchWriteFacts
<1> HIDE DEF c
<1>12. /\ chain' \in Seq(SaplingBlock) /\ Roots(chain') = Roots(chain) \cup {tree}
       /\ Nullifiers(chain') = Nullifiers(chain) \cup spent /\ LastRoot(chain') = tree
  BY Zenon, <1>2, <1>5, <1>7, ChainParts
<1>13. ASSUME NEW r \in Root PROVE ShownAnchor(c, r) = IF r \in Roots(chain') THEN r ELSE NoRecord
  <2>1. ShownAnchor(saplingTip, r) = TipAnchor(r) BY Zenon DEF ShownAnchor, TipAnchor
  <2>2. CASE r # tree BY Zenon, <1>1, <1>10, <1>11, <1>12, <2>1, <2>2
  <2>3. CASE r = tree /\ best = tree
    <3>1. v.anchors[r] = saplingView.anchors[r] BY Zenon, <1>8, <2>3
    <3>2. ~(v.anchors[r] # NoRecord /\ v.anchors[r].dirty) BY Zenon, <1>9, <3>1
    <3> QED BY Zenon, <1>1, <1>11, <1>12, <2>1, <2>3, <3>2
  <2>4. CASE r = tree /\ best # tree
    <3>1. v.anchors[r] = [entered |-> TRUE, tree |-> tree, dirty |-> TRUE] BY Zenon, <1>8, <2>4
    <3>2. [entered |-> TRUE, tree |-> tree, dirty |-> TRUE] \in AnchorEntry BY Zenon, <1>6 DEF AnchorEntry
    <3>3. v.anchors[r] # NoRecord BY ZenonT(30), <3>1, <3>2, SaplingAssumption
    <3>4. v.anchors[r].dirty /\ v.anchors[r].entered BY SMTT(20), <3>1
    <3> QED BY Zenon, <1>11, <1>12, <2>4, <3>3, <3>4
  <2> QED BY Zenon, <2>2, <2>3, <2>4
<1>14. ASSUME NEW n \in Nullifier PROVE ShownSpent(c, n) <=> n \in Nullifiers(chain')
  <2>1. ShownSpent(saplingTip, n) <=> TipSpent(n) BY Zenon DEF ShownSpent, TipSpent
  <2> QED BY SMTT(30), <1>1, <1>8, <1>9, <1>11, <1>12, <2>1
<1>15. Grows(chain')
  <2>1. b.root = LastRoot(chain) \o leaves BY Zenon, <1>7 DEF tree, best
  <2> QED BY Zenon, <1>2, <1>5, <1>7, <2>1, GrowsAppend
<1>16. SpentOnce(chain')
  <2>1. b.nullifiers \cap Nullifiers(chain) = {} BY Zenon, <1>2, <1>7, <1>9
  <2> QED BY Zenon, <1>2, <1>5, <1>7, <2>1, SpentOnceAppend
<1>17. tree # NullRoot BY Zenon, <1>6, SaplingAssumption
<1>18. TipStands'
  BY Zenon, <1>5, <1>11, <1>12, <1>13, <1>14, <1>15, <1>16, <1>17, TipStandsIf
<1>19. DbStands' BY Zenon, <1>5, DbKept DEF SaplingInv
<1>20. SaplingTypes' BY Zenon, <1>2, <1>5, <1>11, <1>12, EmptyCacheFacts DEF SaplingTypes
<1>21. ViewStands' BY Zenon, <1>5 DEF ViewStands
<1> QED BY Zenon, <1>18, <1>19, <1>20, <1>21 DEF SaplingInv

\* Disconnect takes the last block's nullifiers out and pops its anchor, unless the block left
\* the tree alone; no earlier block of the chain has the anchor that is popped.
LEMMA DisconnectInv ==
  ASSUME SaplingInv, Disconnect
  PROVE  SaplingInv'
<1> DEFINE front == Previous(chain)
           b == LastBlock(chain)
           best == b.root
           newrt == LastRoot(front)
           below == IF best = newrt THEN saplingTip ELSE FetchAnchor(saplingTip, best, DbAnchor(best))
           v == SetNullifiers([EmptySapling EXCEPT !.best = best], b.nullifiers, FALSE)
           w == PopAnchor(v, newrt, TipAnchor(best))
           c == BatchWriteSapling(below, w)
           popped == [entered |-> FALSE, tree |-> best, dirty |-> TRUE]
<1>1. SaplingTypes /\ chain \in Seq(SaplingBlock) /\ Grows(chain) /\ SpentOnce(chain)
  BY Zenon DEF SaplingInv, SaplingTypes, TipStands
<1>2. chain # <<>> BY Zenon DEF Disconnect
<1>3. front \in Seq(SaplingBlock) /\ b \in SaplingBlock /\ chain = Append(front, b)
  BY Zenon, <1>1, <1>2, PreviousAndLast
<1>4. best \in Root /\ b.nullifiers \subseteq Nullifier
  <2>1. \A x \in SaplingBlock : x.root \in Root /\ x.nullifiers \subseteq Nullifier
    BY Zenon DEF SaplingBlock
  <2> QED BY Zenon, <1>3, <2>1
<1> HIDE DEF front, b
<1>5. /\ LastRoot(chain) = best /\ Roots(chain) = Roots(front) \cup {best}
      /\ Nullifiers(chain) = Nullifiers(front) \cup b.nullifiers
      /\ newrt \in Roots(front) /\ newrt \in Root
  BY Zenon, <1>3, ChainParts
<1>6. /\ Grows(front) /\ (best # newrt => best \notin Roots(front))
      /\ SpentOnce(front) /\ b.nullifiers \cap Nullifiers(front) = {}
  BY Zenon, <1>1, <1>3, GrowsPrevious, SpentOnceAppend
<1>7. /\ TipBest = best /\ TipAnchor(best) = best /\ best # NoRecord /\ newrt # NullRoot
      /\ \A r \in Root : TipAnchor(r) = IF r \in Roots(chain) THEN r ELSE NoRecord
      /\ \A n \in Nullifier : TipSpent(n) <=> n \in Nullifiers(chain)
  <2>1. TipBest = best /\ TipAnchor(best) = best /\ best # NoRecord BY Zenon, <1>4, <1>5, TipFacts
  <2>2. newrt # NullRoot BY Zenon, <1>5, SaplingAssumption
  <2> QED BY Zenon, <2>1, <2>2 DEF SaplingInv, TipStands, TipShowsChain
<1>8. /\ failed' = FALSE /\ saplingTip' = c /\ chain' = front
      /\ UNCHANGED <<saplingDb, saplingView, phase, spent, flushed>> /\ phase = "idle"
  BY Zenon, <1>7 DEF Disconnect, front, b
<1> HIDE DEF best, newrt
<1>9. LikeTip(below)
  <2>1. best = newrt => below = saplingTip BY Zenon
  <2>2. best # newrt => below = FetchAnchor(saplingTip, best, DbAnchor(best)) BY Zenon
  <2> HIDE DEF below
  <2> QED BY Zenon, <1>4, <2>1, <2>2, LikeTipFacts
<1> HIDE DEF below
<1>10. /\ v \in SaplingCaches /\ v.best = best
       /\ \A r \in Root : v.anchors[r] = NoRecord
       /\ \A n \in Nullifier : v.nullifiers[n] = IF n \in b.nullifiers THEN [entered |-> FALSE, dirty |-> TRUE]
                                                 ELSE NoRecord
  <2>1. [entered |-> FALSE, dirty |-> TRUE] \in NullifierEntry BY Zenon DEF NullifierEntry
  <2> DEFINE u == [EmptySapling EXCEPT !.best = best]
  <2>2. u \in SaplingCaches /\ u.best = best /\ u.anchors = EmptySapling.anchors
        /\ u.nullifiers = EmptySapling.nullifiers
    BY Zenon, <1>4, EmptyCacheFacts DEF SaplingCaches
  <2> HIDE DEF u
  <2>3. /\ SetNullifiers(u, b.nullifiers, FALSE) \in SaplingCaches
        /\ SetNullifiers(u, b.nullifiers, FALSE).best = u.best
        /\ SetNullifiers(u, b.nullifiers, FALSE).anchors = u.anchors
        /\ \A n \in Nullifier : SetNullifiers(u, b.nullifiers, FALSE).nullifiers[n] =
             IF n \in b.nullifiers THEN [entered |-> FALSE, dirty |-> TRUE] ELSE u.nullifiers[n]
    BY Zenon, <2>1, <2>2 DEF SetNullifiers, SaplingCaches
  <2> QED BY ZenonT(30), <2>2, <2>3, EmptyCacheFacts DEF u
<1> HIDE DEF v
<1>11. /\ w \in SaplingCaches /\ w.best = newrt /\ w.nullifiers = v.nullifiers
       /\ \A r \in Root : w.anchors[r] = IF r = best /\ best # newrt THEN popped ELSE NoRecord
  <2>1. CASE best = newrt BY Zenon, <1>10, <2>1 DEF PopAnchor
  <2>2. CASE best # newrt
    <3> DEFINE f == FetchAnchor(v, best, TipAnchor(best))
    <3>1. /\ f \in SaplingCaches /\ f.nullifiers = v.nullifiers
          /\ f.anchors[best] = [entered |-> TRUE, tree |-> best, dirty |-> FALSE]
          /\ \A r \in Root : r # best => f.anchors[r] = NoRecord
      BY <1>4, <1>7, <1>10, FetchAnchorDef
    <3> HIDE DEF f
    <3>2. popped \in AnchorEntry BY Zenon, <1>4 DEF AnchorEntry
    <3>3. f.anchors[best].tree = best BY <3>1
    <3>4. w = [f EXCEPT !.anchors[best] = [entered |-> FALSE, tree |-> @.tree, dirty |-> TRUE], !.best = newrt]
      BY Zenon, <1>10, <2>2 DEF PopAnchor, f
    <3>5. w = [f EXCEPT !.anchors[best] = popped, !.best = newrt] BY Zenon, <3>3, <3>4
    <3> HIDE DEF w, popped
    <3> QED BY Zenon, <1>4, <1>5, <2>2, <3>1, <3>2, <3>5 DEF SaplingCaches
  <2> QED BY Zenon, <2>1, <2>2
<1> HIDE DEF w
<1>12. /\ popped # NoRecord /\ popped.tree = best /\ popped.dirty /\ ~popped.entered
  <2>1. popped \in AnchorEntry BY Zenon, <1>4 DEF AnchorEntry
  <2>2. popped # NoRecord BY Zenon, <2>1, SaplingAssumption
  <2> QED BY Zenon, <2>2
<1> HIDE DEF popped
<1>13. \A r \in Root : w.anchors[r] # NoRecord => w.anchors[r].tree = r BY Zenon, <1>11, <1>12
<1>14. /\ c \in SaplingCaches /\ c.best = newrt /\ SoundAnchors(c) /\ SoundNullifiers(c)
       /\ \A r \in Root : ShownAnchor(c, r) =
            IF w.anchors[r] # NoRecord /\ w.anchors[r].dirty
            THEN IF w.anchors[r].entered THEN r ELSE NoRecord
            ELSE ShownAnchor(below, r)
       /\ \A n \in Nullifier : ShownSpent(c, n) <=>
            IF w.nullifiers[n] # NoRecord /\ w.nullifiers[n].dirty
            THEN w.nullifiers[n].entered ELSE ShownSpent(below, n)
  <2>1. below \in SaplingCaches /\ SoundAnchors(below) /\ SoundNullifiers(below) BY Zenon, <1>9 DEF LikeTip
  <2> QED BY Zenon, <1>1, <1>11, <1>13, <2>1, BatchWriteFacts
<1> HIDE DEF c
<1>15. ASSUME NEW r \in Root PROVE ShownAnchor(c, r) = IF r \in Roots(front) THEN r ELSE NoRecord
  <2>1. ShownAnchor(below, r) = TipAnchor(r) BY Zenon, <1>9 DEF LikeTip, ShownAnchor, TipAnchor
  <2>2. CASE r = best /\ best # newrt
    <3>1. w.anchors[r] = popped /\ r \notin Roots(front) BY Zenon, <1>6, <1>11, <2>2
    <3> QED BY Zenon, <1>12, <1>14, <3>1
  <2>3. CASE ~(r = best /\ best # newrt)
    <3>1. w.anchors[r] = NoRecord BY Zenon, <1>11, <2>3
    <3>2. r \in Roots(chain) <=> r \in Roots(front) BY Zenon, <1>5, <2>3
    <3> QED BY Zenon, <1>7, <1>14, <2>1, <3>1, <3>2
  <2> QED BY Zenon, <2>2, <2>3
<1>16. ASSUME NEW n \in Nullifier PROVE ShownSpent(c, n) <=> n \in Nullifiers(front)
  <2>1. ShownSpent(below, n) <=> TipSpent(n) BY Zenon, <1>9 DEF LikeTip, ShownSpent, TipSpent
  <2>2. CASE n \in b.nullifiers
    <3>1. [entered |-> FALSE, dirty |-> TRUE] \in NullifierEntry BY Zenon DEF NullifierEntry
    <3>2. w.nullifiers[n] = [entered |-> FALSE, dirty |-> TRUE] BY Zenon, <1>10, <1>11, <2>2
    <3>3. w.nullifiers[n] # NoRecord BY ZenonT(30), <3>1, <3>2, SaplingAssumption
    <3>4. w.nullifiers[n].dirty /\ ~w.nullifiers[n].entered BY <3>2
    <3> QED BY ZenonT(30), <1>6, <1>14, <2>2, <3>3, <3>4
  <2>3. CASE n \notin b.nullifiers
    <3>1. w.nullifiers[n] = NoRecord BY Zenon, <1>10, <1>11, <2>3
    <3> QED BY ZenonT(30), <1>5, <1>7, <1>14, <2>1, <2>3, <3>1
  <2> QED BY Zenon, <2>2, <2>3
<1>17. TipStands'
  <2>1. c.best = LastRoot(chain') /\ c.best # NullRoot BY Zenon, <1>7, <1>8, <1>14 DEF newrt
  <2> QED BY Zenon, <1>6, <1>8, <1>14, <1>15, <1>16, <2>1, TipStandsIf
<1>18. DbStands' BY Zenon, <1>8, DbKept DEF SaplingInv
<1>19. SaplingTypes' BY Zenon, <1>1, <1>3, <1>8, <1>14 DEF SaplingTypes
<1>20. ViewStands' BY Zenon, <1>8 DEF ViewStands
<1> QED BY Zenon, <1>17, <1>18, <1>19, <1>20 DEF SaplingInv

\* An empty cache over the database shows the flushed chain.
LEMMA EmptyTipStands ==
  ASSUME DbStands', chain' = flushed', failed' = FALSE, TipBest' = DbBestAnchor',
         \A r \in Root : saplingTip'.anchors[r] = NoRecord,
         \A n \in Nullifier : saplingTip'.nullifiers[n] = NoRecord
  PROVE  TipStands'
<1>1. SoundAnchors(saplingTip)' /\ SoundNullifiers(saplingTip)' BY Zenon DEF SoundAnchors, SoundNullifiers
<1>2. Grows(chain)' /\ SpentOnce(chain)' BY ZenonT(30) DEF DbStands, Grows, SpentOnce
<1>3. \A r \in Root : TipAnchor(r)' = DbAnchor(r)' BY Zenon DEF TipAnchor, Anchor
<1>4. \A n \in Nullifier : TipSpent(n)' <=> n \in saplingDb'.nullifiers BY Zenon DEF TipSpent, Spent
<1>5. Roots(chain)' = Roots(flushed)' /\ Nullifiers(chain)' = Nullifiers(flushed)' /\ LastRoot(chain)' = LastRoot(flushed)'
  BY Zenon DEF Roots, Nullifiers, LastRoot
<1>6. TipShowsChain' BY Zenon, <1>3, <1>4, <1>5 DEF DbStands, DbShowsFlushedChain, TipShowsChain
<1> QED BY Zenon, <1>1, <1>2, <1>6 DEF TipStands, AssertionsHold

\* FlushSapling makes the database show what pcoinsTip shows.
LEMMA FlushSaplingInv ==
  ASSUME SaplingInv, failed = FALSE, FlushSapling
  PROVE  SaplingInv'
<1> DEFINE d == DbWriteSapling(saplingTip)
           t == [EmptySapling EXCEPT !.best = saplingTip.best]
           A == saplingTip.anchors
           N == saplingTip.nullifiers
<1>1. /\ saplingDb' = d /\ saplingTip' = t /\ flushed' = chain /\ failed' = FALSE /\ phase = "idle"
      /\ UNCHANGED <<saplingView, phase, spent, chain>>
  BY Zenon DEF FlushSapling
<1>2. /\ SaplingTypes /\ saplingTip \in SaplingCaches /\ chain \in Seq(SaplingBlock)
      /\ SoundAnchors(saplingTip) /\ SoundNullifiers(saplingTip)
      /\ Grows(chain) /\ SpentOnce(chain) /\ TipShowsChain
  BY Zenon DEF SaplingInv, SaplingTypes, TipStands
<1>3. /\ \A r \in Root : A[r] = NoRecord \/ A[r] \in AnchorEntry
      /\ \A n \in Nullifier : N[n] = NoRecord \/ N[n] \in NullifierEntry
      /\ saplingTip.best \in Root \cup {NullRoot}
  BY Zenon, <1>2 DEF SaplingCaches
<1>4. /\ \A r \in Root : d.anchors[r] =
           IF A[r] = NoRecord THEN saplingDb.anchors[r]
           ELSE IF ~A[r].dirty THEN saplingDb.anchors[r]
           ELSE IF ~A[r].entered THEN NoRecord
           ELSE IF r = EmptyTree THEN saplingDb.anchors[r] ELSE A[r].tree
      /\ d.nullifiers \subseteq Nullifier
      /\ \A n \in Nullifier : n \in d.nullifiers <=>
           IF N[n] = NoRecord THEN n \in saplingDb.nullifiers
           ELSE IF N[n].dirty THEN N[n].entered ELSE n \in saplingDb.nullifiers
      /\ d.best = IF saplingTip.best = NullRoot THEN saplingDb.best ELSE saplingTip.best
      /\ d = [anchors |-> d.anchors, nullifiers |-> d.nullifiers, best |-> d.best]
      /\ d.anchors = [r \in Root |-> d.anchors[r]]
  BY ZenonT(30) DEF DbWriteSapling
<1> HIDE DEF d
<1>5. \A r \in Root : A[r] # NoRecord => /\ A[r].tree = r
                                         /\ ~A[r].dirty => A[r].entered /\ DbAnchor(r) = r
  BY ZenonT(30), <1>2 DEF SoundAnchors
<1>6. \A n \in Nullifier : N[n] # NoRecord /\ ~N[n].dirty => (N[n].entered <=> n \in saplingDb.nullifiers)
  BY ZenonT(30), <1>2 DEF SoundNullifiers
<1>7. \A r \in Root : TipAnchor(r) = IF A[r] = NoRecord THEN DbAnchor(r)
                                    ELSE IF A[r].entered THEN A[r].tree ELSE NoRecord
  BY ZenonT(30) DEF TipAnchor, Anchor
<1>8. \A n \in Nullifier : TipSpent(n) <=> IF N[n] = NoRecord THEN n \in saplingDb.nullifiers ELSE N[n].entered
  BY Zenon DEF TipSpent, Spent
<1> HIDE DEF A, N
<1>9. ASSUME NEW r \in Root PROVE DbAnchor(r)' = TipAnchor(r)
  <2>1. CASE r = EmptyTree
    <3>1. TipAnchor(r) = r BY Zenon, <1>2, <2>1 DEF TipShowsChain, Roots
    <3> QED BY Zenon, <2>1, <3>1 DEF DbAnchor
  <2>2. CASE r # EmptyTree
    <3>1. DbAnchor(r)' = d.anchors[r] /\ DbAnchor(r) = saplingDb.anchors[r]
      BY Zenon, <1>1, <2>2 DEF DbAnchor
    <3> QED BY <1>4, <1>5, <1>7, <2>2, <3>1
  <2> QED BY Zenon, <2>1, <2>2
<1>10. d.nullifiers = Nullifiers(chain)
  <2>1. Nullifiers(chain) \subseteq Nullifier BY Zenon, <1>2, ChainParts
  <2>2. \A n \in Nullifier : TipSpent(n) <=> n \in Nullifiers(chain) BY Zenon, <1>2 DEF TipShowsChain
  <2>3. \A n \in Nullifier : n \in d.nullifiers <=> TipSpent(n) BY Zenon, <1>4, <1>6, <1>8
  <2> QED BY Zenon, <1>4, <2>1, <2>2, <2>3
<1>11. DbBestAnchor' = TipBest BY Zenon, <1>1, <1>4 DEF DbBestAnchor, TipBest
<1>12. DbStands'
  <2>1. Roots(flushed)' = Roots(chain) /\ Nullifiers(flushed)' = Nullifiers(chain) /\ LastRoot(flushed)' = LastRoot(chain)
    BY Zenon, <1>1 DEF Roots, Nullifiers, LastRoot
  <2>2. DbShowsFlushedChain'
    BY Zenon, <1>1, <1>2, <1>9, <1>10, <1>11, <2>1 DEF DbShowsFlushedChain, TipShowsChain
  <2> QED BY ZenonT(30), <1>1, <1>2, <2>2 DEF DbStands, Grows, SpentOnce
<1>13. t \in SaplingCaches /\ t.best = saplingTip.best /\ t.anchors = EmptySapling.anchors
       /\ t.nullifiers = EmptySapling.nullifiers
  BY Zenon, <1>3, EmptyCacheFacts DEF SaplingCaches
<1> HIDE DEF t
<1>14. TipStands'
  <2>1. TipBest' = DbBestAnchor'
    BY ZenonT(30), <1>1, <1>4, <1>11, <1>13 DEF TipBest, DbBestAnchor
  <2> QED BY Zenon, <1>1, <1>12, <1>13, <2>1, EmptyCacheFacts, EmptyTipStands
<1>15. SaplingTypes'
  <2>1. ASSUME NEW r \in Root PROVE d.anchors[r] \in Root \cup {NoRecord}
    <3>1. saplingDb.anchors[r] \in Root \cup {NoRecord} BY Zenon, <1>2 DEF SaplingTypes
    <3> QED BY <1>4, <1>5, <3>1
  <2>2. d.anchors \in [Root -> Root \cup {NoRecord}] BY Zenon, <1>4, <2>1
  <2>3. d.best \in Root \cup {NullRoot}
    <3>1. saplingDb.best \in Root \cup {NullRoot} BY Zenon, <1>2 DEF SaplingTypes
    <3> QED BY Zenon, <1>3, <1>4, <3>1
  <2>4. d.nullifiers \in SUBSET Nullifier BY Zenon, <1>4
  <2>5. d \in [anchors : [Root -> Root \cup {NoRecord}],
               nullifiers : SUBSET Nullifier, best : Root \cup {NullRoot}]
    BY Zenon, <1>4, <2>2, <2>3, <2>4
  <2> QED BY Zenon, <1>1, <1>2, <1>13, <2>5 DEF SaplingTypes
<1>16. ViewStands' BY ZenonT(30), <1>1 DEF ViewStands
<1> QED BY Zenon, <1>12, <1>14, <1>15, <1>16 DEF SaplingInv

\* A restart goes back to the flushed chain.
LEMMA RestartInv ==
  ASSUME SaplingInv, failed = FALSE, Restart
  PROVE  SaplingInv'
<1>1. /\ saplingTip' = EmptySapling /\ saplingView' = EmptySapling /\ phase' = "idle" /\ spent' = {}
      /\ chain' = flushed /\ failed' = FALSE /\ UNCHANGED <<saplingDb, flushed>>
  BY Zenon DEF Restart
<1>2. DbStands' BY Zenon, <1>1, DbKept DEF SaplingInv
<1>3. TipBest' = DbBestAnchor' BY Zenon, <1>1, EmptyCacheFacts DEF TipBest, DbBestAnchor
<1>4. TipStands' BY Zenon, <1>1, <1>2, <1>3, EmptyCacheFacts, EmptyTipStands
<1>5. SaplingTypes' BY Zenon, <1>1, EmptyCacheFacts DEF SaplingInv, SaplingTypes
<1>6. ViewStands' BY Zenon, <1>1 DEF ViewStands
<1> QED BY Zenon, <1>2, <1>4, <1>5, <1>6 DEF SaplingInv

\* Every step keeps the inductive invariant.
LEMMA SaplingNextInv == SaplingInv /\ [SaplingNext]_saplingVars => SaplingInv'
<1> SUFFICES ASSUME SaplingInv, [SaplingNext]_saplingVars PROVE SaplingInv' BY Zenon
<1>0. failed = FALSE BY Zenon DEF SaplingInv, TipStands, AssertionsHold, SaplingTypes
<1>1. CASE BeginConnect BY Zenon, <1>1, BeginConnectInv
<1>2. CASE AbandonConnect BY Zenon, <1>0, <1>2, AbandonConnectInv
<1>3. CASE Disconnect BY Zenon, <1>3, DisconnectInv
<1>4. CASE FlushSapling BY Zenon, <1>0, <1>4, FlushSaplingInv
<1>5. CASE Restart BY Zenon, <1>0, <1>5, RestartInv
<1>6. ASSUME NEW n \in Nullifier, NEW r \in Root, SpendNote(n, r) PROVE SaplingInv'
  BY Zenon, <1>0, <1>6, SpendNoteInv
<1>7. ASSUME NEW l \in Leaves, FinishConnect(l) PROVE SaplingInv' BY Zenon, <1>0, <1>7, FinishConnectInv
<1>8. ASSUME NEW r \in Root, ReadAnchor(r) PROVE SaplingInv' BY Zenon, <1>0, <1>8, ReadInv
<1>9. ASSUME NEW n \in Nullifier, ReadNullifier(n) PROVE SaplingInv' BY Zenon, <1>0, <1>9, ReadInv
<1>10. CASE UNCHANGED saplingVars
  <2>1. /\ UNCHANGED <<saplingDb, saplingTip, saplingView, phase, spent, chain, flushed, failed>>
        /\ LikeTip(saplingTip)
    BY Zenon, <1>10, LikeTipFacts DEF saplingVars
  <2>2. TipStands' /\ DbStands' BY Zenon, <1>0, <2>1, TipReadKeeps DEF LikeTip
  <2>3. SaplingTypes' BY Zenon, <2>1 DEF SaplingInv, SaplingTypes
  <2>4. ViewStands'
    <3>1. Roots(chain)' = Roots(chain) /\ Nullifiers(chain)' = Nullifiers(chain) /\ LastRoot(chain)' = LastRoot(chain)
      BY Zenon, <2>1 DEF Roots, Nullifiers, LastRoot
    <3> QED BY Zenon, <2>1, <3>1 DEF SaplingInv, ViewStands
  <2> QED BY Zenon, <2>2, <2>3, <2>4 DEF SaplingInv
<1> QED
  BY ZenonT(30), <1>1, <1>2, <1>3, <1>4, <1>5, <1>6, <1>7, <1>8, <1>9, <1>10 DEF SaplingNext

\* The inductive invariant holds in every reachable state.
LEMMA SaplingInvariant == SaplingSpec => []SaplingInv
  BY SaplingInitInv, SaplingNextInv, PTL DEF SaplingSpec

\* Whatever ConnectBlock, DisconnectBlock, lookups, flushes and restarts did before, the
\* anchors, nullifiers and best anchor that pcoinsTip shows are those of the active chain.
THEOREM ShieldedTipCorrect == SaplingSpec => []TipShowsChain
<1>1. SaplingInv => TipShowsChain BY Zenon DEF SaplingInv, TipStands
<1> QED BY <1>1, SaplingInvariant, PTL

\* BatchWriteSapling leaves in the database exactly the shielded records of the chain that
\* was flushed.
THEOREM ShieldedDbCorrect == SaplingSpec => []DbShowsFlushedChain
<1>1. SaplingInv => DbShowsFlushedChain BY Zenon DEF SaplingInv, DbStands
<1> QED BY <1>1, SaplingInvariant, PTL

\* The assertions of ConnectBlock and BringBestAnchorIntoCache on the best anchor's tree hold.
THEOREM AnchorAssertions == SaplingSpec => []AssertionsHold
<1>1. SaplingInv => AssertionsHold BY Zenon DEF SaplingInv, TipStands
<1> QED BY <1>1, SaplingInvariant, PTL

\* HaveShieldedRequirements lets no nullifier into two blocks of the active chain.
THEOREM NullifiersSpentOnce == SaplingSpec => []NoDoubleSpend
<1>1. SaplingInv => NoDoubleSpend
  <2> SUFFICES ASSUME SaplingInv PROVE NoDoubleSpend BY Zenon
  <2>1. DOMAIN chain = 1..Len(chain) BY DEF SaplingInv, SaplingTypes
  <2> QED BY Zenon, <2>1 DEF SaplingInv, TipStands, SpentOnce, NoDoubleSpend
<1> QED BY <1>1, SaplingInvariant, PTL

-----------------------------------------------------------------------------
(* CheckQueue. *)
INSTANCE FiniteSetTheorems

IdleAt == {"asleep", "awake", "exited"}
LoopAt == IdleAt \cup {"work", "cleanup"}

\* The threads of S that nIdle counts, those that nTotal counts, and the checks that are
\* in the queue or in a batch of one of them.
IdleIn(S) == {u \in S : at[u] \in IdleAt}
LoopIn(S) == {u \in S : at[u] \in LoopAt}
Out(S) == queue \cup UNION {batch[u] : u \in S}

\* A thread holds a batch while it works on it; only the master is ever outside Loop, and
\* only workers are interrupted.
Places ==
  /\ \A t \in Checker : batch[t] # {} <=> at[t] \in {"work", "cleanup"}
  /\ \A w \in Worker : at[w] \notin {"free", "adding"}
  /\ at[Master] # "exited"

\* Every outstanding check is in one place, and was added for the current block.
Separate ==
  /\ Out(Checker) \subseteq added
  /\ \A t \in Checker : batch[t] \cap queue = {}
  /\ \A t, u \in Checker : t # u => batch[t] \cap batch[u] = {}

Counts ==
  /\ nTodo = Cardinality(Out(Checker))
  /\ nIdle = Cardinality(IdleIn(Checker))
  /\ nTotal = Cardinality(LoopIn(Checker))

\* The failure of a check c is recorded in a thread's fOk, or will be.
FailureHeld(c, S) ==
  c \in queue \/ \E u \in S : c \in batch[u] /\ (at[u] = "work" \/ fOk[u] = FALSE)

\* A failure that was recorded has a cause, and a failing check is never forgotten.
Results ==
  /\ fAllOk = FALSE => added \cap Bad # {}
  /\ \A t \in Checker : at[t] \in {"work", "cleanup"} /\ fOk[t] = FALSE => added \cap Bad # {}
  /\ at[Master] # "free" =>
       \A c \in added \cap Bad : fAllOk = FALSE \/ FailureHeld(c, Checker)

Between ==
  at[Master] = "free" => /\ Out(Checker) = {} /\ fAllOk = TRUE
                         /\ verdict = TRUE <=> added \cap Bad = {}

CheckInv == CheckTypeOK /\ Places /\ Separate /\ Counts /\ Results /\ Between

USE DEF Checker
-----------------------------------------------------------------------------
\* Every set of threads and every set of checks is finite.
LEMMA FiniteSets ==
  ASSUME CheckTypeOK, NEW S \in SUBSET Checker
  PROVE /\ IsFiniteSet(IdleIn(S)) /\ IsFiniteSet(LoopIn(S)) /\ IsFiniteSet(Out(S))
        /\ \A t \in Checker : IsFiniteSet(batch[t])
<1>1. IsFiniteSet(Checker) BY Zenon, CheckerAssumption, FS_AddElement
<1>2. IdleIn(S) \in SUBSET Checker /\ LoopIn(S) \in SUBSET Checker BY Zenon DEF IdleIn, LoopIn
<1>3. Out(S) \in SUBSET Check BY DEF Out, CheckTypeOK
<1>4. \A t \in Checker : batch[t] \in SUBSET Check BY Zenon DEF CheckTypeOK
<1> QED BY Zenon, <1>1, <1>2, <1>3, <1>4, CheckAssumption, FS_Subset

\* A new queue is empty and every thread is outside it.
LEMMA CheckInitInv == CheckInit => CheckInv
<1> SUFFICES ASSUME CheckInit PROVE CheckInv
  BY Zenon
<1>0. fAllOk \in BOOLEAN /\ verdict \in BOOLEAN /\ fOk \in [Checker -> BOOLEAN]
  BY ZenonT(30) DEF CheckInit
<1>1. CheckTypeOK BY Zenon, <1>0 DEF CheckInit, CheckTypeOK
<1>2. Out(Checker) = {} /\ IdleIn(Checker) = {} /\ LoopIn(Checker) = {}
  BY Zenon DEF CheckInit, Out, IdleIn, LoopIn, IdleAt, LoopAt
<1>3. Places BY Zenon, CheckerAssumption DEF CheckInit, Places
<1>4. Separate BY Zenon, <1>2 DEF CheckInit, Separate
<1>5. Counts BY ZenonT(30), <1>2, FS_EmptySet DEF CheckInit, Counts
<1>6. Results BY Zenon DEF CheckInit, Results
<1>7. Between BY Zenon, <1>2 DEF CheckInit, Between
<1> QED BY Zenon, <1>1, <1>3, <1>4, <1>5, <1>6, <1>7 DEF CheckInv
-----------------------------------------------------------------------------
\* What the arguments of LoopStart have to satisfy: the counters leave t out, or count it
\* as running, and ok includes the result of the batch that t has just finished.
LoopArgs(t, ok, todo, total, idle, pcs) ==
  /\ ok \in BOOLEAN
  /\ at[t] \in {"enter", "cleanup", "awake"}
  /\ pcs \in [Checker -> {"free", "adding", "enter", "work", "cleanup", "asleep", "awake",
                         "exited"}]
  /\ \A u \in Checker \ {t} : pcs[u] = at[u] \/ (at[u] = "asleep" /\ pcs[u] = "awake")
  /\ todo = Cardinality(Out(Checker \ {t}))
  /\ idle = Cardinality(IdleIn(Checker \ {t}))
  /\ total = Cardinality(LoopIn(Checker \ {t})) + 1
  /\ ok = FALSE => added \cap Bad # {}
  /\ at[Master] # "free" =>
       \A c \in added \cap Bad : ok = FALSE \/ FailureHeld(c, Checker \ {t})
  /\ at[Master] = "free" => ok = TRUE

\* The common shape of Take, Leave and Sleep: t gets the batch n and goes to l.
LoopEffect(t, ok, todo, total, idle, pcs, n, l) ==
  /\ n \in SUBSET queue /\ l \in {"work", "free", "asleep"}
  /\ l = "work" <=> n # {}
  /\ l # "work" => queue = {}
  /\ l = "free" => t = Master /\ todo = 0
  /\ l = "asleep" => ~(t = Master /\ todo = 0)
  /\ queue' = queue \ n /\ batch' = [batch EXCEPT ![t] = n]
  /\ at' = [pcs EXCEPT ![t] = l]
  /\ nTodo' = todo /\ added' = added
  /\ nTotal' = IF l = "free" THEN total - 1 ELSE total
  /\ nIdle' = IF l = "asleep" THEN idle + 1 ELSE idle
  /\ l = "free" => fAllOk' = TRUE /\ verdict' = ok
  /\ l # "free" => fAllOk' = ok /\ verdict' = verdict
  /\ fOk' = IF l = "work" THEN [fOk EXCEPT ![t] = ok] ELSE fOk

\* The part of Loop under the mutex has one of the effects LoopEffect lists.
LEMMA LoopShape ==
  ASSUME CheckInv, NEW t \in Checker, NEW ok, NEW todo, NEW total, NEW idle, NEW pcs,
         LoopArgs(t, ok, todo, total, idle, pcs), LoopStart(t, ok, todo, total, idle, pcs)
  PROVE \E n, l : LoopEffect(t, ok, todo, total, idle, pcs, n, l)
<1>1. CASE Take(t, ok, todo, total, idle, pcs)
  <2>1. PICK b \in SUBSET queue :
          /\ Cardinality(b) = NumNow(total, idle)
          /\ queue' = queue \ b /\ batch' = [batch EXCEPT ![t] = b]
    BY ZenonT(30), <1>1 DEF Take
  <2>2. b # {}
    <3>1. IsFiniteSet(queue) /\ IsFiniteSet(b)
      BY ZenonT(30), CheckAssumption, FS_Subset DEF CheckInv, CheckTypeOK
    <3>2. total \in Nat /\ idle \in Nat /\ Cardinality(queue) \in Nat
      <4>1. Checker \ {t} \in SUBSET Checker BY Zenon
      <4>2. IsFiniteSet(IdleIn(Checker \ {t})) /\ IsFiniteSet(LoopIn(Checker \ {t}))
        BY ZenonT(30), <4>1, FiniteSets DEF CheckInv
      <4> QED BY <3>1, <4>2, FS_CardinalityType DEF LoopArgs
    <3>3. Cardinality(queue) \div (total + idle + 1) \in Nat BY <3>2
    <3>4. NumNow(total, idle) >= 1
      BY <3>3, BatchAssumption DEF NumNow, Max2, Min2
    <3> QED BY <2>1, <3>1, <3>4, FS_EmptySet
  <2>3. LoopEffect(t, ok, todo, total, idle, pcs, b, "work")
    BY ZenonT(30), <1>1, <2>1, <2>2 DEF Take, LoopStart, LoopEffect
  <2> QED BY ZenonT(30), <2>3
<1>2. CASE Leave(t, ok, todo, total, idle, pcs)
  <2>1. LoopEffect(t, ok, todo, total, idle, pcs, {}, "free")
    BY Zenon, <1>2 DEF Leave, LoopStart, LoopEffect
  <2> QED BY Zenon, <2>1
<1>3. CASE Sleep(t, ok, todo, total, idle, pcs)
  <2>1. LoopEffect(t, ok, todo, total, idle, pcs, {}, "asleep")
    BY Zenon, <1>3 DEF Sleep, LoopStart, LoopEffect
  <2> QED BY Zenon, <2>1
<1> QED BY ZenonT(30), <1>1, <1>2, <1>3 DEF LoopStart
-----------------------------------------------------------------------------
\* LoopStart keeps the invariant.
LEMMA LoopKeepsInv ==
  ASSUME CheckInv, NEW t \in Checker, NEW ok, NEW todo, NEW total, NEW idle, NEW pcs,
         LoopArgs(t, ok, todo, total, idle, pcs), LoopStart(t, ok, todo, total, idle, pcs)
  PROVE CheckInv'
<1> DEFINE R == Checker \ {t}
<1>1. PICK n, l : LoopEffect(t, ok, todo, total, idle, pcs, n, l) BY Zenon, LoopShape
<1>2. /\ IsFiniteSet(IdleIn(R)) /\ IsFiniteSet(LoopIn(R)) /\ IsFiniteSet(Out(R))
  <2>1. R \in SUBSET Checker BY Zenon
  <2> QED BY Zenon, <2>1, FiniteSets DEF CheckInv
<1>3. /\ todo \in Nat /\ idle \in Nat /\ total \in Nat /\ total >= 1
  BY <1>2, FS_CardinalityType DEF LoopArgs
<1>4. /\ at'[t] = l
      /\ \A u \in R : (at'[u] \in IdleAt) = (at[u] \in IdleAt)
      /\ \A u \in R : (at'[u] \in LoopAt) = (at[u] \in LoopAt)
      /\ \A u \in R : at'[u] = at[u] \/ (at[u] = "asleep" /\ at'[u] = "awake")
  BY <1>1 DEF LoopEffect, LoopArgs, IdleAt, LoopAt
<1>5. /\ batch'[t] = n /\ \A u \in R : batch'[u] = batch[u]
  BY Zenon, <1>1 DEF LoopEffect, CheckInv, CheckTypeOK
<1>6. Out(Checker)' = Out(R)
  BY ZenonT(30), <1>1, <1>5 DEF LoopEffect, Out
<1>7. CheckTypeOK'
  <2>1. /\ nTodo' \in Nat /\ nIdle' \in Nat /\ nTotal' \in Nat
    BY <1>1, <1>3 DEF LoopEffect
  <2>2. queue' \in SUBSET Check /\ added' \in SUBSET Check
    BY Zenon, <1>1 DEF LoopEffect, CheckInv, CheckTypeOK
  <2>3. batch' \in [Checker -> SUBSET Check]
    BY Zenon, <1>1 DEF LoopEffect, CheckInv, CheckTypeOK
  <2>4. fAllOk' \in BOOLEAN /\ verdict' \in BOOLEAN
    BY ZenonT(30), <1>1, Zenon DEF LoopEffect, LoopArgs, CheckInv, CheckTypeOK
  <2>5. fOk' \in [Checker -> BOOLEAN]
    BY Zenon, <1>1 DEF LoopEffect, LoopArgs, CheckInv, CheckTypeOK
  <2>6. at' \in [Checker -> {"free", "adding", "enter", "work", "cleanup", "asleep", "awake",
                            "exited"}]
    BY Zenon, <1>1 DEF LoopEffect, LoopArgs
  <2> QED BY ZenonT(30), <2>1, <2>2, <2>3, <2>4, <2>5, <2>6 DEF CheckTypeOK
<1>8. Places'
  <2>1. batch'[t] # {} <=> at'[t] \in {"work", "cleanup"}
    BY Zenon, <1>1, <1>4, <1>5 DEF LoopEffect
  <2>2. \A u \in R : batch'[u] # {} <=> at'[u] \in {"work", "cleanup"}
    BY Zenon, <1>4, <1>5 DEF CheckInv, Places
  <2>3. \A w \in Worker : at'[w] \notin {"free", "adding"}
    BY ZenonT(30), <1>1, <1>4, CheckerAssumption DEF LoopEffect, CheckInv, Places
  <2>4. at'[Master] # "exited"
    BY Zenon, <1>1, <1>4 DEF LoopEffect, CheckInv, Places
  <2> QED BY Zenon, <2>1, <2>2, <2>3, <2>4 DEF Places
<1>9. Separate'
  BY <1>1, <1>5, <1>6 DEF LoopEffect, CheckInv, Separate, Out
<1>10. Counts'
  <2>1. IdleIn(Checker)' = IF l = "asleep" THEN IdleIn(R) \cup {t} ELSE IdleIn(R)
    <3>1. t \in IdleIn(Checker)' <=> l = "asleep"
      BY Zenon, <1>1, <1>4 DEF LoopEffect, IdleIn, IdleAt
    <3>2. \A u \in R : u \in IdleIn(Checker)' <=> u \in IdleIn(R)
      BY Zenon, <1>4 DEF IdleIn
    <3> QED BY Zenon, <3>1, <3>2 DEF IdleIn
  <2>2. LoopIn(Checker)' = IF l = "free" THEN LoopIn(R) ELSE LoopIn(R) \cup {t}
    <3>1. t \in LoopIn(Checker)' <=> l # "free"
      BY Zenon, <1>1, <1>4 DEF LoopEffect, LoopIn, LoopAt, IdleAt
    <3>2. \A u \in R : u \in LoopIn(Checker)' <=> u \in LoopIn(R)
      BY Zenon, <1>4 DEF LoopIn
    <3> QED BY ZenonT(30), <3>1, <3>2 DEF LoopIn
  <2>3. /\ Cardinality(IdleIn(R) \cup {t}) = Cardinality(IdleIn(R)) + 1
        /\ Cardinality(LoopIn(R) \cup {t}) = Cardinality(LoopIn(R)) + 1
    <3>1. t \notin IdleIn(R) /\ t \notin LoopIn(R) BY Zenon DEF IdleIn, LoopIn
    <3> QED BY ZenonT(30), <1>2, <3>1, FS_AddElement
  <2>4. nTodo' = Cardinality(Out(Checker)') BY Zenon, <1>1, <1>6 DEF LoopEffect, LoopArgs
  <2>5. nIdle' = Cardinality(IdleIn(Checker)')
    BY ZenonT(30), <1>1, <2>1, <2>3 DEF LoopEffect, LoopArgs
  <2>6. nTotal' = Cardinality(LoopIn(Checker)')
    <3>1. Cardinality(LoopIn(R)) \in Nat BY Zenon, <1>2, FS_CardinalityType
    <3> QED BY <1>1, <2>2, <2>3, <3>1 DEF LoopEffect, LoopArgs
  <2> QED BY Zenon, <2>4, <2>5, <2>6 DEF Counts
<1>11. Results'
  <2>1. added' = added BY Zenon, <1>1 DEF LoopEffect
  <2>2. fAllOk' = FALSE => added \cap Bad # {}
    BY Zenon, <1>1, Zenon DEF LoopEffect, LoopArgs
  <2>3. \A u \in R : fOk'[u] = fOk[u]
    BY Zenon, <1>1 DEF LoopEffect, CheckInv, CheckTypeOK
  <2>4. l = "work" => fOk'[t] = ok
    BY Zenon, <1>1 DEF LoopEffect, CheckInv, CheckTypeOK
  <2>5. ASSUME NEW u \in Checker, at'[u] \in {"work", "cleanup"}, fOk'[u] = FALSE
        PROVE added \cap Bad # {}
    <3>1. CASE u = t
      BY ZenonT(30), <1>1, <1>4, <2>4, <2>5, <3>1 DEF LoopEffect, LoopArgs
    <3>2. CASE u # t
      BY ZenonT(30), <1>4, <2>3, <2>5, <3>2 DEF CheckInv, Results
    <3> QED BY Zenon, <3>1, <3>2
  <2>6. ASSUME at'[Master] # "free", NEW c \in added \cap Bad
        PROVE fAllOk' = FALSE \/ FailureHeld(c, Checker)'
    <3>1. at[Master] # "free"
      BY Zenon, <1>4, <2>6 DEF LoopArgs
    <3>2. l # "free" BY ZenonT(30), <1>1, <1>4, <2>6 DEF LoopEffect
    <3>3. fAllOk' = ok BY Zenon, <1>1, <3>2 DEF LoopEffect
    <3>4. CASE ok = FALSE BY ZenonT(30), <3>3, <3>4
    <3>5. CASE c \in queue
      <4>1. CASE c \in n
        <5>1. at'[t] = "work" BY ZenonT(30), <1>1, <1>4, <4>1 DEF LoopEffect
        <5> QED BY Zenon, <1>5, <4>1, <5>1 DEF FailureHeld
      <4>2. CASE c \notin n BY Zenon, <1>1, <3>5, <4>2 DEF LoopEffect, FailureHeld
      <4> QED BY ZenonT(60), <4>1, <4>2
    <3>6. ASSUME NEW u \in R, c \in batch[u], at[u] = "work" \/ fOk[u] = FALSE
          PROVE FailureHeld(c, Checker)'
      <4>1. at'[u] = "work" \/ fOk'[u] = FALSE BY ZenonT(30), <1>4, <2>3, <3>6
      <4> QED BY Zenon, <1>5, <3>6, <4>1 DEF FailureHeld
    <3> QED BY ZenonT(30), <3>1, <3>4, <3>5, <3>6 DEF LoopArgs, FailureHeld
  <2> QED BY ZenonT(60), <2>1, <2>2, <2>5, <2>6 DEF Results
<1>12. Between'
  <2> SUFFICES ASSUME at'[Master] = "free"
               PROVE /\ Out(Checker)' = {} /\ fAllOk' = TRUE
                     /\ verdict' = TRUE <=> added' \cap Bad = {}
    BY ZenonT(30) DEF Between
  <2>0. added' = added BY Zenon, <1>1 DEF LoopEffect
  <2>1. CASE t = Master
    <3>1. l = "free" /\ todo = 0 BY Zenon, <1>1, <1>4, <2>1 DEF LoopEffect
    <3>2. Out(R) = {} BY ZenonT(60), <1>2, <3>1, FS_EmptySet DEF LoopArgs
    <3>3. fAllOk' = TRUE /\ verdict' = ok BY Zenon, <1>1, <3>1 DEF LoopEffect
    <3>4. at[Master] # "free" BY Zenon, <2>1 DEF LoopArgs
    <3>5. \A c : ~FailureHeld(c, R) BY Zenon, <3>2 DEF FailureHeld, Out
    <3>6. ok = TRUE <=> added \cap Bad = {}
      BY ZenonT(30), <3>4, <3>5, Zenon DEF LoopArgs
    <3> QED BY ZenonT(30), <1>6, <2>0, <3>2, <3>3, <3>6
  <2>2. CASE t # Master
    <3>1. at[Master] = "free" BY Zenon, <1>4, <2>2
    <3>2. Out(Checker) = {}
      BY Zenon, <3>1 DEF CheckInv, Between
    <3>3. Out(R) = {} BY Zenon, <3>2 DEF Out
    <3>4. l # "free" BY Zenon, <1>1, <2>2 DEF LoopEffect
    <3>5. fAllOk' = ok /\ verdict' = verdict BY Zenon, <1>1, <3>4 DEF LoopEffect
    <3>6. ok = TRUE BY Zenon, <3>1 DEF LoopArgs
    <3>7. verdict = TRUE <=> added \cap Bad = {} BY Zenon, <3>1 DEF CheckInv, Between
    <3> QED BY Zenon, <1>6, <2>0, <3>3, <3>5, <3>6, <3>7
  <2> QED BY ZenonT(30), <2>1, <2>2
<1> QED BY ZenonT(30), <1>7, <1>8, <1>9, <1>10, <1>11, <1>12 DEF CheckInv
-----------------------------------------------------------------------------
\* The arguments with which the three callers enter LoopStart are right.
LEMMA EnterArgs ==
  ASSUME CheckInv, NEW t \in Checker, EnterLoop(t)
  PROVE LoopArgs(t, fAllOk, nTodo, nTotal + 1, nIdle, at)
<1> DEFINE R == Checker \ {t}
<1>1. at[t] = "enter" /\ batch[t] = {} BY Zenon DEF EnterLoop, CheckInv, Places
<1>2. Out(Checker) = Out(R) BY Zenon, <1>1 DEF Out
<1>3. IdleIn(Checker) = IdleIn(R) /\ LoopIn(Checker) = LoopIn(R)
  BY Zenon, <1>1 DEF IdleIn, LoopIn, IdleAt, LoopAt
<1>4. \A c : FailureHeld(c, Checker) => FailureHeld(c, R)
  BY Zenon, <1>1 DEF FailureHeld
<1>5. fAllOk \in BOOLEAN BY Zenon DEF CheckInv, CheckTypeOK
<1>6. fAllOk = FALSE => added \cap Bad # {} BY Zenon DEF CheckInv, Results
<1>7. at[Master] # "free" =>
        \A c \in added \cap Bad : fAllOk = FALSE \/ FailureHeld(c, R)
  BY Zenon, <1>4 DEF CheckInv, Results
<1>8. at[Master] = "free" => fAllOk = TRUE BY Zenon DEF CheckInv, Between
<1> QED BY ZenonT(30), <1>1, <1>2, <1>3, <1>5, <1>6, <1>7, <1>8
        DEF LoopArgs, CheckInv, CheckTypeOK, Counts

\* A thread that wakes up enters that part with arguments that fit the invariant.
LEMMA WakeArgs ==
  ASSUME CheckInv, NEW t \in Checker, WakeUp(t)
  PROVE LoopArgs(t, fAllOk, nTodo, nTotal, nIdle - 1, at)
<1> DEFINE R == Checker \ {t}
<1>1. at[t] = "awake" /\ batch[t] = {} BY Zenon DEF WakeUp, CheckInv, Places
<1>2. Out(Checker) = Out(R) BY Zenon, <1>1 DEF Out
<1>3. IdleIn(Checker) = IdleIn(R) \cup {t} /\ LoopIn(Checker) = LoopIn(R) \cup {t}
  BY Zenon, <1>1 DEF IdleIn, LoopIn, IdleAt, LoopAt
<1>4. /\ nIdle - 1 = Cardinality(IdleIn(R)) /\ nTotal = Cardinality(LoopIn(R)) + 1
  <2>1. R \in SUBSET Checker BY Zenon
  <2>2. IsFiniteSet(IdleIn(R)) /\ IsFiniteSet(LoopIn(R)) BY Zenon, <2>1, FiniteSets DEF CheckInv
  <2>3. t \notin IdleIn(R) /\ t \notin LoopIn(R) BY Zenon DEF IdleIn, LoopIn
  <2>4. Cardinality(IdleIn(R)) \in Nat BY Zenon, <2>2, FS_CardinalityType
  <2>5. /\ Cardinality(IdleIn(R) \cup {t}) = Cardinality(IdleIn(R)) + 1
        /\ Cardinality(LoopIn(R) \cup {t}) = Cardinality(LoopIn(R)) + 1
    BY ZenonT(30), <2>2, <2>3, FS_AddElement
  <2>6. /\ nIdle = Cardinality(IdleIn(R) \cup {t})
        /\ nTotal = Cardinality(LoopIn(R) \cup {t})
    BY Zenon, <1>3 DEF CheckInv, Counts
  <2> QED BY <2>4, <2>5, <2>6
<1>5. \A c : FailureHeld(c, Checker) => FailureHeld(c, R)
  BY ZenonT(30), <1>1 DEF FailureHeld
<1>6. fAllOk \in BOOLEAN BY Zenon DEF CheckInv, CheckTypeOK
<1>7. fAllOk = FALSE => added \cap Bad # {} BY Zenon DEF CheckInv, Results
<1>8. at[Master] # "free" =>
        \A c \in added \cap Bad : fAllOk = FALSE \/ FailureHeld(c, R)
  BY Zenon, <1>5 DEF CheckInv, Results
<1>9. at[Master] = "free" => fAllOk = TRUE BY Zenon DEF CheckInv, Between
<1> QED BY ZenonT(30), <1>1, <1>2, <1>4, <1>6, <1>7, <1>8, <1>9
        DEF LoopArgs, CheckInv, CheckTypeOK, Counts

\* CleanUp, with the places the threads have after the master was notified.
Notified(t) ==
  IF nTodo - Cardinality(batch[t]) = 0 /\ t # Master /\ at[Master] = "asleep"
  THEN [at EXCEPT ![Master] = "awake"] ELSE at

\* So does a thread that has finished a batch.
LEMMA CleanUpArgs ==
  ASSUME CheckInv, NEW t \in Checker, CleanUp(t)
  PROVE LoopArgs(t, fAllOk /\ fOk[t], nTodo - Cardinality(batch[t]), nTotal, nIdle, Notified(t))
<1> DEFINE R == Checker \ {t}
           ok == fAllOk /\ fOk[t]
<1>1. at[t] = "cleanup" /\ batch[t] # {} BY Zenon DEF CleanUp, CheckInv, Places
<1>2. Out(Checker) = Out(R) \cup batch[t] /\ Out(R) \cap batch[t] = {}
  BY DEF Out, CheckInv, Separate
<1>3. R \in SUBSET Checker BY Zenon
<1>4. /\ IsFiniteSet(IdleIn(R)) /\ IsFiniteSet(LoopIn(R)) /\ IsFiniteSet(Out(R))
      /\ IsFiniteSet(batch[t])
  BY ZenonT(30), <1>3, FiniteSets DEF CheckInv
<1>5. nTodo - Cardinality(batch[t]) = Cardinality(Out(R))
  <2>1. Cardinality(Out(R)) \in Nat /\ Cardinality(batch[t]) \in Nat
    BY ZenonT(30), <1>4, FS_CardinalityType
  <2>2. Cardinality(Out(R) \cup batch[t])
          = Cardinality(Out(R)) + Cardinality(batch[t]) - Cardinality(Out(R) \cap batch[t])
    BY ZenonT(30), <1>4, FS_Union
  <2>3. Cardinality(Out(R) \cap batch[t]) = 0 BY Zenon, <1>2, FS_EmptySet
  <2>4. nTodo = Cardinality(Out(R) \cup batch[t]) BY ZenonT(30), <1>2 DEF CheckInv, Counts
  <2> QED BY SMTT(30), <2>1, <2>2, <2>3, <2>4
<1>6. IdleIn(Checker) = IdleIn(R) /\ LoopIn(Checker) = LoopIn(R) \cup {t}
  BY Zenon, <1>1 DEF IdleIn, LoopIn, IdleAt, LoopAt
<1>7. nIdle = Cardinality(IdleIn(R)) /\ nTotal = Cardinality(LoopIn(R)) + 1
  <2>1. t \notin LoopIn(R) BY Zenon DEF LoopIn
  <2> QED BY ZenonT(30), <1>4, <1>6, <2>1, FS_AddElement DEF CheckInv, Counts
<1>8. /\ Notified(t) \in [Checker -> {"free", "adding", "enter", "work", "cleanup", "asleep",
                                     "awake", "exited"}]
      /\ \A u \in R : Notified(t)[u] = at[u] \/ (at[u] = "asleep" /\ Notified(t)[u] = "awake")
  BY Zenon DEF Notified, CheckInv, CheckTypeOK
<1>9. ok \in BOOLEAN BY Zenon
<1>10. ok = FALSE => fAllOk = FALSE \/ fOk[t] = FALSE
  BY ZenonT(30) DEF CheckInv, CheckTypeOK
<1>11. fAllOk = FALSE \/ fOk[t] = FALSE => ok = FALSE
  BY ZenonT(30)
<1>12. ok = FALSE => added \cap Bad # {}
  BY Zenon, <1>1, <1>10 DEF CheckInv, Results
<1>13. at[Master] # "free"
  BY ZenonT(30), <1>1 DEF CheckInv, Between, Out
<1>14. ASSUME NEW c \in added \cap Bad PROVE ok = FALSE \/ FailureHeld(c, R)
  <2>1. CASE fAllOk = FALSE BY ZenonT(30), <1>11, <2>1
  <2>2. CASE c \in queue BY Zenon, <2>2 DEF FailureHeld
  <2>3. ASSUME NEW u \in Checker, c \in batch[u], at[u] = "work" \/ fOk[u] = FALSE
        PROVE ok = FALSE \/ FailureHeld(c, R)
    <3>1. CASE u = t BY ZenonT(30), <1>1, <1>11, <2>3, <3>1
    <3>2. CASE u # t BY ZenonT(30), <2>3, <3>2 DEF FailureHeld
    <3> QED BY ZenonT(30), <3>1, <3>2
  <2> QED BY ZenonT(30), <1>13, <2>1, <2>2, <2>3 DEF CheckInv, Results, FailureHeld
<1> HIDE DEF ok
<1>15. LoopArgs(t, ok, nTodo - Cardinality(batch[t]), nTotal, nIdle, Notified(t))
  BY ZenonT(60), <1>1, <1>5, <1>7, <1>8, <1>9, <1>12, <1>13, <1>14 DEF LoopArgs
<1> QED BY Zenon, <1>15 DEF ok
-----------------------------------------------------------------------------
\* The steps that only move a thread from one waiting place to another.
LEMMA MoveKeepsInv ==
  ASSUME CheckInv, NEW t \in Checker, WakeSpuriously(t) \/ InterruptWorker(t)
  PROVE CheckInv'
<1>1. /\ UNCHANGED <<queue, nIdle, nTotal, fAllOk, nTodo, batch, fOk, added, verdict>>
      /\ at[t] = "asleep"
      /\ at' = [at EXCEPT ![t] = "awake"] \/ (t # Master /\ at' = [at EXCEPT ![t] = "exited"])
  BY Zenon, CheckerAssumption DEF WakeSpuriously, InterruptWorker
<1> USE DEF CheckInv
<1>2. CheckTypeOK' BY Zenon, <1>1 DEF CheckTypeOK
<1>3. \A u \in Checker :
        /\ (at'[u] \in IdleAt) = (at[u] \in IdleAt)
        /\ (at'[u] \in LoopAt) = (at[u] \in LoopAt)
        /\ u # t => at'[u] = at[u]
  BY <1>1 DEF CheckTypeOK, IdleAt, LoopAt
<1>4. at'[t] \in {"awake", "exited"} /\ (at'[t] = "exited" => t # Master)
  BY Zenon, <1>1 DEF CheckTypeOK
<1>5. Places' BY ZenonT(30), <1>1, <1>3, <1>4 DEF Places
<1>6. Out(Checker)' = Out(Checker) /\ Separate' BY <1>1 DEF Out, Separate
<1>7. IdleIn(Checker)' = IdleIn(Checker) /\ LoopIn(Checker)' = LoopIn(Checker)
  BY Zenon, <1>3 DEF IdleIn, LoopIn
<1>8. Counts' BY Zenon, <1>1, <1>6, <1>7 DEF Counts
<1>9. Results'
  <2>1. \A u \in Checker : at'[u] \in {"work", "cleanup"} => at[u] \in {"work", "cleanup"}
    BY ZenonT(30), <1>3, <1>4
  <2>2. \A c : FailureHeld(c, Checker) => FailureHeld(c, Checker)'
    <3> SUFFICES ASSUME NEW c, FailureHeld(c, Checker) PROVE FailureHeld(c, Checker)'
      BY ZenonT(60)
    <3>1. batch[t] = {} BY ZenonT(30), <1>1 DEF Places
    <3> QED BY ZenonT(30), <1>1, <1>3, <3>1 DEF FailureHeld
  <2>3. at'[Master] # "free" => at[Master] # "free" BY ZenonT(30), <1>1, <1>3
  <2> QED BY Zenon, <1>1, <2>1, <2>2, <2>3 DEF Results
<1>10. Between'
  <2>1. at'[Master] = "free" => at[Master] = "free" BY ZenonT(30), <1>3, <1>4
  <2> QED BY ZenonT(30), <1>1, <1>6, <2>1 DEF Between
<1> QED BY ZenonT(30), <1>2, <1>5, <1>6, <1>8, <1>9, <1>10

\* A batch is executed.
LEMMA ExecuteKeepsInv ==
  ASSUME CheckInv, NEW t \in Checker, Execute(t)
  PROVE CheckInv'
<1>1. /\ UNCHANGED <<queue, nIdle, nTotal, fAllOk, nTodo, batch, added, verdict>>
      /\ at[t] = "work" /\ at' = [at EXCEPT ![t] = "cleanup"]
      /\ fOk' = [fOk EXCEPT ![t] = fOk[t] /\ batch[t] \cap Bad = {}]
  BY Zenon DEF Execute
<1> USE DEF CheckInv
<1>2. /\ \A u \in Checker : u # t => at'[u] = at[u] /\ fOk'[u] = fOk[u]
      /\ at'[t] = "cleanup" /\ fOk'[t] = (fOk[t] /\ batch[t] \cap Bad = {})
  BY ZenonT(30), <1>1 DEF CheckTypeOK
<1>3. CheckTypeOK'
  <2>1. (fOk[t] /\ batch[t] \cap Bad = {}) \in BOOLEAN BY Zenon
  <2> QED BY ZenonT(30), <1>1, <2>1 DEF CheckTypeOK
<1>4. Places' BY ZenonT(30), <1>1, <1>2 DEF Places
<1>5. Out(Checker)' = Out(Checker) /\ Separate' BY ZenonT(30), <1>1 DEF Out, Separate
<1>6. IdleIn(Checker)' = IdleIn(Checker) /\ LoopIn(Checker)' = LoopIn(Checker)
  <2>1. \A u \in Checker :
          /\ (at'[u] \in IdleAt) = (at[u] \in IdleAt)
          /\ (at'[u] \in LoopAt) = (at[u] \in LoopAt)
    BY SMTT(30), <1>1, <1>2 DEF IdleAt, LoopAt
  <2> QED BY Zenon, <2>1 DEF IdleIn, LoopIn
<1>7. Counts' BY Zenon, <1>1, <1>5, <1>6 DEF Counts
<1>8. Results'
  <2>1. fOk'[t] = FALSE => fOk[t] = FALSE \/ batch[t] \cap Bad # {}
    BY Zenon, <1>2, Zenon DEF CheckTypeOK
  <2>2. batch[t] \cap Bad # {} => fOk'[t] = FALSE BY ZenonT(30), <1>2
  <2>3. fOk[t] = FALSE => fOk'[t] = FALSE BY ZenonT(60), <1>2
  <2>4. batch[t] \subseteq added BY Zenon DEF Separate, Out
  <2>5. ASSUME NEW u \in Checker, at'[u] \in {"work", "cleanup"}, fOk'[u] = FALSE
        PROVE added \cap Bad # {}
    <3>1. CASE u = t BY ZenonT(30), <1>1, <2>1, <2>4, <2>5, <3>1 DEF Results
    <3>2. CASE u # t BY Zenon, <1>2, <2>5, <3>2 DEF Results
    <3> QED BY Zenon, <3>1, <3>2
  <2>6. ASSUME NEW c \in Bad, FailureHeld(c, Checker) PROVE FailureHeld(c, Checker)'
    <3>1. CASE c \in queue BY Zenon, <1>1, <3>1 DEF FailureHeld
    <3>2. ASSUME NEW u \in Checker, c \in batch[u], at[u] = "work" \/ fOk[u] = FALSE
          PROVE FailureHeld(c, Checker)'
      <4>1. CASE u = t BY ZenonT(30), <1>1, <2>2, <3>2, <4>1 DEF FailureHeld
      <4>2. CASE u # t BY ZenonT(30), <1>1, <1>2, <3>2, <4>2 DEF FailureHeld
      <4> QED BY ZenonT(30), <4>1, <4>2
    <3> QED BY ZenonT(60), <2>6, <3>1, <3>2 DEF FailureHeld
  <2>7. at'[Master] # "free" => at[Master] # "free" BY ZenonT(30), <1>1, <1>2
  <2> QED BY ZenonT(30), <1>1, <2>5, <2>6, <2>7 DEF Results
<1>9. Between'
  <2>1. at'[Master] = "free" => at[Master] = "free" BY ZenonT(30), <1>2
  <2> QED BY ZenonT(30), <1>1, <1>5, <2>1 DEF Between
<1> QED BY ZenonT(30), <1>3, <1>4, <1>5, <1>7, <1>8, <1>9
-----------------------------------------------------------------------------
\* The master begins a block, or starts to wait for its checks.
LEMMA MasterKeepsInv ==
  ASSUME CheckInv, Begin \/ Wait
  PROVE CheckInv'
<1> USE DEF CheckInv
<1>1. /\ UNCHANGED <<queue, nIdle, nTotal, fAllOk, nTodo, batch, fOk, verdict>>
      /\ at[Master] \in {"free", "adding"}
      /\ \E l \in {"adding", "enter"} : at' = [at EXCEPT ![Master] = l]
      /\ added' \in SUBSET Check
  BY Zenon DEF Begin, Wait, CheckTypeOK
<1>2. /\ at'[Master] \in {"adding", "enter"}
      /\ \A u \in Checker : u # Master => at'[u] = at[u]
  BY Zenon, <1>1 DEF CheckTypeOK
<1>3. CheckTypeOK' BY ZenonT(30), <1>1 DEF CheckTypeOK
<1>4. Places' BY ZenonT(30), <1>1, <1>2 DEF Places
<1>5. Out(Checker)' = Out(Checker) BY ZenonT(30), <1>1 DEF Out
<1>6. IdleIn(Checker)' = IdleIn(Checker) /\ LoopIn(Checker)' = LoopIn(Checker)
  <2>1. \A u \in Checker :
          /\ (at'[u] \in IdleAt) = (at[u] \in IdleAt)
          /\ (at'[u] \in LoopAt) = (at[u] \in LoopAt)
    BY SMTT(30), <1>1, <1>2 DEF IdleAt, LoopAt
  <2> QED BY ZenonT(30), <2>1 DEF IdleIn, LoopIn
<1>7. Counts' BY ZenonT(30), <1>1, <1>5, <1>6 DEF Counts
<1>8. Separate' /\ Results'
  <2>1. CASE Begin
    <3>1. Out(Checker) = {} /\ fAllOk = TRUE /\ added' = {} BY Zenon, <2>1 DEF Begin, Between
    <3>2. \A u \in Checker : batch[u] = {} BY Zenon, <3>1 DEF Out
    <3>3. \A u \in Checker : at'[u] \notin {"work", "cleanup"}
      BY Zenon, <1>2, <3>2 DEF Places
    <3>4. Separate' BY ZenonT(30), <1>1, <1>5, <3>1, <3>2 DEF Separate
    <3>5. Results' BY ZenonT(30), <1>1, <3>1, <3>3 DEF Results
    <3> QED BY Zenon, <3>4, <3>5
  <2>2. CASE Wait
    <3>1. added' = added /\ at[Master] = "adding" BY Zenon, <2>2 DEF Wait
    <3>2. \A u \in Checker :
            at'[u] \in {"work", "cleanup"} => at'[u] = at[u]
      BY Zenon, <1>2
    <3>3. \A c : FailureHeld(c, Checker) => FailureHeld(c, Checker)'
      BY ZenonT(30), <1>1, <1>2, <3>1 DEF FailureHeld, Places
    <3>4. Separate' BY ZenonT(60), <1>1, <1>5, <3>1 DEF Separate
    <3>5. Results' BY ZenonT(30), <1>1, <3>1, <3>2, <3>3 DEF Results
    <3> QED BY Zenon, <3>4, <3>5
  <2> QED BY Zenon, <2>1, <2>2
<1>9. Between' BY Zenon, <1>2 DEF Between
<1> QED BY ZenonT(30), <1>3, <1>4, <1>7, <1>8, <1>9

\* The master adds checks and notifies workers.
LEMMA AddKeepsInv ==
  ASSUME CheckInv, Add
  PROVE CheckInv'
<1> USE DEF CheckInv
<1>1. PICK cs \in SUBSET (Check \ added) :
        /\ queue' = queue \cup cs /\ added' = added \cup cs
        /\ nTodo' = nTodo + Cardinality(cs)
        /\ \/ at' = at
           \/ \E w \in Worker : at[w] = "asleep" /\ at' = [at EXCEPT ![w] = "awake"]
           \/ at' = [t \in Checker |->
                       IF t \in {w \in Worker : at[w] = "asleep"} THEN "awake" ELSE at[t]]
  BY Zenon DEF Add
<1>2. UNCHANGED <<nIdle, nTotal, fAllOk, batch, fOk, verdict>> /\ at[Master] = "adding"
  BY Zenon DEF Add
<1>3. \A u \in Checker : at'[u] = at[u] \/ (at[u] = "asleep" /\ at'[u] = "awake")
  BY Zenon, <1>1 DEF CheckTypeOK
<1>4. IsFiniteSet(cs) /\ Cardinality(cs) \in Nat
  BY ZenonT(30), CheckAssumption, FS_Subset, FS_CardinalityType
<1>5. CheckTypeOK'
  <2>1. at' \in [Checker -> {"free", "adding", "enter", "work", "cleanup", "asleep", "awake",
                            "exited"}]
    BY ZenonT(30), <1>1 DEF CheckTypeOK
  <2> QED BY SMTT(30), <1>1, <1>2, <1>4, <2>1 DEF CheckTypeOK
<1>6. Places' BY ZenonT(30), <1>2, <1>3 DEF Places
<1>7. Out(Checker)' = Out(Checker) \cup cs /\ Out(Checker) \cap cs = {}
  BY SMTT(30), <1>1, <1>2 DEF Out, Separate
<1>8. Separate' BY SMTT(30), <1>1, <1>2, <1>7 DEF Separate, Out
<1>9. Counts'
  <2>1. IdleIn(Checker)' = IdleIn(Checker) /\ LoopIn(Checker)' = LoopIn(Checker)
    <3>1. \A u \in Checker :
            /\ (at'[u] \in IdleAt) = (at[u] \in IdleAt)
            /\ (at'[u] \in LoopAt) = (at[u] \in LoopAt)
      BY <1>3 DEF IdleAt, LoopAt
    <3> QED BY Zenon, <3>1 DEF IdleIn, LoopIn
  <2>2. IsFiniteSet(Out(Checker)) BY Zenon, FiniteSets
  <2>3. Cardinality(Out(Checker)) \in Nat BY Zenon, <2>2, FS_CardinalityType
  <2>4. Cardinality(Out(Checker) \cup cs)
          = Cardinality(Out(Checker)) + Cardinality(cs) - Cardinality(Out(Checker) \cap cs)
    BY ZenonT(30), <1>4, <2>2, FS_Union
  <2>5. Cardinality(Out(Checker) \cap cs) = 0 BY Zenon, <1>7, FS_EmptySet
  <2>6. nTodo = Cardinality(Out(Checker)) BY Zenon DEF Counts
  <2>7. nTodo' = Cardinality(Out(Checker) \cup cs)
    BY <1>1, <1>4, <2>3, <2>4, <2>5, <2>6
  <2> QED BY Zenon, <1>2, <1>7, <2>1, <2>7 DEF Counts
<1>10. Results'
  <2>1. \A u \in Checker : at'[u] \in {"work", "cleanup"} => at'[u] = at[u] BY Zenon, <1>3
  <2>2. ASSUME NEW c \in added' \cap Bad PROVE fAllOk' = FALSE \/ FailureHeld(c, Checker)'
    <3>1. CASE c \in cs BY Zenon, <1>1, <3>1 DEF FailureHeld
    <3>2. CASE c \in queue BY Zenon, <1>1, <3>2 DEF FailureHeld
    <3>3. ASSUME NEW u \in Checker, c \in batch[u], at[u] = "work" \/ fOk[u] = FALSE
          PROVE FailureHeld(c, Checker)'
      BY ZenonT(30), <1>2, <1>3, <3>3 DEF FailureHeld
    <3>4. CASE c \in added
      BY ZenonT(60), <1>2, <3>2, <3>3, <3>4 DEF Results, FailureHeld
    <3> QED BY ZenonT(60), <1>1, <3>1, <3>4
  <2>3. added \subseteq added' BY Zenon, <1>1
  <2>4. fAllOk' = FALSE => added' \cap Bad # {} BY Zenon, <1>2, <2>3 DEF Results
  <2>5. \A t \in Checker :
          at'[t] \in {"work", "cleanup"} /\ fOk'[t] = FALSE => added' \cap Bad # {}
    BY ZenonT(30), <1>2, <2>1, <2>3 DEF Results
  <2> QED BY ZenonT(30), <2>2, <2>4, <2>5 DEF Results
<1>11. Between' BY ZenonT(30), <1>2, <1>3 DEF Between
<1> QED BY ZenonT(30), <1>5, <1>6, <1>8, <1>9, <1>10, <1>11
-----------------------------------------------------------------------------
\* The inductive invariant of the check queue: every check is in one place, the counters
\* count what they are named for, and no failure is forgotten.
THEOREM CheckInvariant == CheckSpec => []CheckInv
<1>1. CheckInv /\ [CheckNext]_checkVars => CheckInv'
  <2> SUFFICES ASSUME CheckInv, [CheckNext]_checkVars PROVE CheckInv'
    BY Zenon
  <2>1. ASSUME NEW t \in Checker, EnterLoop(t) PROVE CheckInv'
    <3>1. LoopStart(t, fAllOk, nTodo, nTotal + 1, nIdle, at) BY Zenon, <2>1 DEF EnterLoop
    <3> QED BY ZenonT(30), <2>1, <3>1, EnterArgs, LoopKeepsInv
  <2>2. ASSUME NEW t \in Checker, WakeUp(t) PROVE CheckInv'
    <3>1. LoopStart(t, fAllOk, nTodo, nTotal, nIdle - 1, at) BY Zenon, <2>2 DEF WakeUp
    <3> QED BY ZenonT(30), <2>2, <3>1, WakeArgs, LoopKeepsInv
  <2>3. ASSUME NEW t \in Checker, CleanUp(t) PROVE CheckInv'
    <3>1. LoopStart(t, fAllOk /\ fOk[t], nTodo - Cardinality(batch[t]), nTotal, nIdle,
                    Notified(t))
      BY Zenon, <2>3 DEF CleanUp, Notified
    <3>2. LoopArgs(t, fAllOk /\ fOk[t], nTodo - Cardinality(batch[t]), nTotal, nIdle,
                   Notified(t))
      BY ZenonT(30), <2>3, CleanUpArgs
    <3> QED BY Zenon, <3>1, <3>2, LoopKeepsInv
  <2>4. ASSUME UNCHANGED checkVars PROVE CheckInv'
    BY <2>4 DEF checkVars, CheckInv, CheckTypeOK, Places, Separate, Counts, Results, Between,
                Out, IdleIn, LoopIn, FailureHeld
  <2> QED BY ZenonT(30), <2>1, <2>2, <2>3, <2>4, MoveKeepsInv, ExecuteKeepsInv, MasterKeepsInv,
             AddKeepsInv DEF CheckNext, CheckStep
<1> QED BY CheckInitInv, <1>1, PTL DEF CheckSpec

\* CCheckQueueControl::Wait returns whether every check of the block succeeded, for any
\* number of workers and checks and any batch size.
THEOREM VerdictCorrect == CheckSpec => []VerdictRight
<1>1. CheckInv => VerdictRight
  <2> SUFFICES ASSUME CheckInv, at[Master] = "free" PROVE verdict <=> added \cap Bad = {}
    BY Zenon DEF VerdictRight
  <2>1. verdict \in BOOLEAN BY Zenon DEF CheckInv, CheckTypeOK
  <2>2. verdict = TRUE <=> added \cap Bad = {} BY ZenonT(30) DEF CheckInv, Between
  <2> QED BY Zenon, <2>1, <2>2, Zenon
<1> QED BY <1>1, CheckInvariant, PTL

\* The assertion in the constructor of CCheckQueueControl never fails.
THEOREM IdleAssertion == CheckSpec => []IdleBetweenBlocks
<1>1. CheckInv => IdleBetweenBlocks
  <2> SUFFICES ASSUME CheckInv, at[Master] = "free"
               PROVE nTotal = nIdle /\ nTodo = 0 /\ fAllOk
    BY Zenon DEF IdleBetweenBlocks
  <2>1. Out(Checker) = {} /\ fAllOk = TRUE BY Zenon DEF CheckInv, Between
  <2>2. nTodo = 0 BY ZenonT(30), <2>1, FS_EmptySet DEF CheckInv, Counts
  <2>3. \A u \in Checker : at[u] \notin {"work", "cleanup"} BY <2>1 DEF Out, CheckInv, Places
  <2>4. LoopIn(Checker) = IdleIn(Checker) BY Zenon, <2>3 DEF LoopIn, IdleIn, LoopAt
  <2>5. nTotal = nIdle BY Zenon, <2>4 DEF CheckInv, Counts
  <2>6. fAllOk BY Zenon, <2>1
  <2> QED BY ZenonT(30), <2>2, <2>5, <2>6
<1> QED BY <1>1, CheckInvariant, PTL

=============================================================================
