--------------------------- MODULE ChainSelection ---------------------------
(***************************************************************************)
(* How the node chooses its active chain: the block index with its         *)
(* validity flags, setBlockIndexCandidates and mapBlocksUnlinked,          *)
(* AcceptBlock, the loop of ActivateBestChain, and the invalidateblock and *)
(* reconsiderblock calls of the RPC thread.                                *)
(*                                                                         *)
(* ActivateBestChain holds m_cs_chainstate from start to end but releases  *)
(* cs_main between two iterations.  Everything else needs cs_main only, so *)
(* it can run between two iterations, and the pindexMostWork that the loop *)
(* carries over may be stale.                                              *)
(***************************************************************************)
EXTENDS Integers, FiniteSets

CONSTANTS
  Block, Genesis,      \* the block tree
  Parent,              \* [Block \ {Genesis} -> Block]
  Proof,               \* GetBlockProof: [Block -> Nat \ {0}]
  ProofOfStake,        \* the blocks that are proof of stake
  BadContext,          \* the blocks ContextualCheckBlock refuses
  BadConnect,          \* the blocks ConnectBlock finds invalid
  Addresses,           \* the memory layouts considered: a set of injections from Block to Nat
  Reconsiderable,      \* the blocks the operator names in reconsiderblock
  RpcDuringActivation, \* whether the two calls may come between two iterations
  MaxReorg,            \* -maxreorg
  MaxCalls,            \* bound on the number of RPC calls
  MaxRestarts,         \* bound on the number of restarts
  Null

ASSUME ChainSelectionAssumption ==
  /\ IsFiniteSet(Block) /\ Genesis \in Block /\ Null \notin Block
  /\ Parent \in [Block \ {Genesis} -> Block]
  /\ \A S \in SUBSET Block : S # {} => \E b \in S : b = Genesis \/ Parent[b] \notin S
  /\ Proof \in [Block -> Nat \ {0}]
  /\ Genesis \notin BadContext \cup BadConnect
  /\ \A f \in Addresses : f \in [Block -> Nat] /\ \A x, y \in Block : f[x] = f[y] => x = y
  /\ RpcDuringActivation \in BOOLEAN
  /\ MaxReorg \in Nat /\ MaxCalls \in Nat /\ MaxRestarts \in Nat

VARIABLES
  index,        \* mapBlockIndex
  data,         \* BLOCK_HAVE_DATA
  linked,       \* nChainTx is not 0
  invalid,      \* BLOCK_FAILED_VALID
  child,        \* BLOCK_FAILED_CHILD
  unsaved,      \* ... set without an entry in setDirtyBlockIndex
  seq,          \* nSequenceId
  addr,         \* where the index entries lie in memory
  candidates,   \* setBlockIndexCandidates
  unlinked,     \* the second components of mapBlocksUnlinked
  tip,          \* chainActive.Tip()
  phase,        \* "idle", "released" and "held": ActivateBestChain is not running, runs
                \* without cs_main, runs with it; "aborted": an assertion failed
  mostWork,     \* its pindexMostWork
  starting,     \* its starting_tip
  owed,         \* some thread is about to call ActivateBestChain
  calls, restarts

flags == <<invalid, child, unsaved>>
tree  == <<index, data, linked, seq, addr>>
abc   == <<phase, mostWork, starting>>
vars  == <<tree, flags, candidates, unlinked, tip, abc, owed, calls, restarts>>

-----------------------------------------------------------------------------
(* The block tree. *)

\* A block and everything below it.
Ancestors[b \in Block] == IF b = Genesis THEN {b} ELSE {b} \cup Ancestors[Parent[b]]
Height(b) == Cardinality(Ancestors[b]) - 1
ChainWork[b \in Block] == Proof[b] + (IF b = Genesis THEN 0 ELSE ChainWork[Parent[b]])

\* The part of b's chain that is not in the chain of t.
Above(t, b) == Ancestors[b] \ Ancestors[t]
FindFork(t, b) == CHOOSE f \in Ancestors[t] \cap Ancestors[b] :
                    \A g \in Ancestors[t] \cap Ancestors[b] : g \in Ancestors[f]

Failed == invalid \cup child

\* CBlockIndexWorkComparator with the sequence numbers s.
Worse(s, a, b) ==
  \/ ChainWork[a] < ChainWork[b]
  \/ ChainWork[a] = ChainWork[b] /\ (s[a] > s[b] \/ (s[a] = s[b] /\ addr[a] > addr[b]))

Best(S) == CHOOSE b \in S : \A c \in S \ {b} : Worse(seq, c, b)

-----------------------------------------------------------------------------
Init ==
  /\ index = {Genesis} /\ data = {Genesis} /\ linked = {Genesis}
  /\ invalid = {} /\ child = {} /\ unsaved = {}
  /\ seq = [b \in Block |-> 0] /\ addr \in Addresses
  /\ candidates = {Genesis} /\ unlinked = {} /\ tip = Genesis
  /\ phase = "idle" /\ mostWork = Null /\ starting = Genesis /\ owed = FALSE
  /\ calls = 0 /\ restarts = 0

\* Nobody holds cs_main.
Unlocked == phase \in {"idle", "released"}

-----------------------------------------------------------------------------
(* Blocks arrive. *)

\* GetPrevIndex, and AcceptBlockHeader on a header that is already known.
HeaderAcceptable(b) ==
  /\ Unlocked /\ b \notin data
  /\ Parent[b] \in index \ Failed /\ b \notin Failed

\* The checks AcceptBlock makes of a proof of stake block that is not on the tip.  The
\* side branch is read from the top down to where the last input of b was created; how
\* far that is, is left open.
ForkAcceptable(b) ==
  LET side == Above(tip, Parent[b]) IN
  \/ b \notin ProofOfStake \/ Parent[b] = tip
  \/ /\ side # {} => Parent[b] \in data
     /\ Cardinality(side) < MaxReorg
     /\ Height(tip) - Height(FindFork(tip, Parent[b])) <= MaxReorg

\* AcceptBlock returns an error between AcceptBlockHeader and ReceivedBlockTransactions:
\* the header stays in the index.
AcceptHeaderOnly(b) ==
  /\ HeaderAcceptable(b) /\ b \notin BadContext /\ b \in ProofOfStake
  /\ index' = index \cup {b}
  /\ UNCHANGED <<data, linked, seq, addr, flags, candidates, unlinked, tip, abc, owed, calls, restarts>>

AcceptBadContext(b) ==
  /\ HeaderAcceptable(b) /\ b \in BadContext
  /\ index' = index \cup {b} /\ invalid' = invalid \cup {b} /\ unsaved' = unsaved \ {b}
  /\ UNCHANGED <<data, linked, seq, addr, child, candidates, unlinked, tip, abc, owed, calls, restarts>>

\* The blocks that become linked when b's transactions arrive.
NowLinked(b) == {b} \cup {x \in unlinked : b \in Ancestors[x] /\ (Above(b, x) \subseteq unlinked)}

\* The queue of ReceivedBlockTransactions goes level by level and numbers the blocks; the
\* order within a level depends on the order of insertion into mapBlocksUnlinked and is
\* left open.
LinkOrders(b) ==
  {q \in [NowLinked(b) -> 1..Cardinality(NowLinked(b))] :
     \A x, y \in NowLinked(b) : /\ Height(x) < Height(y) => q[x] < q[y]
                                /\ x # y => q[x] # q[y]}

NextSeq == 1 + CHOOSE n \in {seq[b] : b \in Block} : \A b \in Block : seq[b] <= n

LinkSequence(q) == [x \in Block |-> IF x \in DOMAIN q THEN NextSeq + q[x] - 1 ELSE seq[x]]

\* Variant: the descendants that were waiting for b are not looked at.
ReceivedAlone(b) ==
  /\ data' = data \cup {b}
  /\ IF Parent[b] \in linked
     THEN /\ linked' = linked \cup {b} /\ seq' = LinkSequence([x \in {b} |-> 1])
          /\ candidates' = candidates \cup {x \in {b} : ~Worse(seq', x, tip)}
          /\ UNCHANGED unlinked
     ELSE unlinked' = unlinked \cup {b} /\ UNCHANGED <<linked, seq, candidates>>

ReceivedBlockTransactions(b) ==
  /\ data' = data \cup {b}
  /\ IF Parent[b] \in linked
     THEN /\ linked' = linked \cup NowLinked(b)
          /\ \E q \in LinkOrders(b) : seq' = LinkSequence(q)
          /\ candidates' = candidates \cup {x \in NowLinked(b) : ~Worse(seq', x, tip)}
          /\ unlinked' = unlinked \ NowLinked(b)
     ELSE unlinked' = unlinked \cup {b} /\ UNCHANGED <<linked, seq, candidates>>

\* ProcessNewBlock up to its call of ActivateBestChain.
AcceptBlock(b) ==
  /\ HeaderAcceptable(b) /\ b \notin BadContext /\ ForkAcceptable(b)
  /\ index' = index \cup {b}
  /\ ReceivedBlockTransactions(b)
  /\ owed' = TRUE
  /\ UNCHANGED <<addr, flags, tip, abc, calls, restarts>>

-----------------------------------------------------------------------------
(* ActivateBestChain. *)

\* Variant: only the candidate itself is looked at.
UnusableItself(c) == c \in Failed

\* A candidate whose path to the active chain holds a failed block.  (No block file is
\* ever deleted, so a candidate's path never lacks data.)
Unusable(c) == Above(tip, c) \cap Failed # {}

\* The blocks from c down to the highest failed one, which is included.
DownToFailed(c) == {x \in Above(tip, c) : Above(x, c) \cap Failed = {}}

\* What FindMostWorkChain does: drop the unusable candidates that sort above the best
\* usable one and mark what lies above a failed block.
FoundMostWork == LET usable == {c \in candidates : ~Unusable(c)}
                 IN IF usable = {} THEN Null ELSE Best(usable)
Dropped == {c \in candidates : Unusable(c) /\ (FoundMostWork # Null => Worse(seq, FoundMostWork, c))}
DroppedPaths == UNION {DownToFailed(c) : c \in Dropped}
MarkedChild == DroppedPaths \ Failed

\* The blocks that ActivateBestChainStep connects on its way to m: in ascending order up
\* to the first that fails or, sooner, the first that has more work than the old tip.
Connected(m) ==
  {x \in Above(tip, m) :
     /\ Above(tip, x) \cap BadConnect = {}
     /\ \A y \in Above(tip, x) \ {x} : ChainWork[y] <= ChainWork[tip]}

\* Variant: the failure of ConnectTip is not recorded.
FoundInvalidIgnored(m) == {}

\* The block that ConnectTip then finds invalid, if any.
FoundInvalid(m) ==
  IF \E x \in Connected(m) : ChainWork[x] > ChainWork[tip] THEN {}
  ELSE {x \in Above(tip, m) \cap BadConnect : Above(tip, x) \ {x} = Connected(m)}

\* Variants: nothing is pruned; the tip itself is pruned; ties with the tip are pruned.
PruneNothing(S, t) == S
PruneTip(S, t) == {c \in S : Worse(seq, t, c)}
PruneTies(S, t) == {c \in S : c = t \/ ChainWork[c] > ChainWork[t]}

\* PruneBlockIndexCandidates for the tip t, on the set S.
Prune(S, t) == {c \in S : ~Worse(seq, c, t)}

\* One call of ActivateBestChainStep towards m, with candidates S left and the blocks of
\* mark just marked.
ActivateBestChainStep(m, S, mark) ==
  LET connected == Connected(m)
      bad == FoundInvalid(m)
      new == IF connected = {} THEN FindFork(tip, m)
             ELSE CHOOSE x \in connected : connected \subseteq Ancestors[x]
      kept == IF connected = {} THEN S ELSE Prune(S, new)
  IN /\ tip' = new
     /\ invalid' = invalid \cup bad /\ unsaved' = (unsaved \cup mark) \ bad
     /\ candidates' = kept \ bad
     /\ mostWork' = IF bad = {} THEN m ELSE Null
     /\ phase' = IF connected # {} /\ kept = {} THEN "aborted"
                 ELSE IF Worse(seq, new, starting') THEN "held"
                 ELSE IF mostWork' = new THEN "idle" ELSE "released"

\* One turn of the inner loop: FindMostWorkChain unless a target is left over, then a step.
Activate ==
  /\ phase \in {"released", "held"}
  /\ starting' = IF phase = "released" THEN tip ELSE starting
  /\ LET found == mostWork = Null
         m     == IF found THEN FoundMostWork ELSE mostWork
         S     == IF found THEN candidates \ DroppedPaths ELSE candidates
         mark  == IF found THEN MarkedChild ELSE {}
     IN /\ child' = child \cup mark
        /\ IF m \in {Null, tip}
           THEN /\ phase' = IF phase = "held" /\ m = Null THEN "released" ELSE "idle"
                /\ mostWork' = m /\ candidates' = S
                /\ unsaved' = unsaved \cup mark
                /\ UNCHANGED <<tip, invalid>>
           ELSE ActivateBestChainStep(m, S, mark)
  /\ UNCHANGED <<tree, unlinked, owed, calls, restarts>>

\* A thread gets m_cs_chainstate.
BeginActivate ==
  /\ phase = "idle" /\ owed
  /\ owed' = FALSE /\ phase' = "released" /\ mostWork' = Null
  /\ UNCHANGED <<tree, flags, candidates, unlinked, tip, starting, calls, restarts>>

-----------------------------------------------------------------------------
(* The RPC calls invalidateblock and reconsiderblock. *)

Call ==
  /\ phase = "idle" \/ (phase = "released" /\ RpcDuringActivation)
  /\ calls < MaxCalls /\ calls' = calls + 1 /\ owed' = TRUE

\* Variant: blocks that the new tip does not beat are not made candidates again.
InvalidateBlockOnly(b) ==
  LET walk == IF b \in Ancestors[tip] THEN {x \in Ancestors[tip] : b \in Ancestors[x]} ELSE {}
  IN /\ Call /\ b \in index \ {Genesis}
     /\ invalid' = invalid \cup {b} /\ child' = child \cup walk
     /\ unsaved' = unsaved \ (walk \cup {b})
     /\ tip' = IF walk = {} THEN tip ELSE Parent[b]
     /\ candidates' = candidates \ (walk \cup {b})
     /\ UNCHANGED <<tree, unlinked, abc, restarts>>

InvalidateBlock(b) ==
  LET walk == IF b \in Ancestors[tip] THEN {x \in Ancestors[tip] : b \in Ancestors[x]} ELSE {}
  IN /\ Call /\ b \in index \ {Genesis}
     /\ invalid' = invalid \cup {b} /\ child' = child \cup walk
     /\ unsaved' = unsaved \ (walk \cup {b})
     /\ tip' = IF walk = {} THEN tip ELSE Parent[b]
     /\ candidates' = (candidates \ (walk \cup {b})) \cup
          {x \in (data \cap linked) \ (invalid' \cup child') : ~Worse(seq, x, tip')}
     /\ UNCHANGED <<tree, unlinked, abc, restarts>>

\* Variant: the descendants of b keep their flags.
ReconsiderBlockAlone(b) ==
  /\ Call /\ b \in index \cap Reconsiderable
  /\ invalid' = invalid \ Ancestors[b] /\ child' = child \ Ancestors[b] /\ unsaved' = unsaved \ Ancestors[b]
  /\ candidates' = candidates \cup {x \in {b} \cap Failed \cap data \cap linked : Worse(seq, tip, x)}
  /\ UNCHANGED <<tree, unlinked, tip, abc, restarts>>

\* The flags of b, its descendants and its ancestors are cleared, but only b and its
\* descendants can become candidates again.
ReconsiderBlock(b) ==
  LET up == {x \in Failed : b \in Ancestors[x]}
      cleared == up \cup Ancestors[b]
  IN /\ Call /\ b \in index \cap Reconsiderable
     /\ invalid' = invalid \ cleared /\ child' = child \ cleared /\ unsaved' = unsaved \ cleared
     /\ candidates' = candidates \cup {x \in up \cap data \cap linked : Worse(seq, tip, x)}
     /\ UNCHANGED <<tree, unlinked, tip, abc, restarts>>

-----------------------------------------------------------------------------
(* Shutdown with a complete flush, then LoadBlockIndexDB, LoadChainTip and   *)
(* the ActivateBestChain of the import thread.  A BLOCK_FAILED_CHILD flag    *)
(* whose entry was not dirty is written only if something else made the      *)
(* entry dirty.                                                              *)
Restart ==
  /\ Unlocked /\ restarts < MaxRestarts /\ restarts' = restarts + 1
  /\ addr' \in Addresses /\ seq' = [b \in Block |-> 0]
  /\ \E lost \in SUBSET unsaved : child' = child \ lost
  /\ unsaved' = {}
  /\ linked' = {b \in data : Ancestors[b] \subseteq data}
  /\ unlinked' = data \ linked'
  /\ LET loaded == linked' \ (invalid \cup child')
     IN candidates' = {c \in loaded : ChainWork[c] > ChainWork[tip]
                          \/ (ChainWork[c] = ChainWork[tip] /\ addr'[c] <= addr'[tip])}
  /\ phase' = IF candidates' = {} THEN "aborted" ELSE "idle"
  /\ mostWork' = Null /\ starting' = tip /\ owed' = TRUE
  /\ UNCHANGED <<index, data, invalid, tip, calls>>

-----------------------------------------------------------------------------
Next ==
  \/ \E b \in Block \ {Genesis} :
       AcceptHeaderOnly(b) \/ AcceptBadContext(b) \/ AcceptBlock(b)
  \/ BeginActivate \/ Activate
  \/ \E b \in Block : InvalidateBlock(b) \/ ReconsiderBlock(b)
  \/ Restart

Spec == Init /\ [][Next]_vars

\* A thread that called ActivateBestChain gets its locks and runs to the end.
FairSpec == Spec /\ WF_vars(BeginActivate) /\ WF_vars(Activate)

-----------------------------------------------------------------------------
(* Properties. *)

\* CheckBlockIndex: whenever cs_main is free, a block is in setBlockIndexCandidates if it
\* sorts at least as good as the tip, has all its data and no invalid ancestor, and it is
\* not in the set if it sorts worse or lacks data.
CandidatesMatchTree ==
  Unlocked => \A x \in index :
    IF ~Worse(seq, x, tip) /\ Ancestors[x] \subseteq data
    THEN Ancestors[x] \cap invalid = {} => x \in candidates
    ELSE x \notin candidates

\* CheckBlockIndex: nChainTx is set exactly for the blocks whose whole chain has data, and
\* mapBlocksUnlinked holds exactly the other blocks that have data.
LinksMatchTree ==
  /\ linked = {x \in index : Ancestors[x] \subseteq data}
  /\ unlinked = data \ linked

\* CheckBlockIndex: a failure flag is only set on a block that has an ancestor (or is one)
\* marked BLOCK_FAILED_VALID.
FailureHasCause == Unlocked => \A x \in Failed : Ancestors[x] \cap invalid # {}

\* FindMostWorkChain and InvalidateBlock rely on it: no block of the active chain is marked
\* as failed.
ActiveChainValid == Ancestors[tip] \cap Failed = {}

\* The assertion at the end of PruneBlockIndexCandidates, in ActivateBestChainStep and in
\* LoadChainTip: some candidate is left.
PruneLeavesCandidate == phase # "aborted"

\* When no ActivateBestChain is running or due, no chain whose blocks are all present, valid
\* and not marked as failed has more work than the active one.
TipIsBest ==
  phase = "idle" /\ ~owed =>
    \A x \in linked : Ancestors[x] \cap (Failed \cup BadConnect) = {} => ChainWork[x] <= ChainWork[tip]

\* "We absolutely may not unlock cs_main until we've made forward progress": an iteration
\* that went through a worse tip gives cs_main back on a tip that is no worse than the one
\* it started from, also when the reorganisation hit an invalid block.
ForwardProgress ==
  [][phase = "held" /\ phase' # "held" => ~Worse(seq, tip', starting)]_vars

\* Every call of ActivateBestChain ends: when blocks and calls stop coming, so do the
\* activation steps, whatever invalid blocks were met.
ActivationEnds == <>[](phase = "idle" /\ ~owed)
=============================================================================
