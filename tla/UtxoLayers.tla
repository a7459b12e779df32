----------------------------- MODULE UtxoLayers -----------------------------
(***************************************************************************)
(* What a stack of coin views promises its callers: three plain maps from  *)
(* outpoints to coins.  `base' is what the database holds, `utxo' what     *)
(* pcoinsTip shows, `work' what the view that applies a block shows.  No   *)
(* cache entry, DIRTY or FRESH flag appears here: reads, cache fills and   *)
(* evictions are invisible, a flush copies one whole map to the next.      *)
(***************************************************************************)
CONSTANTS Outpoint, Coin, NoCoin, Hash

VARIABLES base, baseBest,   \* the database and the block it stands for
          utxo, utxoBest,   \* pcoinsTip
          work, workBest,   \* the view on top of it; equal to pcoinsTip when closed
          open              \* whether such a view exists

vars == <<base, baseBest, utxo, utxoBest, work, workBest, open>>

UtxoMap == [Outpoint -> Coin \cup {NoCoin}]

Init ==
  /\ base \in UtxoMap /\ baseBest \in Hash
  /\ utxo = base /\ utxoBest = baseBest
  /\ work = base /\ workBest = baseBest
  /\ open = FALSE

\* The topmost map becomes m and its best block h.
SetTop(m, h) ==
  /\ work' = m /\ workBest' = h
  /\ IF open THEN UNCHANGED <<utxo, utxoBest>> ELSE utxo' = m /\ utxoBest' = h
  /\ UNCHANGED <<base, baseBest, open>>

Add(o, c)   == SetTop([work EXCEPT ![o] = c], workBest)
Spend(o)    == SetTop([work EXCEPT ![o] = NoCoin], workBest)
SetBest(h)  == SetTop(work, h)

OpenView    == ~open /\ open' = TRUE
               /\ UNCHANGED <<base, baseBest, utxo, utxoBest, work, workBest>>

\* Push the view's map to pcoinsTip in one step.
Commit      == /\ open /\ utxo' = work /\ utxoBest' = workBest
               /\ UNCHANGED <<base, baseBest, work, workBest, open>>

\* Forget the view and everything it did since its last commit.
Drop        == /\ open /\ open' = FALSE /\ work' = utxo /\ workBest' = utxoBest
               /\ UNCHANGED <<base, baseBest, utxo, utxoBest>>

\* Make pcoinsTip durable.
Persist     == /\ base' = utxo /\ baseBest' = utxoBest
               /\ UNCHANGED <<utxo, utxoBest, work, workBest, open>>

\* Remove a set of outpoints from pcoinsTip and make the result durable.
Prune(S)    == LET m == [o \in Outpoint |-> IF o \in S THEN NoCoin ELSE utxo[o]]
               IN /\ ~open /\ base' = m /\ utxo' = m /\ work' = m
                  /\ baseBest' = utxoBest
                  /\ UNCHANGED <<utxoBest, workBest, open>>

Next ==
  \/ \E o \in Outpoint : Spend(o) \/ \E c \in Coin : Add(o, c)
  \/ \E h \in Hash : SetBest(h)
  \/ OpenView \/ Commit \/ Drop \/ Persist
  \/ \E S \in SUBSET Outpoint : Prune(S)

Spec == Init /\ [][Next]_vars
=============================================================================
