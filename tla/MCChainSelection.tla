-------------------------- MODULE MCChainSelection --------------------------
(* Two branches above the genesis block: a1-a2 and b1-b2-b3, where b3 does   *)
(* not connect, and c2 on a1.                                                *)
EXTENDS ChainSelection

CONSTANTS a1, a2, b1, b2, b3, c2

MCParent == [b \in Block \ {Genesis} |->
  CASE b \in {a1, b1} -> Genesis [] b \in {a2, c2} -> a1 [] b = b2 -> b1 [] b = b3 -> b2]
MCProof == [b \in Block |-> 1]

\* Index entries in the order in which the blocks are listed, and in the opposite order.
Listed == <<Genesis, a1, b1, c2, a2, b2, b3>>
Position(b) == CHOOSE i \in DOMAIN Listed : Listed[i] = b
MCAddresses == {[b \in Block |-> Position(b)], [b \in Block |-> 10 - Position(b)]}
=============================================================================
