---------------------------- MODULE MCChainstate ----------------------------
(* Two branches of two blocks above the base.  Output t is created by the    *)
(* same transaction in a1 and, one block higher, in b2; a1 and b1 spend the  *)
(* same output of the base block.                                            *)
EXTENDS Chainstate, TLC

CONSTANTS a1, a2, b1, b2, c0, d0, t, u, v

MCParent  == (a1 :> Base) @@ (a2 :> a1) @@ (b1 :> Base) @@ (b2 :> b1)
MCSpends  == (a1 :> {c0}) @@ (a2 :> {t}) @@ (b1 :> {d0}) @@ (b2 :> {c0, v})
MCCreates == (a1 :> {t}) @@ (a2 :> {u}) @@ (b1 :> {v}) @@ (b2 :> {t})
=============================================================================
