------------------------------ MODULE MCMempool ------------------------------
(***************************************************************************)
(* Three branches from the genesis block.  par is confirmed by a1 and d1,  *)
(* rival takes its coin in b1; kid spends par and grand spends both, so    *)
(* that a package is a diamond that comes back partly from a block; side   *)
(* spends par too, minted the coinbase of a1, shield and twin reveal the   *)
(* same nullifier, and late is locked.                                     *)
(***************************************************************************)
EXTENDS Mempool

CONSTANTS base, cb, par, kid, grand, rival, minted, shield, twin, side, late, a1, a2, b1, b2, d1, n1, rootG, rootA

TxDef == {base, cb, par, kid, grand, rival, minted, shield, twin, side, late}
OnTx(f) == [t \in TxDef |-> IF t \in DOMAIN f THEN f[t] ELSE f[base]]

VinDef == OnTx(base :> <<>> @@ par :> <<<<base, 0>>>> @@ kid :> <<<<par, 0>>>>
               @@ grand :> <<<<kid, 0>>, <<par, 1>>>> @@ rival :> <<<<base, 0>>>> @@ minted :> <<<<cb, 0>>, <<base, 1>>>>
               @@ side :> <<<<par, 2>>>> @@ late :> <<<<base, 2>>>>)
VoutDef == OnTx(base :> 3 @@ cb :> 1 @@ par :> 3 @@ kid :> 1 @@ grand :> 1 @@ rival :> 1 @@ minted :> 1 @@ shield :> 0 @@ twin :> 0 @@ side :> 1 @@ late :> 1)
RevealsDef == OnTx(base :> <<>> @@ shield :> <<n1>> @@ twin :> <<n1>>)
SpendAnchorDef == OnTx(base :> rootG @@ shield :> rootA)
SizeDef == OnTx(base :> 2 @@ kid :> 3)
FeeDef == OnTx(base :> 3 @@ par :> 9 @@ rival :> 9 @@ grand :> 5 @@ late :> 1)
PoorFeeDef == OnTx(base :> 3 @@ par :> 1 @@ side :> 5)
DeltasDef == {-2, 3}
LockTimeDef == OnTx(base :> 0 @@ twin :> 1 @@ late :> 1)

PathDef == Genesis :> <<Genesis>> @@ a1 :> <<Genesis, a1>> @@ a2 :> <<Genesis, a1, a2>>
           @@ b1 :> <<Genesis, b1>> @@ b2 :> <<Genesis, b1, b2>> @@ d1 :> <<Genesis, d1>>
VtxDef == Genesis :> <<base>> @@ a1 :> <<cb, par>> @@ a2 :> <<kid>> @@ b1 :> <<rival>> @@ b2 :> <<twin>>
          @@ d1 :> <<par, kid>>
TreeRootDef == Genesis :> rootG @@ a1 :> rootA @@ a2 :> rootA @@ b1 :> rootG @@ b2 :> rootG @@ d1 :> rootG
=============================================================================
