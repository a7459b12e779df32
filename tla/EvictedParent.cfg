SPECIFICATION MempoolSpec
CONSTANTS
  base = base cb = cb par = par kid = kid grand = grand rival = rival minted = minted
  shield = shield twin = twin side = side late = late
  a1 = a1 a2 = a2 b1 = b1 b2 = b2 d1 = d1 Genesis = Genesis
  n1 = n1 rootG = rootG rootA = rootA
  Tx <- TxDef CoinBase = {cb}
  Vin <- VinDef Vout <- VoutDef Reveals <- RevealsDef SpendAnchor <- SpendAnchorDef
  Size <- SizeDef Fee <- PoorFeeDef LockTime <- LockTimeDef LowFee = {rival}
  Block = {Genesis, a1, a2, b1, b2, d1}
  Path <- PathDef Vtx <- VtxDef TreeRoot <- TreeRootDef
  CoinbaseMaturity = 2
  LimitAncestors = 2 LimitAncestorSize = 5 LimitDescendants = 3 LimitDescendantSize = 7
  MaxMempool = 12
  MaxDisconnected = 2
  Deltas <- DeltasDef MaxPrioritise = 1
  MaxExpired = 1
INVARIANT PoolIsMinable
CHECK_DEADLOCK FALSE
