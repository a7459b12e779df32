SPECIFICATION CachesSpec
CONSTANTS
  o1 = o1 o2 = o2 c1 = c1 c2 = c2 c3 = c3 h1 = h1 h2 = h2
  Outpoint = {o1, o2}
  Coin = {c1, c2, c3} Unspendable = {c3} InvalidOut = {o2}
  Hash = {h1, h2}
  DynamicUsage <- UsageDef
  Null = Null NotFound = NotFound NoEntry = NoEntry
  Leaf = {a, b} Nullifier = {n1}
  NoRecord = NoRecord NullRoot = NullRoot
  MaxLeaves = 2 MaxBlocks = 3
  base = base cb = cb par = par kid = kid grand = grand rival = rival minted = minted
  shield = shield twin = twin side = side late = late
  a1 = a1 a2 = a2 b1 = b1 b2 = b2 d1 = d1 Genesis = Genesis
  n1 = n1 rootG = rootG rootA = rootA
  Tx <- TxDef CoinBase = {cb}
  Vin <- VinDef Vout <- VoutDef Reveals <- RevealsDef SpendAnchor <- SpendAnchorDef
  Size <- SizeDef Fee <- FeeDef LockTime <- LockTimeDef LowFee = {rival}
  Block = {Genesis, a1, a2, b1, b2, d1}
  Path <- PathDef Vtx <- VtxDef TreeRoot <- TreeRootDef
  CoinbaseMaturity = 2
  LimitAncestors = 2 LimitAncestorSize = 5 LimitDescendants = 3 LimitDescendantSize = 7
  MaxMempool = 20
  MaxDisconnected = 2
  Deltas <- DeltasDef MaxPrioritise = 1
  MaxExpired = 1
INVARIANTS
  FlagsMeanWhatTheySay NeverThrows UsageIsSum
  TipShowsChain DbShowsFlushedChain AssertionsHold NoDoubleSpend
  LinksMatchInputs TotalsMatchPackages PoolIsMinable
PROPERTY Refinement
