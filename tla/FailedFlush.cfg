SPECIFICATION Spec
CONSTANTS
  Base = Base
  a1 = a1
  a2 = a2
  b1 = b1
  b2 = b2
  Block = {Base, a1, a2, b1, b2}
  c0 = c0
  d0 = d0
  t = t
  u = u
  v = v
  Outpoint = {c0, d0, t, u, v}
  Parent <- MCParent
  Spends <- MCSpends
  Creates <- MCCreates
  BaseCoins = {c0, d0}
  NoCoin = NoCoin
  Clean = Clean
  Null = Null
  MaxCrashes = 0
  MaxFailures = 1
INVARIANTS
  BestBlockMeansConsistent
