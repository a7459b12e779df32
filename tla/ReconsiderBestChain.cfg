SPECIFICATION Spec
CONSTANTS
  Genesis = Genesis  a1 = a1  a2 = a2  b1 = b1  b2 = b2  b3 = b3  c2 = c2
  Null = Null
  Block = {Genesis, a1, a2, b1, b2}
  Parent <- MCParent
  Proof <- MCProof
  Addresses <- MCAddresses
  ProofOfStake = {b1, b2}
  BadContext = {}
  BadConnect = {b2}
  Reconsiderable = {a1, a2, b1, b2}
  RpcDuringActivation = FALSE
  MaxReorg = 2
  MaxCalls = 2
  MaxRestarts = 0
INVARIANT TipIsBest
CHECK_DEADLOCK FALSE
