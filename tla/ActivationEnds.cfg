SPECIFICATION FairSpec
CONSTANTS
  Genesis = Genesis  a1 = a1  a2 = a2  b1 = b1  b2 = b2  b3 = b3  c2 = c2
  Null = Null
  Block = {Genesis, a1, a2, b1, b2, c2}
  Parent <- MCParent
  Proof <- MCProof
  Addresses <- MCAddresses
  ProofOfStake = {b1, b2}
  BadContext = {c2}
  BadConnect = {b2}
  Reconsiderable = {a1, b1}
  RpcDuringActivation = FALSE
  MaxReorg = 2
  MaxCalls = 1
  MaxRestarts = 0
PROPERTY ActivationEnds
CHECK_DEADLOCK FALSE
