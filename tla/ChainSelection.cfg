SPECIFICATION Spec
CONSTANTS
  Genesis = Genesis  a1 = a1  a2 = a2  b1 = b1  b2 = b2  b3 = b3  c2 = c2
  Null = Null
  Block = {Genesis, a1, a2, b1, b2, b3}
  Parent <- MCParent
  Proof <- MCProof
  Addresses <- MCAddresses
  ProofOfStake = {b1, b3}
  BadContext = {}
  BadConnect = {b3}
  Reconsiderable = {a1, b1}
  RpcDuringActivation = FALSE
  MaxReorg = 2
  MaxCalls = 2
  MaxRestarts = 1
INVARIANTS
  CandidatesMatchTree LinksMatchTree FailureHasCause
  ActiveChainValid PruneLeavesCandidate TipIsBest
PROPERTIES ForwardProgress
CHECK_DEADLOCK FALSE
