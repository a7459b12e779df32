SPECIFICATION MasternodesSpec
CONSTANTS
  Null = Null
  p1 = p1 p2 = p2 p3 = p3 p4 = p4 c1 = c1 c2 = c2 c3 = c3 a1 = a1 a2 = a2 a3 = a3
  k1 = k1 k2 = k2 k3 = k3 k4 = k4 k5 = k5 k6 = k6
  Tx <- TxDef
  HashOrder <- HashOrderDef
  Collateral = {c1, c2, c3}
  MinConf = 1
  Activation = 3
  DISK_SNAPSHOT_PERIOD = 3 DISK_SNAPSHOTS = 1
  MaxHeight = 7 MaxBlockTxs = 2 MaxTxs = 5
  b1 = b1 b2 = b2 d2 = d2
  Block = {b1, b2, d2} Root = Root None = None Wrong = Wrong
  Path <- PathDef
  Changed = {b1, d2}
  MaxQueue = 1 MaxFlushed = 2 MaxChanges = 4
  e1 = e1 e2 = e2 v1 = v1 v2 = v2
  Key = {e1, e2} Value = {v1, v2} NoValue = NoValue
  KeySize <- KeySizeDef ValueSize <- ValueSizeDef
INVARIANTS
  ListsAvailable StoredListReproduces UniquePropertiesExact ListFailsOnlyOnRevoked
  WritesAndDeletesDisjoint MemoryUsageIsSum
PROPERTIES PaymentQueueFair Refinement
CHECK_DEADLOCK FALSE
