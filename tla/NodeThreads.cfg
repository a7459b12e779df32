SPECIFICATION ThreadsSpec
CONSTANTS
  Service = {s1, s2}
  Client = {c1, c2}
  Main = main
  MaxCallbacks = 2
  MaxSpurious = 1
  Worker = {w1, w2}
  Master = master
  Check = {k1, k2, k3, k4}
  Bad = {k1}
  nBatchSize = 2
INVARIANTS
  CallbackNotForgotten
  SyncLeavesNothingPending
  VerdictRight
  IdleBetweenBlocks
PROPERTIES
  CallbacksSerial
  CallbacksExecuted
  WaitReturns
CHECK_DEADLOCK FALSE
