SPECIFICATION FairSpec
CONSTANTS
  NumPackets = 2
  NumWriters = 1
  Configs <- InOrder
  InCap = 1
  PoolSize = 2
  QueueCap = 1
CHECK_DEADLOCK FALSE
PROPERTY WaitDoneReturns
