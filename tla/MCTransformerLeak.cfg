SPECIFICATION Spec
CONSTANTS
  NumPackets = 2
  NumWriters = 1
  Configs <- Pools
  InCap = 1
  PoolSize = 2
  QueueCap = 1
CHECK_DEADLOCK FALSE
INVARIANT CommitmentsSettled
