SPECIFICATION FairSpec
CONSTANTS
  NumPackets = 3
  NumWriters = 2
  Configs <- Both
  InCap = 1
  PoolSize = 2
  QueueCap = 1
CHECK_DEADLOCK FALSE
INVARIANTS TypeOK Accounted QuietWhenDone
PROPERTIES LogsPackets CommittedIsWritten
