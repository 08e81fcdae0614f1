SPECIFICATION FairSpec
CONSTANTS
  pcap = pcap
  json = json
  Keys <- TcpdumpOnly
  Rotated <- NoWriter
  MaxFiles = 2
  Setups <- LateOrScheduled
  MayCrash = TRUE
  MaxRuns = 2
  MaxFaulty = 0
  MaxAttempts = 2
  Gzip = FALSE
CHECK_DEADLOCK FALSE
INVARIANT StartedMeansActive
PROPERTIES FsnExits TwExits
