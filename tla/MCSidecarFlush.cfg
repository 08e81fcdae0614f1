SPECIFICATION Spec
CONSTANTS
  pcap = pcap
  json = json
  Keys <- JsonKeys
  Rotated <- JsonKeys
  MaxFiles = 2
  Setups <- Library
  MayCrash = FALSE
  MaxRuns = 1
  MaxFaulty = 0
  MaxAttempts = 2
  Gzip = FALSE
CHECK_DEADLOCK FALSE
INVARIANT FlushedAtExit
