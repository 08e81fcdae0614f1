SPECIFICATION Spec
CONSTANTS
  pcap = pcap
  json = json
  Keys <- JsonKeys
  Rotated <- JsonKeys
  MaxFiles = 2
  Setups <- AnyExporter
  MayCrash = TRUE
  MaxRuns = 1
  MaxFaulty = 1
  MaxAttempts = 2
  Gzip = FALSE
CHECK_DEADLOCK FALSE
INVARIANTS TypeOK FlushReadsFinished AtMostOneMissing FuseDeletesStored
