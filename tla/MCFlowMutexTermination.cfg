SPECIFICATION FairSpec
CONSTANTS
  p1 = p1
  p2 = p2
  p3 = p3
  s1 = s1
  s2 = s2
  t1 = t1
  t2 = t2
  None = None
  NoHeader = NoHeader
  H1Stream = s1
  Packets <- ThreePackets
  Streams <- OneStream
  Traces <- TwoTraces
  Refs <- SmallRefs
  Messages <- ThenTermination
CHECK_DEADLOCK FALSE
PROPERTY TerminationProceeds
