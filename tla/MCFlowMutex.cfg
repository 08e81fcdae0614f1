SPECIFICATION Spec
CONSTANTS
  p1 = p1
  p2 = p2
  p3 = p3
  s1 = s1
  s2 = s2
  t1 = t1
  t2 = t2
  None = None
  NoHeader = NoHeader
  H1Stream = s1
  Packets <- ThreePackets
  Streams <- TwoStreams
  Traces <- TwoTraces
  Refs <- SmallRefs
  Messages <- AnyOrder
SYMMETRY PacketSymmetry
CHECK_DEADLOCK FALSE
INVARIANTS ProcessSurvives TypeOK WaitCoversActive ActiveHasUnblocker
 
