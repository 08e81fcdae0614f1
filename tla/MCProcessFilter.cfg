SPECIFICATION FairSpec
CONSTANTS
  gcsfuse = gcsfuse
  gcsdir = gcsdir
  c1 = c1
  slot1 = slot1
  slot2 = slot2
  Procs <- TwoProcs
  Conns <- OneConn
  Malformed <- None
  MaxPid = 2
  Slots <- TwoSlots
CHECK_DEADLOCK FALSE
INVARIANTS TypeOK DeniedIsTracked
PROPERTIES EstablishedIsDenied ClosedIsAllowedAgain
