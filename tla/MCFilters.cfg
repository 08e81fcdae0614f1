SPECIFICATION FairSpec
CONSTANTS
  Width = 2
  Families <- Both
  MaxPort = 3
  MaxRounds = 3
  Scenarios <- Scenes
  ChanCap = 1
  Panics <- MayPanic
  Sockets <- OneConn
CHECK_DEADLOCK FALSE
INVARIANTS TypeOK AllowedIsAdded DirectionFree SecondFilterAgrees ChannelOutlivesSenders
PROPERTIES AnswersOnce RunEnds
