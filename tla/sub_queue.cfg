SPECIFICATION FairSpec
CONSTANTS
  Paths = {p1}
  Sids = {0, 1}
  Unset = Unset
  NoPath = NoPath
  NoRecord = NoRecord
  Torn = Torn
  QosLevels = {0, 2}
  QueueSize = 3
  SendWindow = 2
  CountMax = 9
  CumulativeAcks = FALSE
  MayOverflow = FALSE
  MaxValue = 5
  MaxMsgs = 4
  MaxContents = 4
INVARIANTS QueueShape InOrder NothingLost
PROPERTIES QueueDrains
