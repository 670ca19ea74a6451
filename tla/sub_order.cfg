SPECIFICATION Spec
CONSTANTS
  Paths = {p1}
  Sids = {0}
  Unset = Unset
  NoPath = NoPath
  NoRecord = NoRecord
  Torn = Torn
  QosLevels = {0}
  QueueSize = 4
  SendWindow = 2
  CountMax = 9
  CumulativeAcks = TRUE
  MayOverflow = FALSE
  MaxValue = 5
  MaxMsgs = 4
  MaxContents = 4
INVARIANTS InOrder
