SPECIFICATION Spec
CONSTANTS
  Paths = {p1, p2}
  Sids = {0, 1}
  Unset = Unset
  NoPath = NoPath
  NoRecord = NoRecord
  Torn = Torn
  QosLevels = {0, 2}
  QueueSize = 2
  SendWindow = 2
  CountMax = 9
  CumulativeAcks = TRUE
  MayOverflow = TRUE
  MaxValue = 3
  MaxMsgs = 3
  MaxContents = 4
INVARIANTS SidTable AckAccounting
PROPERTIES Addressed
SYMMETRY PathSymmetry
