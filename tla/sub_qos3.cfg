SPECIFICATION Spec
CONSTANTS
  Paths = {p1, p2}
  Sids = {0}
  Unset = Unset
  NoPath = NoPath
  NoRecord = NoRecord
  Torn = Torn
  QosLevels = {2, 3}
  QueueSize = 2
  SendWindow = 2
  CountMax = 9
  CumulativeAcks = FALSE
  MayOverflow = TRUE
  MaxValue = 2
  MaxMsgs = 1
  MaxContents = 4
INVARIANTS StoreMirrors
PROPERTIES KeptUntilSent
SYMMETRY PathSymmetry
VIEW WithoutHistory
