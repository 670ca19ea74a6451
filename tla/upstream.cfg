SPECIFICATION FairSpec
CONSTANTS
  Names = {u, v}
  None = None
  MaxInterval = 2
  MaxFaults = 4
INVARIANTS OneHandle ConfigFollowed
PROPERTIES ComesUp
