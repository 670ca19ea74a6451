SPECIFICATION Spec
CONSTANTS
  Reqs = {r1, r2}
  Paths = {p1, p2}
  NoSub = NoSub
  NoStream = NoStream
  NoSid = NoSid
  NoValue = NoValue
  Qos = {0, 2}
  MaxSid = 3
  MaxCount = 2
  MaxQueue = 1
INVARIANTS InOnePlace ResponderInStep RightPath QuietIsCurrent
PROPERTIES NeverBack
SYMMETRY ReqSymmetry
