SPECIFICATION Spec
CONSTANTS
  Links = {l1, l2}
  Rids = {r1, r2}
  NoStream = NoStream
  MaxRid = 2
  MaxInv = 2
  MaxQueue = 2
  SdkLinks = {l1}
INVARIANTS TablesAgree EndsAgree OwnResponses
SYMMETRY RidSymmetry
