SPECIFICATION Spec
CONSTANTS
  Reqs = {q1, q2}
  Remote = {p1}
  Local = {n1}
  Rids = {r1, r2}
  Names = {a}
  Attr = attr
  None = None
  MaxRid = 2
  MaxLists = 2
  MaxQueue = 2
INVARIANTS TablesAgree ResponderInStep QuietIsCurrent
SYMMETRY ReqSymmetry
