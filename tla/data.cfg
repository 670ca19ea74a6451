SPECIFICATION Spec
CONSTANTS
  Root = Root
  Data = Data
  a = a
  ab = ab
  v = v
  g = g
  Paths = {a, ab}
  Remote = {v}
  Parent <- Tree
  OwnId = OwnId
  Admin = Admin
  Default = Default
  Groups = {g}
  Lists <- SomeLists
  NoList = NoList
  Damaged = Damaged
  Absent = Absent
  NoGroup = NoGroup
  Down = Down
  MaxOps = 4
INVARIANTS ValuesOnDisk RestartRestores SubsAttached GrantsReachDown SessionGroups
