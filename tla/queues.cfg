SPECIFICATION SpecQueues
CONSTANTS
  Values = {a, b, c}
  Size = 4
  None = None
  Garbage = Garbage
  Threads = {t1, t2}
  Loop = Loop
  Idle = Idle
  MaxTasks = 4
INVARIANTS TasksKept
PROPERTIES IsBoundedQueue
