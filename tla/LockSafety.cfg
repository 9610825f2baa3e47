SPECIFICATION LockSpec
CONSTANTS
  t1 = t1
  t2 = t2
  t3 = t3
  p1 = p1
  p2 = p2
  Threads = {t1, t2, t3}
  Procs = {p1, p2}
  process <- TheProcess
  NoThread = nobody
  Timeouts <- All
  MaxDepth = 2
  MaxDeaths = 1
  MaxRemovals = 1
INVARIANTS MutualExclusion NothingLeaked
PROPERTY EveryCallEnds
CHECK_DEADLOCK FALSE
