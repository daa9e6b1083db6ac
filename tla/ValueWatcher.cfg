SPECIFICATION FairSpec
CONSTANTS
  Values = {"open", "closing", "closed"}
  Initial = "open"
  Final = "closed"
  Threads = {t1, t2}
  Watchers = {w1}
  t1 = t1
  t2 = t2
  w1 = w1
  MaxSets = 4
INVARIANTS TypeOK NoLostWakeup ReturnsHeldValue
PROPERTY EveryMatchEnds
CHECK_DEADLOCK FALSE
