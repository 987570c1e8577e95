SPECIFICATION MCSpec
CONSTANTS
  Threads = {t1, t2, t3}
  CVs = {c1}
  Nobody = Nobody
  MaxListed = 3
  TimedWaits = FALSE
  TimedThreads = {u1, u2}
  Producers = {p1, p2}
  Consumers = {k1, k2}
  NotEmpty = NotEmpty
  NotFull = NotFull
  MaxSize = 1
INVARIANTS
  CondVarInv
PROPERTIES
  SignalledThreadsReturn
  TimedWaitsReturn
  DemoKeepsGoing
CHECK_DEADLOCK FALSE
