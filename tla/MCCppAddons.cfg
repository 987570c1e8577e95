SPECIFICATION MCSpec
CONSTANTS
  Tasklets = {k1, k2}
  Schedulers = {t1, t2}
  Isr = Isr
  Timer = Timer
  NoTasklet = NoTasklet
  TimerQueueLength = 1
  RunSchedules = FALSE
  Clients = {c1, c2}
  Worker = Worker
  Items = {i1, i2, i3, i4}
  FreeAfter = {i1, i2}
  Null = Null
  MaxWorkItems = 2
  Starters = {c1, c2, c3}
  Objects = {o1, o2}
  NoStarter = NoStarter
INVARIANTS
  TaskletsTakeTurns
  WorkRunsInOrder
  OneTaskForEachThread
PROPERTIES
  TaskletCallsReturn
  WorkDestroyCompletes
CHECK_DEADLOCK FALSE
