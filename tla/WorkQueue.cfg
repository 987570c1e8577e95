SPECIFICATION Spec
CONSTANTS
  Clients = {c1, c2}
  Worker = Worker
  Nobody = Nobody
  MaxItems = 4
  DestroyWaits = TRUE
INVARIANTS
  QueueInv
  NoLostWakeup
  RunsInOrder
  NothingLeftBehind
  NoUseAfterDelete
PROPERTIES
  AcceptedIsRun
  DestroyCompletes
CHECK_DEADLOCK FALSE
