SPECIFICATION Spec
CONSTANTS
  Clients = {c1, c2}
  Worker = Worker
  Nobody = Nobody
  MaxItems = 4
  DestroyWaits = FALSE
INVARIANTS
  AcceptedIsNotDropped
CHECK_DEADLOCK FALSE
