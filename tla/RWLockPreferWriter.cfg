SPECIFICATION Spec
CONSTANTS
  Threads = {t1, t2, t3, t4}
  Nobody = Nobody
INVARIANTS
  LockInv
PROPERTIES
  NoReaderOvertakes
  WritersAreServed
  ImplementsRWLock
