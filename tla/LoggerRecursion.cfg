SPECIFICATION MCSpec
CONSTANTS
  Tasks = {t1, t2}
  Texts <- MCShortTexts
  LineEnds <- MCLineEnds
  QueueSize = 1
  MaxCalls = 2
  NoBuf = NoBuf
INVARIANTS
  NotLostInRecursion
CHECK_DEADLOCK FALSE
