SPECIFICATION MCSpec
CONSTANTS
  Tasks = {t1, t2}
  Texts <- MCTexts
  LineEnds <- MCLineEnds
  QueueSize = 2
  MaxCalls = 5
  NoBuf = NoBuf
INVARIANTS
  LoggerInv
  ConsoleInFormatOrder
  BoundedMemory
PROPERTIES
  ImplementsChannel
  HolderReturns
  PostedIsPrintedAndFreed
CHECK_DEADLOCK FALSE
