SPECIFICATION MCSpec
CONSTANTS
  Threads = {t1, t2}
  Sizes = {1, 9}
  Counts = {2}
  Alignments = {1, 8, 12}
  CreateMemory = {10}
  ExtraMemory = {9}
  Bases = {32}
  MaxPieces = 3
  Nodes = {n1, n2, n3, n4}
  RingNodes = {n1, n2, n3}
  List = L
  Box = B
  NULL = NULL
SYMMETRY Symmetry
INVARIANTS
  CPool
  CppPool
  ZcqLosesNothing
PROPERTIES
  SListImplementsLists
  DListImplementsLists
CHECK_DEADLOCK FALSE
