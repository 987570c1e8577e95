SPECIFICATION Spec
CONSTANTS
  ConnIds = {0}
  Values = {"NOTIFY"}
  Levels = {100}
  MaxConnects = 1
  MaxWrites = 0
  MaxCommands = 0
INVARIANTS
  NotAdvertisedWhileConnected
CHECK_DEADLOCK FALSE
