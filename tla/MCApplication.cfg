SPECIFICATION MCSpec
CONSTANTS
  ConnIds = {0, 1}
  Values = {"NOTIFY"}
  Levels = {}
  MaxConnects = 1
  MaxWrites = 0
  MaxCommands = 0
  Leds = 2
  Bits = 2
  Colours = {1, 6}
  Memories = {2, 7, 12}
  Hz = 100
  Word = 1000000
  Times = {0, 5, 10, 255}
  OnTime = 250
  OffTime = 750
INVARIANTS
  SubscriptionInForce
  LevelIsServed
PROPERTIES
  BleServicesStart
  BleFoundAgain
  LedStripCorrect
  PilotObeysCommands
CHECK_DEADLOCK FALSE
