SPECIFICATION FairSpec
CONSTANTS
  ReplyTimeout = 3
  LinkTimeout = 4
  ClockMod = 8
  Horizon = 8
  MaxLoop = 1
  MaxLatency = 1
  PollList <- OneRoom
  NControllers = 2
  SlotsPerController = 2
  Rooms = {"r1"}
  Present <- TwoRails
  Statuses = {"ok"}
  Lossy = FALSE
  MaxHaWrites = 1
INVARIANTS InventoryComplete
PROPERTIES DiscoveryEnds SelfHeals WritesDrain
