SPECIFICATION Spec
CONSTANTS
  ReplyTimeout = 2
  LinkTimeout = 4
  ClockMod = 32
  Horizon = 10
  MaxLoop = 1
  MaxLatency = 3
  PollList <- OneRoom
  NControllers = 1
  SlotsPerController = 1
  Rooms = {"r1"}
  Present <- OneController
  Statuses = {"ok", "rejected"}
  Lossy = TRUE
  MaxHaWrites = 1
INVARIANTS TypeOK LockstepInv ReplyMatched InventorySound ResetsDoNotPile
PROPERTIES ImplementsBus
