SPECIFICATION NSpec
CONSTANTS
  ReplyTimeout = 1
  LinkTimeout = 3
  ClockMod = 64
  Horizon = 20
  MaxLoop = 1
  MaxLatency = 1
  PollList <- TwoItems
  NControllers = 0
  SlotsPerController = 1
  Rooms = {"r1"}
  Present <- NoController
  Statuses = {"ok"}
  Lossy = FALSE
  MaxHaWrites = 0
  MaxNeed = 3
  MaxCuts = 2
INVARIANTS MispairBounded
