SPECIFICATION NSpec
CONSTANTS
  ReplyTimeout = 1
  LinkTimeout = 3
  ClockMod = 64
  Horizon = 14
  MaxLoop = 1
  MaxLatency = 1
  PollList <- OneItem
  NControllers = 0
  SlotsPerController = 1
  Rooms = {"r1"}
  Present <- NoController
  Statuses = {"ok"}
  Lossy = FALSE
  MaxHaWrites = 0
  MaxNeed = 2
  MaxCuts = 1
INVARIANTS ReplyMatched
