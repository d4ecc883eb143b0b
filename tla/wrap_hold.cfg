SPECIFICATION TSpec
CONSTANTS
  ReplyTimeout = 2
  LinkTimeout = 4
  ClockMod = 16
  Horizon = 16
  MaxLoop = 1
  MaxLatency = 3
  PollList <- OnePoll
  NControllers = 0
  SlotsPerController = 1
  Rooms = {"r1"}
  Present <- NoController
  Statuses = {"ok"}
  Lossy = TRUE
  MaxHaWrites = 0
  Cap = 15
INVARIANTS HoldBounded

