SPECIFICATION TSpec
CONSTANTS
  ReplyTimeout = 1
  LinkTimeout = 3
  ClockMod = 64
  Horizon = 20
  MaxLoop = 1
  MaxLatency = 1
  PollList <- TwoPolls
  NControllers = 0
  SlotsPerController = 1
  Rooms = {"r1"}
  Present <- NoController
  Statuses = {"ok"}
  Lossy = TRUE
  MaxHaWrites = 1
  Cap = 9
INVARIANTS ConnectedIsRecent HoldBounded WritePrompt PollsStayFresh
PROPERTIES LinkEdgesHonest
