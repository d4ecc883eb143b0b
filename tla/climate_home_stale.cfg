SPECIFICATION Spec
CONSTANTS
  Home = Home
  Away = Away
  Sleep = Sleep
  None = None
  NaN = NaN
  NanRaw = 0
  HeatTemps = {2000}
  Bounds <- OneBound
  SavedAtBoot = {2000}
  Polled = TRUE
  Calls <- OffAndHome
  OnlyInformed = FALSE
  MaxLosses = 0
  MaxCalls = 2
  MaxEdits = 0
  MaxReboots = 0
INVARIANTS LastCallWins
