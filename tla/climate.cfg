SPECIFICATION FairSpec
CONSTANTS
  Home = Home
  Away = Away
  Sleep = Sleep
  None = None
  NaN = NaN
  NanRaw = 0
  Lower = 500
  Upper = 3500
  HeatTemps = {2000, 2200}
  Bounds <- OneBound
  SavedAtBoot = {2000}
  Polled = FALSE
  Calls <- AllCalls
  OnlyInformed = TRUE
  MaxLosses = 1
  MaxCalls = 2
  MaxEdits = 1
  MaxReboots = 1
INVARIANTS TypeOK PublishedInStep ModeMatchesTarget AwaySleepNeverParked SavedIsChosen WritesInRange LastCallWins
PROPERTIES Converges
