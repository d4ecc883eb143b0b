SPECIFICATION FairSpec
CONSTANTS
  Home = Home
  Away = Away
  Sleep = Sleep
  None = None
  NaN = NaN
  NanRaw = 0
  N = 2
  HeatTemp = 2000
  Floor = 500
  Ceiling = 3500
  SavedAtBoot = {NaN}
  AwayTemps = {2000}
  MaxChoices = 2
  MaxUpsets = 1
  MaxLosses = 1
INVARIANTS EveryRoomObeys
PROPERTIES  ShowsTheRooms
