CONSTANTS
  Configs <- AllConfigs
  Watched <- TwoHouses
  Readings <- ReadingValues
  FaultSets <- OneFault
  Settings = {700}
  MaxItems = 4
  MaxChanges = 2
  MaxEdits = 1
  MaxTroubles = 1
  Cuts = {4, 10}
SPECIFICATION Spec
INVARIANTS EveryEntityFed ReadOnce AlarmExplained HistoryInStep
PROPERTIES Settles
CHECK_DEADLOCK FALSE
