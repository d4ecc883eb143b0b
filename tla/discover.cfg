CONSTANTS
  Houses <- FewHouses
  MaxPresses = 3
  MaxLosses = 2
SPECIFICATION Spec
INVARIANTS PasteSound PasteComplete
PROPERTIES DumpEnds
CHECK_DEADLOCK FALSE
