SPECIFICATION Spec
CONSTANTS
  Partition = {p1, p2}
  MaxLog = 2
  MaxBoots = 2
  MaxTrouble = 1
  MaxGarbled = 1
INVARIANTS LostAtStops AgainOnlyAfterFailure
PROPERTIES Implements
CHECK_DEADLOCK FALSE
