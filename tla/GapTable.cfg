SPECIFICATION CarefulSpec
CONSTANTS
  GroupCapacity = 4
  SlotCapacity = 2
  MaxDepth = 3
  Keys = {7}
  Values = {1, 2}
  MaxNodes = 1
INVARIANTS TableTypeOK ReaderNested NoneSkipped
PROPERTY ImplementsSlotForest
