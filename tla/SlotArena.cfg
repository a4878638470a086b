CONSTANTS
  Keys <- MCKeys
  Calls = 2
  Sizes <- MCSizes
  BufferSizes <- MCBufferSizes
  ArenaSize = 6
  MaxSlots = 4
  MaxHooks = 2
  MaxIds = 3
  MaxReloads = 1
SPECIFICATION Spec
INVARIANTS TypeOK SlotsDisjoint CallsRemembered
PROPERTY PointersPinned
CHECK_DEADLOCK FALSE
