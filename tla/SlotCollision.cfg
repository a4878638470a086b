CONSTANTS
  Keys <- MCKeys
  Calls = 2
  Sizes <- MCSizes
  BufferSizes <- MCBufferSizes
  ArenaSize = 6
  MaxSlots = 4
  MaxHooks = 4
  MaxIds = 2
  MaxReloads = 0
SPECIFICATION Spec
INVARIANT ArenaEndsApart
CHECK_DEADLOCK FALSE
