CONSTANTS
  Sessions <- MCSessions
  Listeners <- MCListeners
  Tasks <- MCTasks
  HomeOf <- MCHomeOf
  ScopesOf <- MCScopesOf
  Root <- MCRoot
  None <- MCNone
  MaxQueue = 2
  MaxListeners = 2
  MaxConsumers = 2
  MaxKeys = 6
  MaxDrain = 2
  MaxEvents = 3
SPECIFICATION Spec
INVARIANTS TypeOK HandedOnce BroadcastsInOrder OneOutcome WakeupPending
PROPERTIES RetiredOnceHeard EventuallyHanded
CHECK_DEADLOCK FALSE
