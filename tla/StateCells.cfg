CONSTANTS
  root = root
  a = a
  app = app
  Root <- root
  Composables <- MCComposables
  Stateful <- MCStateful
  Shared <- MCShared
  MaxWatchers = 2
  MaxQueue = 2
  MaxStates = 2
  MaxDrain = 2
  MaxWrites = 2
SPECIFICATION Spec
INVARIANTS TypeOK RegistryOK SubscribersPending
PROPERTY SubscribersRefreshed
CHECK_DEADLOCK FALSE
