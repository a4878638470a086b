SPECIFICATION FairSpec
CONSTANTS
  x = x
  y = y
  Apps <- MCApps
  Windows = TRUE
  MaxActive = 1
  MaxBuilds = 3
  MaxInstances = 2
  MaxForced = 2
  MaxProcesses = 2
INVARIANTS TypeOK BodiesLoaded ShadowsOwned
PROPERTY NewestRuns
