SPECIFICATION CarefulSessionsSpec
CONSTANTS
  main = main
  s1 = s1
  s2 = s2
  m1 = m1
  m2 = m2
  s3 = s3
  audio = audio
  video = video
  Null = Null
  Handles <- MCHandles
  Main = main
  Ids = {"one"}
  Names = {"tool"}
  Keys <- MCKeys
  Modules <- MCModules
  MaxSessions = 2
  MaxSecondary = 1
  MaxModules = 2
SYMMETRY MCSymmetry
INVARIANTS SessionsTypeOK SessionsLive ReleasedOnce
CHECK_DEADLOCK FALSE
