CONSTANTS
  root = root
  a = a
  b = b
  RootKeys <- MCRootKeys
  Keys <- MCKeys
  MaxGroups = 4
  MaxDepth = 3
  MaxDrain = 2
  MaxIds = 5
  MaxQueued = 1
SPECIFICATION Spec
SYMMETRY MCSymmetry
CONSTRAINT FewQueued
INVARIANTS TypeOK TreeOK WalkOK SkipSound VisitedClean NoSizeMismatch
CHECK_DEADLOCK FALSE
