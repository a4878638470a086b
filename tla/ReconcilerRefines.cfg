CONSTANTS
  root = root
  a = a
  b = b
  RootKeys <- MCRootKeys
  Keys <- MCKeys
  MaxGroups = 5
  MaxDepth = 3
  MaxDrain = 2
  MaxIds = 4
  MaxQueued = 1
SPECIFICATION Spec
SYMMETRY MCSymmetry
CONSTRAINT FewQueued
PROPERTY ImplementsCompositionTree
CHECK_DEADLOCK FALSE
