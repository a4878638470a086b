SPECIFICATION FairSpec
CONSTANTS
  t = t
  u = u
  Names <- MCTwo
  MaxWaiters = 1
  MaxTime = 2
INVARIANTS TypeOK EndsOnce
PROPERTY SleeperWakes
