SPECIFICATION FairSpec
CONSTANTS
  MaxTransactions = 2
  DataSize = 2
  MaxOps = 3
INVARIANTS TypeOK AppliedInOrder PayloadsIntact
PROPERTY EventuallyApplied
