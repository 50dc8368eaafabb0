CONSTANTS
  Repos = {"r1", "r2"}
  MaxVer = 3
  Shape <- Mixed
  Jobs = {"j1"}
  MaxChanges = 3
  MaxMerges = 2
  MaxFaults = 1
SPECIFICATION FairSpec
INVARIANT ServedOnce
PROPERTY CleanupSafe
PROPERTY ImplementsServedIndex
PROPERTY Settles
