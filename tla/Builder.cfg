CONSTANTS
  Parallelisms = {1, 2}
  Callers = {"watch", "git", "archive"}
  Sizes = {1, 2}
  ShardMax = 1
  MaxDocs = 3
  MaxOld = 1
  MaxRuns = 2
  MaxFails = 1
  MaxCrashes = 1
SPECIFICATION FairSpec
INVARIANT UntouchedUnlessWhole
INVARIANT FinishExact
PROPERTIES Returns
CHECK_DEADLOCK FALSE
