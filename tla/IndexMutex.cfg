CONSTANTS
  Procs = {p1, p2, p3}
  Names = {n1, n2}
  NoProc = NoProc
  NoLock = NoLock
  GlobalLock = GlobalLock
SPECIFICATION FairSpec
INVARIANT RunningExact
PROPERTIES ImplementsRepoLock NobodyStarves
