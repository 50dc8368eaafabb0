CONSTANTS
  r1 = r1  r2 = r2  w1 = w1
  cleaner = cleaner  forcer = forcer  deleter = deleter
  NoLock = NoLock  GlobalLock = GlobalLock
  NoRepo = NoRepo  Nothing = Nothing
  Procs <- MCProcs  Names <- MCNames  Repos <- MCRepos  Workers <- MCWorkers
  Cleaner = cleaner  Forcer = forcer  Deleter = deleter
  Confs <- MCConfs  FirstConf <- MCFirst  Leftovers <- MCLeft  DeltaRepos <- MCDelta
  Budgets <- MCBudgets
SPECIFICATION SyncSpec
INVARIANTS FingerprintSound ReportTrue
PROPERTIES SyncConverges
