CONSTANTS
  Repos = {r1, r2}
  ZeroRepo = ZeroRepo
  Versions = {v1, v2}
  NoVersion = NoVersion
  Mixed = Mixed
  Workers = {w1, w2}
  NoItem = NoItem
  NotRemoving = NotRemoving
  BackoffDuration = 1
  MaxBackoff = 0
SPECIFICATION MCSpec
INVARIANT HeapSound
INVARIANT IndexedIsCurrent
PROPERTIES StaleServed
