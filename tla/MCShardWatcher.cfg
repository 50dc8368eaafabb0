CONSTANTS
  Files <- MCFiles
  Name <- MCName
  Version <- MCVersion
  MaxVersion = 17
  InitialShards = {"r16", "q16"}
  InitialMeta = {"q16"}
  Searchers = {p1}
  MaxChanges = 2
  MaxFails = 1
SPECIFICATION FairSpec
INVARIANT Synced
INVARIANT ServedSound
PROPERTY ReadyMeansAll
PROPERTY Follows
CHECK_DEADLOCK FALSE
