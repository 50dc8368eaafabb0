CONSTANTS
  r = r  a = a  b = b  c = c
  outside = outside
  Dirs = {r, a, b, c}
  Root = r  None = None  Outside = outside
  Parent <- MCParent
  Configs <- MCConfigs
  Filter = TRUE
  Starts = {{r}, {r, a}}
  MaxEdits = 3
  MaxFaults = 1
  MaxQueue = 2
SPECIFICATION WatchSpec
INVARIANT QuietIsFresh
PROPERTY WatchSettles
CHECK_DEADLOCK FALSE
