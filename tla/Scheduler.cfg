CONSTANTS
  Procs = {p1, p2, p3, p4}
  Capacity = 2
  BatchDiv = 4
SPECIFICATION FairSpec
INVARIANT TokensExact
PROPERTIES BatchForGood WaitEnds
