CONSTANTS
  MaxProcs = 2
  Options <- MCOptions
SPECIFICATION FairSpec
INVARIANT LimitsKept
INVARIANT StableFinal
PROPERTY HonestToTheEnd
PROPERTY Returns
