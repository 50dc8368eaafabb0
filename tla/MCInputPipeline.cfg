CONSTANTS
  Workers = {w1, w2}
  N = 5
  Walks <- MCWalks
  SizeMax = 2
  Bytes = 5
SPECIFICATION FairSpec
INVARIANT CommitsAll
INVARIANT BufferBounded
PROPERTIES Returns
CHECK_DEADLOCK FALSE
