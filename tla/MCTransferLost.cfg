SPECIFICATION FairSpec
CONSTANTS
  NULL = NULL
  d1 = d1
  d2 = d2
  n = n
  Downloads = {d1, d2}
  Names = {n}
  Mortal = {}
  MaxFD = 2
  MaxLen = 1
  MaxRewrites = 0
PROPERTIES
  EveryRequestServed
\* the downloads may be over, or their server dead
CHECK_DEADLOCK FALSE
