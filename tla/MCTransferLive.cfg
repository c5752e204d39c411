SPECIFICATION FairSpec
CONSTANTS
  NULL = NULL
  d1 = d1
  d2 = d2
  n = n
  Downloads = {d1, d2}
  Names = {n}
  Mortal = {d1}
  MaxFD = 2
  MaxLen = 2
  MaxRewrites = 1
INVARIANTS
  TypeOK
  WholeFile
PROPERTIES
  DownloadsEnd
\* the downloads may be over, or their server dead
CHECK_DEADLOCK FALSE
