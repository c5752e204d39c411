SPECIFICATION FairSpec
CONSTANTS
  a = a
  m1 = m1
  Names = {a}
  Hidden = {}
  Modifies = {m1}
  BufferLen = 2
  QueueLen = 3
  MaxChanges = 4
PROPERTIES
  EveryRewriteReported
\* the directory may be gone, its watch never made, or users may be done
CHECK_DEADLOCK FALSE
