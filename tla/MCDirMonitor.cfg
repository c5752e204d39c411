SPECIFICATION FairSpec
CONSTANTS
  a = a
  b = b
  h = h
  m1 = m1
  m2 = m2
  Names = {a, b, h}
  Hidden = {h}
  Modifies = {m1, m2}
  BufferLen = 2
  QueueLen = 2
  MaxChanges = 4
INVARIANTS
  TypeOK
  AnnouncedInOrder
  FlagComesBack
PROPERTIES
  EveryChangeAnnounced
\* the directory may be gone, its watch never made, or users may be done
CHECK_DEADLOCK FALSE
