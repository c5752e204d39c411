SPECIFICATION FairSpec
CONSTANTS
  a = a
  ab = ab
  c = c
  t1 = t1 t2 = t2
  Threads = {t1, t2}
  Names <- OneName
  PrefixOf <- MCSamePrefix
  Statuses = {"ADDED", "DELETED", "MODIFIED"}
  MAX_FILES = 1
  MaxRequests <- TwoAndThree
INVARIANTS
  OvershootBounded
  PublishesItsOwn
PROPERTIES
  TablesMoveForward
  HandlersReturn
\* the messages are used up, or the mutex is wedged, or the process is dead
CHECK_DEADLOCK FALSE
