SPECIFICATION Spec
CONSTANTS
  a = a
  ab = ab
  c = c
  t1 = t1 t2 = t2
  Threads = {t1, t2}
  Names <- TwoNames
  PrefixOf <- MCPrefixOf
  Statuses = {"ADDED", "DELETED", "MODIFIED", "MODIFIED_DONE"}
  MAX_FILES = 2
  MaxRequests <- TwoEach
SYMMETRY Symmetry
INVARIANTS
  TypeOK
  DeleteReachesAll
  Accountable
  
PROPERTIES
  TablesMoveForward
  ImplementsLog
\* the messages are used up, or the mutex is wedged, or the process is dead
CHECK_DEADLOCK FALSE
