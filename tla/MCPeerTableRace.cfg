SPECIFICATION Spec
CONSTANTS
  NULL = NULL
  c1 = c1 c2 = c2
  a1 = a1 a2 = a2
  Conns = {c1, c2}
  Addrs = {a1, a2}
  MAX_PEER_SLOTS = 2
  MaxFD = 2
  Messages = {}
  Quiet = {}
SYMMETRY Symmetry
INVARIANTS
  RegistrationKept
\* the process may have died, or every connection is over
CHECK_DEADLOCK FALSE
