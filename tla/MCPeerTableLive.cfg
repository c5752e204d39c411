SPECIFICATION FairSpec
CONSTANTS
  NULL = NULL
  c1 = c1 c2 = c2
  a1 = a1
  Conns = {c1, c2}
  Addrs = {a1}
  MAX_PEER_SLOTS = 1
  MaxFD = 1
  Messages = {"KEEP_ALIVE", "PEER_CLOSE"}
  Quiet = {c1}
INVARIANTS
  TypeOK
  RefusedBeyondSlots
PROPERTIES
  SilentPeerReclaimed
\* the process may have died, or every connection is over
CHECK_DEADLOCK FALSE
