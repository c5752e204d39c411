SPECIFICATION TornSpec
CONSTANTS
  NoName = NoName
  p1 = p1
  p2 = p2
  a = a
  ab = ab
  Peers = {p1, p2}
  PrefixOf <- MCPrefixOf
  Names = {a, ab}
  Found <- FoundAtSecond
  MAX_FILES = 2
  Deeds = {"create", "write", "delete", "stop"}
  MaxDeeds = 1
  MaxStarts <- TwoAndOne
  Prompt = FALSE
  Torn = {p2}
INVARIANTS
  TypeOK
  
  
  NothingFromNowhere
  
  
\* the peers may have been started as often as they are
CHECK_DEADLOCK FALSE
