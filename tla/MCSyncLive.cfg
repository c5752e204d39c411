SPECIFICATION FairSpec
CONSTANTS
  NoName = NoName
  p1 = p1
  p2 = p2
  a = a
  ab = ab
  Peers = {p1, p2}
  PrefixOf <- MCPrefixOf
  Names = {a}
  Found <- FoundAtOne
  MAX_FILES = 3
  Deeds = {"create"}
  MaxDeeds = 1
  MaxStarts <- Unbounded
  Prompt = TRUE
PROPERTIES
  EveryFileAnnounced
  Converges
