SPECIFICATION FairSpec
CONSTANTS
  NoName = NoName
  p1 = p1
  p2 = p2
  a = a
  ab = ab
  Peers = {p1, p2}
  PrefixOf <- MCPrefixOf
  Names = {a}
  Found <- NothingFound
  MAX_FILES = 1
  Deeds = {}
  MaxDeeds = 0
  MaxStarts <- Unbounded
  Prompt = TRUE
PROPERTIES
  KeepsBeating
