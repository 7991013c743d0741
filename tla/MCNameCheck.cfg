CONSTANTS
  Clients = {c1, c2}
  Servers = {s1, s2}
  Names = {n1, n2}
  Mishaps = {"overlap", "outdated", "rename", "race", "redisError", "storeError", "exit"}
  None = None
  MaxMishaps = 2
SPECIFICATION FairSpec
INVARIANTS
  TakenTrue
  NamesUnique
PROPERTIES
  Settles
