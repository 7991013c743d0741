CONSTANTS
  Requests = {r1, r2}
  Pages = {1}
  Limit = 1
  FirstBatch = 1
  Initial = 0
  MaxStamp = 2
  MaxRows = 2
  MaxMishaps = 1
  Changes = {"AddServer", "UpdateServer", "DeleteServer", "Connect", "ChangePassword"}
  Mishaps = {"overlap", "hurry", "unrefreshed", "exit", "redisError", "storeError"}
  None = None
SPECIFICATION Spec
SYMMETRY Symmetry
INVARIANTS
  TypeOK
  WholePages
  OutdatedPagesExcused
