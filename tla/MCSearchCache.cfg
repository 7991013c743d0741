CONSTANTS
  Patterns <- TwoPatterns
  Total = Total
  Fields = {Name, Ip}
  Pages = {1}
  Limit = 2
  Records <- Nested
  FirstBatch = 1
  Servers = {1, 2}
  MaxVersion = 2
  MaxRows = 3
  Mishaps = {"historyless", "unrefreshed", "expiry", "redisError", "storeError", "exit"}
  MaxMishaps = 1
  None = None
  Web = Web
  Name = Name
  Ip = Ip
SPECIFICATION Spec
CHECK_DEADLOCK FALSE
INVARIANTS
  TypeOK
  RowsMatch
  AnswersAField
  StatusesOwn
