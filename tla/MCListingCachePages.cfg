CONSTANTS
  Requests = {r1, r2}
  Pages = {1, 2}
  Limit = 1
  FirstBatch = 1
  Initial = 0
  MaxStamp = 1
  MaxRows = 2
  MaxMishaps = 1
  Changes = {"AddServer"}
  Mishaps = {"overlap", "expiry"}
  None = None
SPECIFICATION Spec
SYMMETRY Symmetry
INVARIANTS
  AnswersCurrent
  CachedPagesListed
  OutdatedPagesExcused
