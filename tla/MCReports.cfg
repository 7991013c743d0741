CONSTANTS
  Requests = {r1, r2}
  Servers = {1, 2}
  Pages = {2}
  Limit = 1
  Names = {n1, n2}
  MaxVersion = 3
  Growing = {1}
  MaxLinks = 0
  Mishaps = {"overlap", "sameName", "young", "deleted", "isError", "exit"}
  None = None
  MaxMishaps = 1
SPECIFICATION Spec
SYMMETRY Symmetry
INVARIANTS
  LinksResolve
  OwnFile
  RowsTruthful
  PanicExcused
