CONSTANTS
  Servers = {s1}
  NoServer = NoServer
  Calls = {c1, c2}
  Sweepers = {w1}
  Failures = {"exit", "esError"}
  MaxClock = 3
SPECIFICATION Spec
SYMMETRY Symmetry
INVARIANTS
  TypeOK
  StoredHasHistory
  InvalidMarkedOnce
  HistoriesChronological
