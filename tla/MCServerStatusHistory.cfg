CONSTANTS
  Servers = {s1}
  NoServer = NoServer
  Calls = {c1, c2}
  Sweepers = {}
  Failures = {"exit", "esError"}
  MaxClock = 4
SPECIFICATION HistorySpec
SYMMETRY Symmetry
INVARIANTS
  NoOrphanHistory
  SuccessRecorded
PROPERTY
  DocumentsRefine
