SPECIFICATION Spec
CONSTANTS
  None = None
  Repos = {"a", "b"}
  RepoOf <- MCRepoOf
  RunOf <- MCRunOf
  Starts <- MCStarts
  Limit = 2
  MaxFilterPages = 2
  MaxRows = 8
  MaxQueued = 2
  MaxChanges = 3
  MaxMoves = 1
  Installations = {1, 2}
  Workers = {w1, w2}
  PageSize = 2
  MaxPagesPerRepo = 3
  MaxTotalRows = 5
  MaxExportRows = 2
  Requests <- MCRequests
INVARIANTS
  ExactIsWhole
  OlderBelongs
  ReportIsWhole
CHECK_DEADLOCK FALSE
