SPECIFICATION Spec
CONSTANTS
  c1 = c1
  c2 = c2
  i1 = i1
  herbert = herbert
  other = other
  NoISBN = NoISBN
  Articles = {"the"}
  MaxSegments = 2
  MaxTitleTokens = 3
  Callers = {c1, c2}
  Last = 2
  Fields = {"isbn", "description", "cover"}
  BookSet <- MCBooks
  Client <- MCClient
  Volumes <- MCVolumes
  Every = 1
  Attempts = 2
  Backoff <- MCBackoff
  CacheSize = 1
  MaxTime = 2
  MaxRuns = 2
INVARIANTS SlotsApart FirstAnswerWins FailedMeansSilent SearchEarnsMerge
SYMMETRY Sym
CHECK_DEADLOCK FALSE
