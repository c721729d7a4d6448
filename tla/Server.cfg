\* Two runs of the process; what works may never end.
SPECIFICATION ServerFairSpec
CONSTANTS
  TopDirs = {}
  Requests = {r1}
  MaxRuns = 2
INVARIANTS ClosedUnderNobody RecoveredBeforeClaim
PROPERTIES EveryStopEnds
CHECK_DEADLOCK FALSE
