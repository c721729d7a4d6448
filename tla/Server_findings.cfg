\* A second run without sending; a tick of the janitor after the signal.
\* Run with -continue to see both.
SPECIFICATION ServerSpec
CONSTANTS
  TopDirs = {}
  Requests = {r1}
  MaxRuns = 2
INVARIANTS FailedAtStartup
PROPERTIES StopSparesConfirm
CHECK_DEADLOCK FALSE
