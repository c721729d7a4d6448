SPECIFICATION FairSpec
CONSTANTS
  root = root
  sub = sub
  Dirs <- MCDirs
  Root = root
  Parent <- MCParent
  Inodes = {i1, i2, i3}
  NoInode = NoInode
  NoDir = NoDir
  MaxEvents = 1
  MaxMishaps = 2
  Settle = 1
  MaxDelay = 1
  Off = Off
INVARIANTS HeardIsPending BurstIsBounded NoLostWatch
PROPERTIES RefreshIsExact DeafIsSwept
CHECK_DEADLOCK FALSE
