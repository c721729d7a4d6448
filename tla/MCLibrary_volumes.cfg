\* A directory nested in a top-level one: volumes, links, permissions.
SPECIFICATION FairSpec
CONSTANTS
  x = x
  y = y
  root = root
  a = a
  n = n
  Paths = {x, y}
  Contents = {c1, c2}
  Dirs <- NestDirs
  Root = root
  DirOf <- NestDirOf
  TopOf <- NestTopOf
  Rank <- NestRank
  NoFile = NoFile
  MaxEvents = 4
INVARIANTS VolumeLossPrunesNothing
PROPERTIES ShelfIsIndexed AbsentIsPruned
