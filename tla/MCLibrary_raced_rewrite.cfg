\* A rewrite in place losing the race to create its book.
SPECIFICATION Spec
CONSTANTS
  x = x
  y = y
  root = root
  a = a
  n = n
  Paths = {x, y}
  Contents = {c1, c2}
  Dirs <- MixedDirs
  Root = root
  DirOf <- MixedDirOf
  TopOf <- MixedTopOf
  Rank <- MixedRank
  NoFile = NoFile
  MaxEvents = 4
SYMMETRY Symmetry
PROPERTY RacedRewriteKeepsEdits
