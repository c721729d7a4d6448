\* One name in the root, where IndexFile runs too, and one in a directory.
SPECIFICATION Spec
CONSTANTS
  x = x
  y = y
  root = root
  a = a
  n = n
  Paths = {x, y}
  Contents = {c1, c2}
  Dirs <- MixedDirs
  Root = root
  DirOf <- MixedDirOf
  TopOf <- MixedTopOf
  Rank <- MixedRank
  NoFile = NoFile
  MaxEvents = 4
INVARIANTS CheapCheckSound PruneListOverdue
PROPERTIES KeepsCatalog RewriteKeepsEdits
SYMMETRY Symmetry
