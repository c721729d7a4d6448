\* Two findings: a stat refresh landing on a row the importer has just given
\* another book, and a file published during the sweep that would prune its
\* row.  TLC stops at the first it meets; without that line it finds the other.
SPECIFICATION Spec
CONSTANTS
  x = x
  y = y
  root = root
  a = a
  n = n
  Paths = {x, y}
  Contents = {c1, c2}
  Dirs <- MixedDirs
  Root = root
  DirOf <- MixedDirOf
  TopOf <- MixedTopOf
  Rank <- MixedRank
  NoFile = NoFile
  MaxEvents = 5
SYMMETRY Symmetry
INVARIANT CheapCheckSoundInRoot
PROPERTY PruneListConfirmedAbsent
