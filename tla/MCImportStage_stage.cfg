\* Two uploads, two clicks, two names; room for both uploads at the cap.
SPECIFICATION Spec
CONSTANTS
  i1 = i1
  i2 = i2
  i3 = i3
  i4 = i4
  k1 = k1
  k2 = k2
  c1 = c1
  c2 = c2
  Ids = {i1, i2}
  Clicks = {k1, k2}
  Contents = {c1, c2}
  NoFile = NoFile
  Free = Free
  Left = Left
  MaxName = 2
  MaxSize = 2
  Factor = 2
  Sizes = {2}
  Extras = {1}
  MaxEvents = 2
SYMMETRY Symmetry
INVARIANTS BudgetIsExact NothingLeaks OneCopy
PROPERTIES NothingReplaced
CHECK_DEADLOCK FALSE
