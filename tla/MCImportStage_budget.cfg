\* Four uploads with a cover each and room for three at the cap: the budget is
\* exceeded, but only by the covers.  Run with -continue to see both.
SPECIFICATION Spec
CONSTANTS
  i1 = i1
  i2 = i2
  i3 = i3
  i4 = i4
  k1 = k1
  k2 = k2
  c1 = c1
  c2 = c2
  Ids = {i1, i2, i3, i4}
  Clicks = {k1}
  Contents = {c1}
  NoFile = NoFile
  Free = Free
  Left = Left
  MaxName = 1
  MaxSize = 10
  Factor = 3
  Sizes = {10}
  Extras = {1}
  MaxEvents = 0
INVARIANTS WithinBudget OnlyExtrasExceed
CHECK_DEADLOCK FALSE
