\* Two books, one handler, two presses; one field a person may edit.
SPECIFICATION MCSpec
CONSTANTS
  b1 = b1
  b2 = b2
  q1 = q1
  title = title
  cover = cover
  Books = {b1, b2}
  Fields = {title, cover}
  Cover = cover
  Requests = {q1}
  Providers = 1
  MaxPresses = 2
  MaxFaults = 1
  MaxStops = 1
  MaxEdits = 1
INVARIANTS OneQueued CutRunHasNoVerdict
PROPERTIES KeepsPromise VerdictOnOwnJob FillsOnlyEmpty EveryJobEnds
