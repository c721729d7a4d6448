\* Two handlers, two ends of the process, one failed write, read or panic.
SPECIFICATION Spec
CONSTANTS
  Requests = {q1, q2}
  Addresses = {kindle}
  MaxSends = 2
  MaxBooks = 2
  MaxFaults = 1
  MaxStops = 2
INVARIANTS OnePending UnsentWasNotSent
PROPERTIES KeepsPromise
SYMMETRY Symmetry
