\* One handler at a time; no symmetry, for liveness.
SPECIFICATION FairSpec
CONSTANTS
  Requests = {q1}
  Addresses = {kindle}
  MaxSends = 2
  MaxBooks = 2
  MaxFaults = 1
  MaxStops = 2
PROPERTIES EverySendSettles
