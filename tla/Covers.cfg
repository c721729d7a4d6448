\* The sweep and one IndexFile; two losses, two faults, one end of the process.
SPECIFICATION FairSpec
CONSTANTS
  Scanners = {sweep, index}
  MaxLosses = 2
  MaxFaults = 2
  MaxStops = 1
INVARIANTS CoverRowWhole ProviderRowIsProviders
PROPERTIES FreshCoverKept CoverSettles
CHECK_DEADLOCK FALSE
