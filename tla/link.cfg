SPECIFICATION FairSpec
CONSTANTS
  None = None
  k1 = k1  k2 = k2  k3 = k3  k4 = k4
  Conns = {k1, k2, k3}
  MaxFaults = 2
INVARIANTS
  OnlineIsWatched
PROPERTIES
  Recovers
  Reaped
CHECK_DEADLOCK FALSE
