SPECIFICATION Spec
CONSTANTS
  None = None
  zA = zA  zB = zB  zC = zC  d1 = d1  d2 = d2  d3 = d3
  g1 = g1  g2 = g2  g3 = g3  c1 = c1  c2 = c2  ev = ev
  Zones = {zA, zB, zC}
  Dongles = {d1, d2}
  Groups = {g1, g2}
  Members <- MCNone
  PoolSize = 2
  Callers = {c1}
  Events = ev
  Ops = {"play", "stop", "register", "offline", "outputs"}
  MaxInFlight = 1
  Restarts = TRUE
SYMMETRY MCSymmetry
CONSTRAINT Disjoint
INVARIANTS
  StreamIffDesired
  Converged
