SPECIFICATION FairSpec
CONSTANTS
  None = None
  s1 = s1  s2 = s2
  q1 = q1  q2 = q2  q3 = q3
  Sups = {s1, s2}
  Procs = {q1, q2}
INVARIANTS
  TornDown
  OneName
PROPERTIES
  NoLateSession
  SessionEnds
  IdleTeardownReturns
CHECK_DEADLOCK FALSE
