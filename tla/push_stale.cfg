SPECIFICATION FairSpec
CONSTANTS
  a1 = a1  a2 = a2  t1 = t1  t2 = t2
  Conns = {a1}
  Threads = {t1}
  AppOps = {"play"}
  ThreadOps = {"session_began", "session_ended"}
  Capacity = 2
  MaxCalls = 2
INVARIANT SourcesShown
CHECK_DEADLOCK FALSE
