SPECIFICATION FairSpec
CONSTANTS
  a1 = a1  a2 = a2  t1 = t1  t2 = t2
  Conns = {a1}
  Threads = {t1, t2}
  AppOps = {"play", "stop", "create_zone", "delete_zone", "rename_zone", "set_zone_outputs", "reroute"}
  ThreadOps = {"session_began", "session_ended", "track_update", "art_update", "register_dongle", "dongle_offline"}
  Capacity = 1
  MaxCalls = 2
INVARIANTS
  UpToDate
PROPERTIES
  CatchesUp
CHECK_DEADLOCK FALSE
