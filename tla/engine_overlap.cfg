SPECIFICATION FairSpec
CONSTANTS
  None = None
  Local = Local
  hub = hub  d1 = d1  d2 = d2
  c1 = c1  c2 = c2  p1 = p1  p2 = p2
  Zones = {hub, d1}
  Dongles = {}
  DefaultZone = hub
  Clients = {c1, c2}
  Pipelines = {p1}
  PoolSize = 1
  Ops = {"create","delete","play","stop"}
  AirPlay = TRUE
  MaxInFlight = 2
INVARIANTS
  TypeOK
  ShutdownIsJoined

  
