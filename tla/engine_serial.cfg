SPECIFICATION Spec
CONSTANTS
  None = None
  Local = Local
  hub = hub  d1 = d1  d2 = d2
  c1 = c1  c2 = c2  p1 = p1  p2 = p2
  Zones = {hub, d1}
  Dongles = {d1}
  DefaultZone = hub
  Clients = {c1}
  Pipelines = {p1}
  PoolSize = 2
  Ops = {"play", "stop", "register", "offline", "delete", "reroute", "rename", "outputs"}
  AirPlay = TRUE
  MaxInFlight = 1
SYMMETRY MCSymmetry
INVARIANTS
  EveryDecoderIsADriver
  RoutedIsDriver
  HomeWhenIdle
  SourcesFollowZones
  NoLeakedStream
  OneStreamPerZone
