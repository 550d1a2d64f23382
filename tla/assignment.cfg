SPECIFICATION FairSpec
CONSTANTS
  None = None  Torn = Torn  Hostname = Hostname
  u1 = u1  u2 = u2  u3 = u3  n1 = n1  h1 = h1  h2 = h2  h6 = h6  a1 = a1  a2 = a2
  Uuids = {u1, u2, u3}
  Names = {n1}
  Hubs = {h1, h2, h6}
  Unreadable = {h6}
  FlagHubs = {h1}
  Apps = {a1, a2}
  Faults = TRUE
  MaxStarts = 2
  MaxTries = 1
INVARIANTS
  TypeOK
  OneIdentity
  WholeFiles
  AgreedHub
PROPERTIES
  Answered
  IsCommissioned
CHECK_DEADLOCK FALSE
