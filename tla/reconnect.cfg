SPECIFICATION FairSpec
CONSTANTS
  Base = 1
  MaxBackoff = 30
  ResetAfter = 30
  Timeout = 15
  Attempt = 40
INVARIANT
  Proportionate
PROPERTY
  DownHubIsPaced
