SPECIFICATION Spec
CONSTANTS
  Interval = 5
  Timeout = 15
  MaxDelay = 2
  MaxLaunch = 5
INVARIANTS
  NoFalseAlarm
  DropNoticed
CHECK_DEADLOCK FALSE
