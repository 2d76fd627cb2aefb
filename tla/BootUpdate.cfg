SPECIFICATION BootFairSpec
CONSTANTS
  RECORDS = 4
  LOADER = {2, 3}
  BELOW = {1}
  RECORD = 7
  BLANK = {6}
  MAX_LEN_CMD_LINE = 12
  WAIT = 2
  UPSETS = 3
INVARIANTS
  CountInRange
  AckedIsStored
  NeverDeadBefore
PROPERTY
  Completes
CHECK_DEADLOCK FALSE
