\* The first board to drive comes to see its current drop or exceed.
CONSTANTS
  BLOCKS = {1, 2, 3}
  SerN <- MCSerN
  MAX_COUNT_PING_LOST = 2
  ORDER_AFTER = 2
  TAKE_AFTER = 3
  FAULTS = {0, 1, 2}
  EVENTS = 1
SPECIFICATION Spec
INVARIANT ExactlyOneDrives
CHECK_DEADLOCK FALSE
