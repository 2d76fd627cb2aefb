\* The limits 5, 3 and 6 of the program are 3, 2 and 4 here.
CONSTANTS
  BLOCKS = {1, 2, 3}
  SerN <- MCSerN
  MAX_COUNT_PING_LOST = 3
  ORDER_AFTER = 2
  TAKE_AFTER = 4
  FAULTS = {0, 1, 2}
  EVENTS = 2
SPECIFICATION Spec
INVARIANTS Agreement OneDrives NotAbandoned
