CONSTANTS
  SIZE = 4
  UINT8 = 16
  BYTES = 40
  START = 9
  BUFFER_LEN_UART = 30
  MAX_IN_PAK = 29
  DATA = {0, 1}
  NOISE = {0, 9, 15}
  PACKETS = 3
  UPSETS = 1
SPECIFICATION SpecAll
INVARIANTS OnlySent HealthyLine
PROPERTY ImplementsFifo
CHECK_DEADLOCK FALSE
