CONSTANTS
  SIZE = 4
  UINT8 = 2
  BYTES = 10
  LENGTHS = {1, 3, 6}
SPECIFICATION FairSpec
INVARIANTS NoStall LineInOrder
PROPERTIES RegisterKept SendReturns AllSent
CHECK_DEADLOCK FALSE
