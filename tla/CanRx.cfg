CONSTANTS
  MAX_STACK_MSG_RX = 4
  SINGLE_BOXES = 1
  LAST_BOX = 3
  TIME_OUT_CAN = 1
  FRAMES = 4
  SINGLE_FRAMES = 1
  SETUPS = 1
  BURST = 1
  NoMsg = NoMsg
SPECIFICATION FairSpec
INVARIANTS NoTornMessage InOrder Accounted
PROPERTIES ImplementsFifo StoredIsDelivered
CHECK_DEADLOCK FALSE
