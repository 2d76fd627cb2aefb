CONSTANTS
  MAX_STACK_MSG_TX = 4
  MSGS = 6
  LAST_BOX = 2
  SETUPS = 1
  NoMsg = NoMsg
SPECIFICATION FairSpec
INVARIANT NoStall
PROPERTIES ImplementsFifo AcceptedIsSent
CHECK_DEADLOCK FALSE
