CONSTANTS
  WRITABLE = {"speed"}
  READONLY = {"name"}
  SMALL = 2
  LARGE = 3
  EXPEDITED = 2
  SEGMENT = 2
  PIECE = 1
  SDO_MAX_NODE_ID = 2
  SDO_MAX_DOMAIN_LEN = 3
  TRANSFERS = 2
  UPSETS = 2
CHECK_DEADLOCK FALSE
SPECIFICATION SdoFairSpec
INVARIANTS DictionaryWhole DownloadStored LineLeft
PROPERTIES UploadIntact Completes
