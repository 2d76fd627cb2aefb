CONSTANTS
  MAX_RESTARTS = 3
  RESETS = 9
SPECIFICATION FairSpec
INVARIANTS TriesBounded GivenUpStaysOff
PROPERTY Settles
CHECK_DEADLOCK FALSE
