CONSTANTS
  PAIRS = 2
  REBOOT_TIME = 1
  SETTLE_TIME = 1
  START_STATES = {1, 3}
  FAILING = {0, 1, 3}
  HOT = {3}
SPECIFICATION NddFairSpec
INVARIANTS GivenUpStaysOff ValidWhenConfigured
PROPERTIES FullPowerCycle Recovers
