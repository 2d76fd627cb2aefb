CONSTANTS
  TIMERS = {TimerDelay, TimerSpi, TimerCan0}
  TimerDelay = TimerDelay
  COUNT_USER_TIMERS = 3
  VALUES = {0, 2, 3}
  None = None
SPECIFICATION TimerFairSpec
INVARIANT NeverEarly
PROPERTY DelayEnds
