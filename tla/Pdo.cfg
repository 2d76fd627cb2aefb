\* Two buses, one PDO of two variables mapped in either order, sent after every SYNC, after
\* every third one, or on request.
CONSTANTS
  BUSES = {b1, b2}
  MAX_COUNT_OF_PDO_TRANSMIT = 1
  CACHED = 1
  INPUTS = {"x", "y"}
  MAPPED = {2}
  OUTPUTS = 2
  FRAMES = {"f"}
  LENGTHS = {2}
  TYPES = {1, 3, 253}
  LONGEST = 3
  CHANGES = 6
SPECIFICATION Spec
INVARIANT CacheWhole
PROPERTIES EveryNth CacheFollows
CHECK_DEADLOCK FALSE
