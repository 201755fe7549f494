SPECIFICATION Spec
CONSTANTS
  Streams = {s1, s2}
  Keys = {k1, k2}
  Readers = {}
  Appender = appender
  None = None
  States = {0, 1}
  Payloads = {1}
  Apply <- AddModulo
  MaxSeq = 1
  MaxTime = 0
  MaxClockSkew = 1
  SnapshotEvery = 1
  CacheSize = 1
PROPERTIES
  NothingUpdatedInPlace
  KeyCheckIsLast
CHECK_DEADLOCK FALSE
