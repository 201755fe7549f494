SPECIFICATION CarelessDeletes
CONSTANTS
  Streams = {s1}
  Keys = {k1}
  Readers = {r1}
  Appender = appender
  None = None
  States = {0, 1}
  Payloads = {1}
  Apply <- AddModulo
  MaxSeq = 1
  MaxTime = 1
  MaxClockSkew = 1
  SnapshotEvery = 1
  CacheSize = 1
INVARIANTS
  ReadsAreExact
CHECK_DEADLOCK FALSE
