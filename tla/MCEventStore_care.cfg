SPECIFICATION CareSpec
CONSTANTS
  Streams = {s1}
  Keys = {k1}
  Readers = {r1}
  Appender = appender
  None = None
  States = {0, 1, 2}
  Payloads = {1, 2}
  Apply <- AddModulo
  MaxSeq = 3
  MaxTime = 1
  MaxClockSkew = 1
  SnapshotEvery = 2
  CacheSize = 1
INVARIANTS
  TypeOK
  ReadsAreExact
  Coherent
PROPERTIES
  AppendsExtendTheLog
  IsAnEventLog
CHECK_DEADLOCK FALSE
