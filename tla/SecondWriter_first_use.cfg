SPECIFICATION Spec
CONSTANTS
  Threads = {w1, w2}
  MaxSeq = 2
  None = None
INVARIANTS
  NothingOverwritten
CHECK_DEADLOCK FALSE
