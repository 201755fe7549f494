SPECIFICATION CareSpec
CONSTANTS
  Threads = {t1, t2}
  Plain = {o1}
  Models = {m1}
  BlockCount = 3
  Flat <- MCFlat
  Types = {doc}
  Texts = {x, y}
  MaxRequests = 3
  None = None
INVARIANTS
  TypeOK
  IndexIsTrue
  ModelsAreWhole
PROPERTIES
  LastCopyIsKept
SYMMETRY MCSymmetry
CHECK_DEADLOCK FALSE
