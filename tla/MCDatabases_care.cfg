SPECIFICATION CareSpec
CONSTANTS
  Threads = {t1, t2}
  Tables = {a, b}
  Ids = {i, j}
  Kinds = {"create", "drop", "create_table", "drop_table", "insert", "delete_row", "update", "import"}
  MaxRequests = 4
  MaxCrashes = 2
  Torn = Torn
  None = None
INVARIANTS
  TypeOK
  TablesSurvive
  RowsAreKept
  GoneStaysGone
  NothingHalfWritten
SYMMETRY MCSymmetry
CHECK_DEADLOCK FALSE
