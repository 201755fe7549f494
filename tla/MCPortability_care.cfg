CONSTANTS
  None = None
  TableNames <- MCTableNames
  Layouts <- MCLayouts
  Says <- MCSays
  Drafts <- MCDrafts
  Asks <- MCAsks
  Ids = {"id1", "id2", "id3", "id4"}
  MaxSize = 3
  MaxRows = 2
  MaxFiles = 1
SPECIFICATION Spec
INVARIANTS
  TypeOK
  NeverHalf
PROPERTIES
  ExportsComeBack
  TypedColumnsSurviveCsv
  ImportsOnlyAdd
  TwiceIsOnce
CHECK_DEADLOCK FALSE
