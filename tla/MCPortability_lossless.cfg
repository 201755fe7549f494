CONSTANTS
  None = None
  TableNames <- MCTableNames
  Layouts <- MCLayouts
  Says <- MCSays
  Drafts <- MCDrafts
  Asks <- MCAsks
  Ids = {"id1", "id2", "id3", "id4"}
  MaxSize = 2
  MaxRows = 1
  MaxFiles = 1
SPECIFICATION Spec
CHECK_DEADLOCK FALSE
PROPERTIES
  GuardedCellsAreRestored
