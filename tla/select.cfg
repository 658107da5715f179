SPECIFICATION SelSpec
CONSTANTS
  Tables <- MCTables
  Queries <- MCQueries
  Contents <- MCContents
  Null = Null
  Gone = Gone
  PageSize = 19
  HdrSize = 1
  MaxColumns = 6
  IntValues = 8
INVARIANTS  RowsAreReal 
CHECK_DEADLOCK FALSE
