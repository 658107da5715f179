SPECIFICATION Spec
CONSTANTS
  Columns <- Cols
  TypeOf <- ColumnTypes
  Conditions <- MCConditions
  Depth <- MCDepth
  Rows <- MCRows
  Sessions = {s1}
  Statements <- MCStatements
  IntHalf = 2
  Gone = Gone
INVARIANTS DoesAsAsked NeverDown ComparedAlike CellsTyped
CHECK_DEADLOCK FALSE
