CONSTANTS
  Sessions = {s1, s2}
  Columns <- MCColumns
  Statements <- MCStatements
  Exprs <- MCExprs
  TableName = "t"
  Depth <- MCDepth
  IntMax = 7
  MaxSlots = 4

SPECIFICATION Spec
INVARIANTS RowsAsWritten AllOrNothing NotNullKept DownOnlyOnUndefined
