SPECIFICATION RSSpec
CONSTANTS
  PageSize = 9
  RowSize = 3
  HdrSize = 1
  NCols = 1
  VarCols = {}
  v1 = v1
  v2 = v2
  Vals = {v1, v2}
  Inputs <- NumberRows
  Cells = {}
  Zero = Zero
  Null = Null
  Unalloc = Unalloc
  Garbage = Garbage
  MaxBlocks = 2
INVARIANT EndMeansAll
CHECK_DEADLOCK FALSE
