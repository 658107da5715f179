SPECIFICATION FairSpec
CONSTANTS
  PageSize = 8
  RowSize = 3
  HdrSize = 1
  NCols = 1
  VarCols = {}
  v1 = v1
  v2 = v2
  Vals = {v1, v2}
  Inputs <- NumberRows
  Cells = {}
  Zero = Zero
  Null = Null
  Unalloc = Unalloc
  MaxBlocks = 3
PROPERTIES VacuumCompacts VacuumTerminates
