SPECIFICATION SpecFaults
CONSTANTS
  PageSize = 9
  RowSize = 3
  HdrSize = 1
  NCols = 2
  VarCols = {2}
  v1 = v1
  v2 = v2
  Vals = {v1, v2}
  Inputs <- FaultRows
  Cells = {1, 2, 3}
  Zero = Zero
  Null = Null
  Unalloc = Unalloc
  MaxBlocks = 2
INVARIANT HeapOwned
CHECK_DEADLOCK FALSE
