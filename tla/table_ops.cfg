SPECIFICATION Spec
CONSTANTS
  PageSize = 9
  RowSize = 3
  HdrSize = 1
  NCols = 2
  VarCols = {2}
  v1 = v1
  v2 = v2
  Vals = {v1, v2}
  Inputs <- MixedRows
  Cells = {1, 2, 3, 4}
  Zero = Zero
  Null = Null
  Unalloc = Unalloc
  MaxBlocks = 2
INVARIANTS TypeOK SlotDiscipline VacuumOrder NeverAborts NoAliasing
PROPERTIES ImplementsStore
