CONSTANTS
  Documents <- MCDocuments
  FlagValues <- MCFlagValues
  MaxDocs = 3
  DirtyNames <- MCDirtyNames
SPECIFICATION Spec
INVARIANTS
  ColumnsInStep
  RowsAreDocuments
  Rectangular
