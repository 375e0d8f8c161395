CONSTANTS
  kMaxRows = 3
  kMaxCols = 3
  Kind = {"blank", "text"}
  MaxCells = 3
SPECIFICATION Spec
INVARIANT PrintIsSafe
CHECK_DEADLOCK FALSE
