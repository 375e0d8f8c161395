CONSTANTS
  Rows = 3
  Cols = 2
  MaxLength = 4
  MaxCount = 2
  MaxLeaves = 2
SPECIFICATION Spec
INVARIANTS TypeOK RefsOfTree LeavesFollow NoFalseRef
PROPERTY EffectReported
CHECK_DEADLOCK FALSE
