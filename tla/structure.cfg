CONSTANTS
  kMaxRows = 3
  kMaxCols = 3
  Addresses = {"x", "y", "z"}
  Texts = {0, 1}
  Written <- Diagonal
  MaxLeaves = 1
  MaxCalls = 4
  Avoided = {"forgotten reference", "misplaced slots", "unmoved graph", "row index", "left edge", "short row"}
SPECIFICATION Spec
INVARIANTS GraphsFollow PointersFollow RefusalsAgree
PROPERTY KeepsPromise
CHECK_DEADLOCK FALSE
