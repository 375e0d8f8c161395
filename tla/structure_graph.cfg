CONSTANTS
  kMaxRows = 3
  kMaxCols = 3
  Addresses = {"x", "y", "z"}
  Texts = {0, 1}
  Written <- Diagonal
  MaxLeaves = 1
  MaxCalls = 3
  Avoided = {"forgotten reference", "misplaced slots", "row index", "left edge", "short row"}
SPECIFICATION Spec
INVARIANTS GraphsFollow
CHECK_DEADLOCK FALSE
