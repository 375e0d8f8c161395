CONSTANTS
  kMaxRows = 3
  kMaxCols = 3
  Kind = {"blank", "text"}
  MaxCells = 3
SPECIFICATION Spec
INVARIANTS TypeOK CornersEnclose SizeExact PrintShowsView
PROPERTIES CellsStayPut InsertionMoves DeletionMoves
CHECK_DEADLOCK FALSE
