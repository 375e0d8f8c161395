CONSTANTS
  NumCells = 3
  P = 5
  CellVals = {0, 1, 2, Word, RefError}
  Word = Word
  ValueError = ValueError
  RefError = RefError
  DivError = DivError
  MaxNodes = 7
SPECIFICATION Spec
INVARIANT DescribesFormula
CHECK_DEADLOCK FALSE
