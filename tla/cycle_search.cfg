CONSTANTS
  Pos = {"a", "b", "c", "d"}
  Starts = {"a"}
SPECIFICATION FairSpec
INVARIANTS TypeOK AnswerExact GrayIsPath BlackIsDone
PROPERTY Returns
CHECK_DEADLOCK FALSE
