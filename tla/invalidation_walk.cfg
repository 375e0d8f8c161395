CONSTANTS
  Pos = {"a", "b", "c", "d"}
  MaxTurns = 5
SPECIFICATION FairSpec
INVARIANTS TypeOK WalkExact OneTurnPerEdge
PROPERTY Ends
CHECK_DEADLOCK FALSE
