CONSTANTS
  kMaxRows = 16384
  kMaxCols = 16384
  Width = 16
  Typed = {65, 90, 120, 45, 48, 49, 53, 54}
  MaxLength = 6
SPECIFICATION Spec
INVARIANTS RoundTrip NamesExact
CHECK_DEADLOCK FALSE
