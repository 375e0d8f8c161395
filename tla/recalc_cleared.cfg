CONSTANTS
  a = a
  b = b
  c = c
  word = word
  Pos = {a, b, c}
  MaxNum = 1
  Words = {word}
  Rendered <- MCRendered
  EmptyText = EmptyText
  ValueError = ValueError
  DivError = DivError
  Texts = {1, word}
  Formulas <- ChainFormulas
  Ok = Ok
  CircularDependency = CircularDependency
  Undefined = Undefined
  Invalid = Invalid
SPECIFICATION Spec
INVARIANT ReadsAreDefined
CHECK_DEADLOCK FALSE
