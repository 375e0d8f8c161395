CONSTANTS
  a = a
  b = b
  c = c
  word = word
  Pos = {a, b, c}
  MaxNum = 1
  Words = {word}
  Rendered <- MCRendered
  EmptyText = EmptyText
  ValueError = ValueError
  DivError = DivError
  Texts = {1, word, EmptyText}
  Formulas <- ChainFormulas
  Ok = Ok
  CircularDependency = CircularDependency
  Undefined = Undefined
  Invalid = Invalid
SPECIFICATION Spec
INVARIANTS TypeOK GraphsAgree NoCycle PointersLive CacheCoherent CacheFresh ReadsDetermined
PROPERTIES InvalidationExact KeepsPromise
CHECK_DEADLOCK FALSE
