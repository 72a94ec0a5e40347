SPECIFICATION Spec
CONSTANTS
  Precision = 10
  MaxScale = 20
  KeyBytes = 4
  IvBytes = 1
  TagBytes = 2
  BodyLengths = {1, 2, 3}
  Typed <- MCTyped
INVARIANTS TypeOK ContextsFreed AcceptedIffIntact AmountArrives
