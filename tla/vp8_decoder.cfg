SPECIFICATION Spec
CONSTANTS
  Th = 3
  MaxCnt = 6
INVARIANTS ReadyToDecode BoundedPropagation
PROPERTY RequestsApart
