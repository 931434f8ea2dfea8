SPECIFICATION Spec
CONSTANTS
  Th = 3
  MaxCnt = 6
INVARIANT PropagationRestricted
