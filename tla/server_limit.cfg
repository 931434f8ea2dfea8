SPECIFICATION Spec
CONSTANTS
  Conn = {c1, c2}
  Session = {s1}
  None = None
  Limits = {1}
  MaxCand = 0
  VirtualCam = FALSE
  MayStop = FALSE
INVARIANT NeverOverLimit
CHECK_DEADLOCK FALSE
