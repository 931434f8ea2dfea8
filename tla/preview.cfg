\* Two sessions render remote frames, one thread local ones, and the UI thread
\* contends with them for the boxes.
CONSTANTS
  Remote = {r1, r2}
  Local = {l1}
  None = None
  MaxPins = 2
SPECIFICATION FairSpec
INVARIANTS OnePicture
PROPERTIES FaultOnlyInWindow CallbackReturns
CHECK_DEADLOCK FALSE
