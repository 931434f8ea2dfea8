\* Two attempts, of which the second can begin while callbacks and intervals of
\* the first are still to run.
SPECIFICATION FairSpec
CONSTANTS
  Attempt = {a1, a2}
  None = None
  MaxIce = 2
INVARIANTS GlobalsAgree ButtonTells NeverEarly
PROPERTIES TimersStop
\* A malformed address ends it, and so do the attempts.
CHECK_DEADLOCK FALSE
