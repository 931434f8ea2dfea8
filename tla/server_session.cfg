\* One connection that offers twice, while ClientLimit changes.
SPECIFICATION Spec
CONSTANTS
  Conn = {c1}
  Session = {s1, s2}
  None = None
  Limits = {0, 1}
  MaxCand = 2
  VirtualCam = FALSE
  MayStop = FALSE
SYMMETRY Symmetry
INVARIANTS OneSessionPerConnection LeakOnlyUnstarted NoEventLost CallsAreServed
PROPERTIES OrphanOnlyByRacingOffer StaleUserOnlyByRacingOpen
\* The browser may leave for good, and an access violation ends the process.
CHECK_DEADLOCK FALSE
