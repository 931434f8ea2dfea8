SPECIFICATION FairSpec
CONSTANTS
  Conn = {c1}
  Session = {s1}
  None = None
  Limits = {1}
  MaxCand = 1
  VirtualCam = TRUE
  MayStop = TRUE
INVARIANTS RemovedIsCancelled FreedOnlyAfterStop GoMeansReady
PROPERTIES StopEndsSession KeepsPromise DisconnectEndsSession CallbackReturns OfferAnswered
\* The browser may leave for good, the user may stop the server, and an access
\* violation ends the process.
CHECK_DEADLOCK FALSE
