SPECIFICATION FairSpec
CONSTANTS
  Task = {t1, t2, t3}
  None = None
  Leaked = Leaked
INVARIANTS PortAccounted StrayOnlyByMiss
PROPERTIES CancelledStops OffFreesPort
CHECK_DEADLOCK FALSE
