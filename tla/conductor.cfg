\* Two devices and two channels, two description operations under way, and the
\* UI thread beside everything.
CONSTANTS
  Device = {d1, d2}
  Channel = {c1, c2}
  None = None
  MaxOps = 2
SPECIFICATION FairSpec
INVARIANTS FreshOrReady LostOnly CameraPointer
PROPERTIES SuccessSettled
CHECK_DEADLOCK FALSE
