SPECIFICATION FairSpec
CHECK_DEADLOCK FALSE
CONSTANTS
  Attempts = {a1}
  Handlers = {h1, h2}
  Nobody = Nobody
  MaxNotifies = 1
  TimerN = 1
  MaxBound = 2
  Expires = {0, 2}
  MaxInFlight = 1
  MaxCallbackRefers = 1
  MaxNow = 3
INVARIANTS
  BoundHeld
PROPERTIES
  ExpiresTruly
  AcceptedIsReported
