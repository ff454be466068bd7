SPECIFICATION MCSpec
CONSTANTS
    Expiry = 8
    RetryInterval = 0
    RetryMin = 3
    BackoffInitial = 1
    BackoffMax = 4
    DefaultRetry = 3
    Grants = {0, 4, 5}
    RetryAfters = {0, 1}
    TxTimeout = 2
    MaxAge = 10
    MaxFailures = 3
    MaxOutages = 4
    Reqs = {1, 2, 3}
CHECK_DEADLOCK FALSE
INVARIANTS
    LiveIsFound
    ReferReported
PROPERTIES
    KeptWhileHeld
    Recovers
    DeadPeerReported
    EndedIsReleased
