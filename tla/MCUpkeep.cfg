SPECIFICATION MCSpec
CONSTANTS
    DefaultMinSE = 2
    DefaultSE = 40
    MinRefresh = 1
    PolicyMinSE = 0
    PolicySE = 0
    PreferUAS = FALSE
    Grace = 1
    InviteSEs <- MCInviteSEs
    UpdateSEs <- MCUpdateSEs
    MinSEs <- MCFewMinSEs
    RetryAfters <- MCRetryAfters
    App = TRUE
    MaxLag = 1
    PendingWaits <- MCPendingWaits
    MaxAge = 5
    MaxUpdates = 2
    MaxListens = 1
CHECK_DEADLOCK FALSE
INVARIANTS
    SidesAgree
    NoLostChange
    CurrentMonitored
    ReadFollows
PROPERTIES
    ExpiresOverdue
    NothingHangs
