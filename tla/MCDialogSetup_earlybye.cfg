SPECIFICATION FairSpec
CONSTANTS
    Acks = {a1, a2}
    EarlyBye = TRUE
CHECK_DEADLOCK FALSE
PROPERTY LeavesNothing
