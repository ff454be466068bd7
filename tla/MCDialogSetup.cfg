SPECIFICATION FairSpec
CONSTANTS
    Acks = {a1, a2}
    EarlyBye = FALSE
CHECK_DEADLOCK FALSE
PROPERTIES
    AnswerUndisturbed
    LeavesNothing
    FailedAnswerEnds
    SetupEnds
