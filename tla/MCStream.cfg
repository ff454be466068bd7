SPECIFICATION MCSpec
CONSTANTS
    Digits = {1, 2}
    Callers = {1, 2}
    StartEvents = 2
    EndEvents = 2
    MaxLosses = 2
    MaxFlight = 1
    MaxTimestamp = 2
    Scenes <- MCScenes
    CodecsA <- ListsA
    CodecsB <- ListsB
    NoSDP = NoSDP
    MaxRounds = 3
CHECK_DEADLOCK FALSE
INVARIANTS
    DigitReported
    EndsAgree
PROPERTIES
    StreamsKept
    WritesReturn
    DigitsKept
