SPECIFICATION FairSpec
CONSTANTS
    ka = ka
    kb = kb
    NoCodec = nocodec
    Dialogs = {d1, d2}
    Callers = {c1, c2}
    Codecs <- BothCodecs
    Audio <- AudioOf
    Mixable <- BothCodecs
    WaitDialogsNum = 1
    Jittered = {d1}
    StopFails = TRUE
    MaxCalls = 3
    MaxUpdates = 1
    MaxCloses = 1
CHECK_DEADLOCK FALSE
INVARIANTS
    ReadsOnlyMembers
    CodecFollowed
PROPERTIES
    SurvivorsMixed
    CallsReturn
