SPECIFICATION MCSpec
CONSTANTS
    Reqs = {1}
    Dialogs = {d1, d2}
    Callers = {c1, c2}
    Codecs = {ka, kb}
    WaitNums = {2, 3}
    MaxUpdates = 2
CHECK_DEADLOCK FALSE
INVARIANTS
    DoneIsClean
PROPERTY ProxyEnds
