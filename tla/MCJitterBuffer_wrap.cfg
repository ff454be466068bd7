SPECIFICATION Spec
CONSTANTS
    SeqMod = 16
    MaxPackets = 3
    DelayPackets = 2
    Sources = {s1}
    Endless = TRUE
    Arrivals = 0
    MaxUpdates = 0
CHECK_DEADLOCK FALSE
PROPERTY FitsIsQueued
