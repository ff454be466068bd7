SPECIFICATION MCSpec
CONSTANTS
    SeqMod = 8
    MaxPackets = 3
    DelayPackets = 2
    Sources = {s1, s2}
    Endless = FALSE
    Arrivals = 3
    MaxUpdates = 1
    SeqNumbers = 8
    MaxDropout = 3
    MaxMisorder = 1
    FirstNumbers = {0, 6}
    MaxStreams = 2
    MaxArrivals = 4
    BufferLimit = 2
    Closers = {c1, c2}
CHECK_DEADLOCK FALSE
INVARIANTS
    WindowHolds
    StatsFollow
PROPERTIES
    PlayoutInOrder
    QueueDrains
    MuxReleases
