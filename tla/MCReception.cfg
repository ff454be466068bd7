SPECIFICATION Spec
CONSTANTS
    SeqNumbers = 8
    MaxDropout = 3
    MaxMisorder = 1
    FirstNumbers = {0, 3, 6}
    MaxStreams = 1
    MaxArrivals = 7
CHECK_DEADLOCK FALSE
INVARIANT LosslessReported
