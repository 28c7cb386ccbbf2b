CONSTANTS
    TCP_RTO_MIN = 200000
    INITIAL_RTO = 500000
    SECOND = 1000000
    Rtts = {1000, 60000, 222221}
    MaxRtt = 222221
    Window = 2
    MaxSamples = 3
    MaxResends = 2
SPECIFICATION Spec
INVARIANTS RtoInv TimerCoversWindow RefusedAfterAmbiguity IntervalCoversRoundTrip
CHECK_DEADLOCK FALSE
