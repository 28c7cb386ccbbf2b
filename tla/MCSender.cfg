CONSTANTS
    MAX_DLEN = 2
    MAX_SOCK_BUF_SIZE = 4
    COMPACT_AT = 1
    SSTHRESH = 4
    MAX_RWINDOW_SIZE = 2
    AdvWindows = {0, 2}
    StreamLen = 3
    MaxCwnd = 4
SPECIFICATION Spec
INVARIANTS TypeOK SegmentsAreFaithful BufferIsSound StallsAreRaces OverrunsAreOutdated SenderInv
CHECK_DEADLOCK FALSE
CONSTRAINT BeforeOverlap
