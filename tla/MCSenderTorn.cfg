CONSTANTS
    MAX_DLEN = 2
    MAX_SOCK_BUF_SIZE = 4
    COMPACT_AT = 1
    SSTHRESH = 4
    MAX_RWINDOW_SIZE = 4
    AdvWindows = {1, 4}
    StreamLen = 4
    MaxCwnd = 6
SPECIFICATION Spec
INVARIANTS RetransmissionsAreFaithful
CHECK_DEADLOCK FALSE
