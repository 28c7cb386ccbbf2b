CONSTANTS
    MAX_DLEN = 1
    MAX_SOCK_BUF_SIZE = 2
    COMPACT_AT = 1
    SSTHRESH = 2
    MAX_RWINDOW_SIZE = 3
    StreamLen = 3
    MaxCwnd = 8
    MaxFaults = 1
    Readers = {r1}
    RecvLens = {1}
SPECIFICATION FairSpec
INVARIANTS TransferInv NothingIsLost RestIsDone
PROPERTIES FeedsSender FeedsReceiver ImplementsStream CatchesUp
CHECK_DEADLOCK FALSE
CONSTRAINT BeforeRace
