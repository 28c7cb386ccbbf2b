CONSTANTS
    MAX_DLEN = 2
    MAX_RWINDOW_SIZE = 5
    MAX_SOCK_BUF_SIZE = 4
    StreamLen = 8
    Readers = {r1, r2}
    RecvLens = {1, 3}
SPECIFICATION FairSpec
INVARIANTS TypeOK ScanStops AckedIsHeld ReceiverInv
PROPERTIES NeverReneges ImplementsStream EverythingIsRead
CHECK_DEADLOCK FALSE
