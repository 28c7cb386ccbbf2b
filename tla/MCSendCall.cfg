CONSTANTS
    Callers = {c1, c2}
    Lens = {0, 1, 2, 4}
    MAX_SOCK_BUF_SIZE = 4
    COMPACT_AT = 2
SPECIFICATION FairSpec
INVARIANTS TypeOK CallsAreWhole OnlyRestarts ReturnedIsQueued
PROPERTIES SomeCallReturns
CHECK_DEADLOCK FALSE
